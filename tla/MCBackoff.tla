----------------------------- MODULE MCBackoff -----------------------------
(* Policies, seeds and headers for TLC.                                    *)
EXTENDS Backoff

\* The shifts of xorshift64* and the seed of policy.rs, by its bits from 0.
MCShifts == [first |-> 12, second |-> 25, third |-> 27]
MCRemap ==
  {0, 2, 4, 10, 11, 12, 13, 14, 17, 19, 22, 24, 25, 26, 27, 28, 29, 30, 32,
   35, 36, 37, 39, 40, 43, 44, 45, 46, 48, 49, 50, 52, 53, 57, 58, 59, 60,
   63}

DefaultPolicy ==
  [maxRetries |-> 4, initialBackoff |-> 1, multiplier |-> 2, maxBackoff |-> 6,
   honorRetryAfter |-> TRUE, maxRetryAfter |-> 12]
UpstreamCompat ==
  [DefaultPolicy EXCEPT !.maxRetries = 5, !.initialBackoff = 3]
MCPresets == {DefaultPolicy, UpstreamCompat}

\* Every kind of double; attempts beyond the greatest exponent.
MCValues ==
  [maxRetries      |-> {8},
   initialBackoff  |-> {0, 3},
   multiplier      |-> {-2, 1, 7, Inf, NegInf, NaN},
   maxBackoff      |-> {0, 3},
   honorRetryAfter |-> {FALSE},
   maxRetryAfter   |-> {5}]

MCSeeds == {{}, {63}}

Header(form, n) == [form |-> form, n |-> n]
MCHeaders ==
  {NoHeader, Header("text", 9), Header("seconds", -2), Header("seconds", 0),
   Header("seconds", 7), Header("seconds", 99),
   Header("date", -3), Header("date", 6)}

=============================================================================
