------------------------------ MODULE Backoff ------------------------------
(***************************************************************************)
(* RetryPolicy of src/src/policy.rs as a value: configured by its setters, *)
(* validated by build or used without it, and asked for the waits between  *)
(* the attempts of a hop.  It details what RetryPolicy says in one set     *)
(* each: the growth curve in floating point, the jitter generator, and the *)
(* forms of a Retry-After header.                                          *)
(*                                                                         *)
(* A double is an integer of at most FloatMax, an infinity or NaN: what    *)
(* decides here is overflow, sign and NaN, not rounding.  A word of the    *)
(* generator is the set of the bits that are one.                          *)
(***************************************************************************)
EXTENDS Integers, FiniteSetsExt

CONSTANTS
  FloatMax,     \* the greatest finite double
  DurationMax,  \* Duration::MAX, less than that
  WordMax,      \* u64::MAX, as a number of seconds
  ExponentMax,  \* i32::MAX
  Width,        \* bits of a word of the generator
  Shifts,       \* its three shifts: right, left, right
  Remap,        \* the seed that stands for zero
  Inf, NegInf, NaN,
  Values,       \* for each field, the values setters are called with
  Presets,      \* default() and upstream_compat()
  Seeds,        \* seeds of the generator
  Headers       \* Retry-After headers, see RetryAfterValue

Finite == (-FloatMax)..FloatMax
Floats == Finite \cup {Inf, NegInf, NaN}
Durations == 0..DurationMax
Bits == 0..(Width - 1)
Running == (SUBSET Bits) \ {{}}   \* words of a generator that moves
Fields ==
  {"maxRetries", "initialBackoff", "multiplier", "maxBackoff",
   "honorRetryAfter", "maxRetryAfter"}
Policies ==
  [maxRetries : Nat, initialBackoff : Durations, multiplier : Floats,
   maxBackoff : Durations, honorRetryAfter : BOOLEAN, maxRetryAfter : Durations]

\* b to the power n, as integers have it; what doubles make of it is Power.
Exp(b, n) ==
  LET exp[k \in Nat] == IF k = 0 THEN 1 ELSE exp[k - 1] * b
  IN exp[n]

ASSUME BackoffAssumption ==
  /\ FloatMax \in Nat /\ DurationMax \in Nat /\ DurationMax < FloatMax
  /\ WordMax \in Nat /\ WordMax <= DurationMax
  /\ ExponentMax \in Nat /\ Exp(2, ExponentMax) > FloatMax
  /\ Width \in Nat \ {0}
  /\ Shifts \in [{"first", "second", "third"} -> Nat \ {0}]
  /\ Remap \subseteq Bits /\ Remap # {}
  /\ \A x \in {Inf, NegInf, NaN} : x \notin Int
  /\ Inf # NegInf /\ NaN # Inf /\ NaN # NegInf
  /\ Presets \subseteq Policies
  /\ Values["maxRetries"] \subseteq Nat
  /\ Values["initialBackoff"] \subseteq Durations
  /\ Values["multiplier"] \subseteq Floats
  /\ Values["maxBackoff"] \subseteq Durations
  /\ Values["honorRetryAfter"] \subseteq BOOLEAN
  /\ Values["maxRetryAfter"] \subseteq Durations
  /\ Seeds \subseteq SUBSET Bits
  /\ Headers \subseteq [form : {"none", "text", "seconds", "date"}, n : Int]
  /\ \A h \in Headers : h.form = "date" => h.n <= DurationMax

VARIABLES
  policy,
  checked,   \* build has validated it
  pc,
  rng,       \* state of the generator
  attempt,
  bound,     \* backoff before jitter, of the last replay
  wait,      \* what the replay waits
  asked      \* the header it answers

vars == <<policy, checked, pc, rng, attempt, bound, wait, asked>>

None == -1
NoHeader == [form |-> "none", n |-> 0]
Smaller(a, b) == IF a <= b THEN a ELSE b
Larger(a, b) == IF a >= b THEN a ELSE b

-----------------------------------------------------------------------------
(* DefaultRng.                                                             *)

Right(x, n) == {b \in Bits : b + n \in x}
Left(x, n) == {b \in Bits : b - n \in x}

\* Variant: a seed is taken as it is.
FromAnySeed(seed) == seed

\* A state of zero would never change.
FromSeed(seed) == IF seed = {} THEN Remap ELSE seed

\* next_u64; xor is the symmetric difference.
NextWord(x) ==
  LET y == SymDiff(x, Right(x, Shifts["first"]))
      z == SymDiff(y, Left(y, Shifts["second"]))
  IN SymDiff(z, Right(z, Shifts["third"]))

-----------------------------------------------------------------------------
(* The growth curve.                                                       *)

Overflowing(n) == IF n > FloatMax THEN Inf ELSE IF n < -FloatMax THEN NegInf ELSE n
Sign(x) ==
  CASE x = Inf -> 1 [] x = NegInf -> -1
    [] OTHER -> IF x > 0 THEN 1 ELSE IF x < 0 THEN -1 ELSE 0

\* IEEE 754 multiplication: zero times an infinity is no number.
Times(x, y) ==
  CASE NaN \in {x, y} -> NaN
    [] {x, y} \subseteq Finite -> Overflowing(x * y)
    [] OTHER -> CASE Sign(x) * Sign(y) = 0  -> NaN
                  [] Sign(x) * Sign(y) = 1  -> Inf
                  [] Sign(x) * Sign(y) = -1 -> NegInf

\* powi: the power of zero is one, of NaN as well.
Power(x, n) ==
  LET power[k \in Nat] == IF k = 0 THEN 1 ELSE Times(power[k - 1], x)
  IN power[n]

\* try_from_secs_f64 succeeds.
IsDuration(x) == x \in Finite /\ x \in Durations

\* Variant: the exponent is the number of the replay, from 1.
ExponentFromOne(k) == Smaller(k + 1, ExponentMax)
Exponent(k) == Smaller(k, ExponentMax)

\* Variant: the cap stands in for an overflow only.
BoundUncapped(p, k) ==
  LET secs == Times(p.initialBackoff, Power(p.multiplier, Exponent(k)))
  IN IF IsDuration(secs) THEN secs ELSE p.maxBackoff

\* backoff_for, before jitter: what is no duration is the cap.
Bound(p, k) ==
  LET secs == Times(p.initialBackoff, Power(p.multiplier, Exponent(k)))
  IN IF IsDuration(secs) THEN Smaller(secs, p.maxBackoff) ELSE p.maxBackoff

\* uniform: no draw for a bound of zero.
Draws(max) == max > 0

-----------------------------------------------------------------------------
(* Retry-After.                                                            *)

\* Variant: a number that does not fit a word is no header.
OverflowIsNone(h) ==
  CASE h.form = "seconds" /\ h.n <= WordMax -> h.n
    [] h.form = "date" -> Larger(h.n, 0)
    [] OTHER -> None

\* retry_after_value. The n of a header is its number of seconds, or how far
\* its date is ahead.
RetryAfterValue(h) ==
  CASE h.form = "seconds" /\ h.n \in 0..WordMax -> h.n
    [] h.form = "seconds" /\ h.n > WordMax -> DurationMax
    [] h.form = "date" -> Larger(h.n, 0)
    [] OTHER -> None

ParseRetryAfter(p, h) ==
  IF p.honorRetryAfter /\ RetryAfterValue(h) # None
  THEN Smaller(RetryAfterValue(h), p.maxRetryAfter) ELSE None

-----------------------------------------------------------------------------
Init ==
  /\ policy \in Presets
  /\ checked = FALSE
  /\ pc = "made"
  /\ rng \in {FromSeed(seed) : seed \in Seeds}
  /\ attempt = 0
  /\ bound = 0 /\ wait = 0 /\ asked = NoHeader

\* A setter, or an assignment: the fields are public.
Set(field) ==
  /\ pc = "made"
  /\ \E value \in Values[field] : policy' = [policy EXCEPT ![field] = value]
  /\ UNCHANGED <<checked, pc, rng, attempt, bound, wait, asked>>

\* validate
Valid(p) == p.multiplier \in Finite /\ p.multiplier >= 1

\* build
Build ==
  /\ pc = "made"
  /\ IF Valid(policy) THEN pc' = "used" /\ checked' = TRUE
     ELSE pc' = "rejected" /\ UNCHANGED checked
  /\ UNCHANGED <<policy, rng, attempt, bound, wait, asked>>

\* backoff_for is public: a policy that was never validated has one, too.
UseUnchecked ==
  /\ pc = "made"
  /\ pc' = "used"
  /\ UNCHANGED <<policy, checked, rng, attempt, bound, wait, asked>>

\* send_with_retries: the delay before the replay of an answer with header h.
Replay(h) ==
  /\ pc = "used"
  /\ attempt < policy.maxRetries
  /\ attempt' = attempt + 1
  /\ asked' = h
  /\ bound' = Bound(policy, attempt)
  /\ rng' = IF Draws(bound') THEN NextWord(rng) ELSE rng
  /\ \E backoff \in 0..bound' :
       wait' = Larger(ParseRetryAfter(policy, h), backoff)
  /\ UNCHANGED <<policy, checked, pc>>

Next ==
  \/ \E field \in Fields : Set(field)
  \/ Build \/ UseUnchecked
  \/ \E h \in Headers : Replay(h)

Spec == Init /\ [][Next]_vars

-----------------------------------------------------------------------------
(* Properties.                                                             *)

\* Types; and the generator is never in the state it cannot leave.
TypeOK ==
  /\ policy \in Policies
  /\ checked \in BOOLEAN
  /\ pc \in {"made", "rejected", "used"}
  /\ rng \in Running
  /\ attempt \in 0..policy.maxRetries
  /\ bound \in Durations /\ wait \in Durations
  /\ asked \in Headers \cup {NoHeader}

\* Whatever the growth factor, negative, infinite or NaN, and however large the
\* attempt: a backoff is a duration of at most max_backoff, "the last line of
\* defence for a hand-built policy" (policy.rs 313); and no wait is longer than
\* the longer of the two caps.
WaitsAreCapped ==
  attempt > 0 =>
    /\ bound <= policy.maxBackoff
    /\ wait <= Larger(policy.maxBackoff, policy.maxRetryAfter)

\* The curve Execute assumes: for a policy that build accepted, exponential
\* growth, capped, through every overflow of a double or a duration; but for
\* an initial backoff of zero, that an infinite power makes the cap.
CurveIsExponential ==
  checked /\ attempt > 0 =>
    LET power == Exp(policy.multiplier, attempt - 1)
    IN bound = IF policy.initialBackoff = 0 /\ power > FloatMax
               THEN policy.maxBackoff
               ELSE Smaller(policy.initialBackoff * power, policy.maxBackoff)

\* Whether a header asks for a wait: no text does, no number below zero, no date
\* in the past, and nothing does of a policy that ignores the header.
Asks(p, h) ==
  p.honorRetryAfter /\ h.form \in {"seconds", "date"} /\ h.n >= 0
TooLong(h) == h.form = "seconds" /\ h.n > WordMax

\* What a server asked for is waited for, up to the cap, and beyond it only the
\* backoff: what asks for nothing (a date in the past is one) leaves the backoff
\* as it is, and a number too great for any integer type is a long time, not no
\* header.
WaitsAsAsked ==
  attempt > 0 =>
    LET most == Smaller(asked.n, policy.maxRetryAfter)
    IN IF Asks(policy, asked)
       THEN most <= wait /\ (TooLong(asked) \/ wait <= Larger(bound, most))
       ELSE wait <= bound

\* Every draw moves the generator on: backoffs never repeat for ever.
GeneratorRuns ==
  [][attempt' > attempt /\ bound' > 0 => rng' # rng]_vars

=============================================================================
