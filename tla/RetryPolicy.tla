---------------------------- MODULE RetryPolicy ----------------------------
(***************************************************************************)
(* The retry decisions of src/src/policy.rs and the two eligibility tests  *)
(* of src/src/client.rs, as operators over the fields of one RetryPolicy.  *)
(* A policy never changes once a client is built, so its fields are        *)
(* constants.  Durations are natural numbers of ticks; a field of type     *)
(* Option<Duration> is a flag and a value.                                 *)
(***************************************************************************)
EXTENDS Integers

CONSTANTS
  MaxRetries,          \* retries after the first attempt, per redirect hop
  InitialBackoff,
  Multiplier,
  MaxBackoff,
  HasDeadline,         \* deadline is Some(Deadline)
  Deadline,
  HonorRetryAfter,
  MaxRetryAfter,
  RetryStatuses,
  IdempotentMethods,
  RetryNonIdempotent

ASSUME PolicyAssumption ==
  /\ MaxRetries \in Nat
  /\ InitialBackoff \in Nat
  /\ Multiplier \in Nat \ {0}
  /\ MaxBackoff \in Nat
  /\ HasDeadline \in BOOLEAN
  /\ Deadline \in Nat
  /\ HonorRetryAfter \in BOOLEAN
  /\ MaxRetryAfter \in Nat
  /\ RetryNonIdempotent \in BOOLEAN

-----------------------------------------------------------------------------
\* What retry_after_value makes of a Retry-After header: a delay (whole
\* seconds, or the distance to an HTTP date, never negative), or this, for a
\* header that is absent or does not parse.
NoRetryAfter == -1

Larger(a, b) == IF a >= b THEN a ELSE b
Smaller(a, b) == IF a <= b THEN a ELSE b

\* backoff_for: full jitter, so any duration up to the exponential growth and
\* up to the cap.  Growth past the cap, overflow included, is the cap.
BackoffFor(attempt) ==
  {d \in 0..MaxBackoff : d <= InitialBackoff * Multiplier ^ attempt}

\* parse_retry_after: None if the policy ignores the header, else capped.
ParseRetryAfter(retryAfter) ==
  IF HonorRetryAfter /\ retryAfter # NoRetryAfter
  THEN Smaller(retryAfter, MaxRetryAfter)
  ELSE NoRetryAfter

\* Variant: any 429 or 503 is taken for a refusal to act.
BusyIsBackpressure(resp) == resp.status \in {429, 503}

\* is_backpressure: it does not look at honor_retry_after, which governs the
\* delay and not the signal.
IsBackpressure(resp) ==
  resp.status \in {429, 503} /\ resp.retryAfter # NoRetryAfter

\* Variants: every method, or every method on a retryable status, is replayed.
AnyMethodRetryable(method, optIn) == TRUE
AnyStatusRetryable(method, resp, optIn) == resp.status \in RetryStatuses

\* method_retryable and status_retryable.
MethodRetryable(method, optIn) ==
  optIn \/ RetryNonIdempotent \/ method \in IdempotentMethods

StatusRetryable(method, resp, optIn) ==
  /\ resp.status \in RetryStatuses
  /\ MethodRetryable(method, optIn) \/ IsBackpressure(resp)

\* Variant: the backoff ignores Retry-After.
BackoffAlone(resp, backoff) == backoff

\* The delay before replaying an answered request: a Retry-After the policy
\* honours only ever lengthens the backoff (NoRetryAfter is below every backoff).
ReplayDelay(resp, backoff) == Larger(ParseRetryAfter(resp.retryAfter), backoff)

=============================================================================
