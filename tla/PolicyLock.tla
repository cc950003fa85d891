----------------------------- MODULE PolicyLock -----------------------------
(***************************************************************************)
(* Several execute calls on clones of one client (src/src/client.rs).  All *)
(* they share that changes is the retry policy behind a std::sync::Mutex:  *)
(* its jitter generator, and the poison a panic under the lock leaves.     *)
(* A call takes the lock at six places, named here by what it reads:       *)
(*   deadline    once per call, to compute started + deadline              *)
(*   limit       once per hop, max_retries                                 *)
(*   statuses    after a response, retry_statuses                          *)
(*   method      whether the method may be replayed                        *)
(*   retryAfter  before a replay, the Retry-After of the response          *)
(*   backoff     before a replay, a draw of the jitter generator           *)
(* What the policy answers is left open; Execute has it.                   *)
(***************************************************************************)
EXTENDS Integers

CONSTANTS
  Calls,
  MaxRetries,
  MaxHops,          \* redirects a call may follow
  MayOverflow,      \* whether some started + deadline is past the clock's range
  RngMayPanic,      \* whether the policy's Rng, a caller's perhaps, may panic
  Nobody

ASSUME LockAssumption ==
  /\ MaxRetries \in Nat /\ MaxHops \in Nat
  /\ MayOverflow \in BOOLEAN /\ RngMayPanic \in BOOLEAN
  /\ Nobody \notin Calls

VARIABLES
  pc,         \* where each call is: at a lock site, or waiting, or ended
  cause,      \* what its last attempt brought: a response or an error
  attempt,
  hops,
  holder,     \* the call that holds the guard
  poisoned,
  generator,  \* position of the jitter generator
  jitter,     \* position each call drew from last, -1 for none
  resent      \* history: attempts each call sent once the mutex was poisoned

vars == <<pc, cause, attempt, hops, holder, poisoned, generator, jitter, resent>>

Sites == {"deadline", "limit", "statuses", "method", "retryAfter", "backoff"}
Waiting == {"inflight", "sleeping"}
\* "done" is a response or an error the call chose under the lock, "expired" the
\* DeadlineExceeded it needs no lock for.
Ended == {"done", "expired", "dropped", "panicked"}

Init ==
  /\ pc = [c \in Calls |-> "deadline"]
  /\ cause = [c \in Calls |-> "none"]
  /\ attempt = [c \in Calls |-> 0]
  /\ hops = [c \in Calls |-> 0]
  /\ holder = Nobody
  /\ poisoned = FALSE
  /\ generator = 0
  /\ jitter = [c \in Calls |-> -1]
  /\ resent = [c \in Calls |-> 0]

-----------------------------------------------------------------------------
\* Variant: the lock is taken whether it is poisoned or not.
LockAnyway(c) ==
  /\ pc[c] \in Sites
  /\ holder = Nobody
  /\ holder' = c
  /\ UNCHANGED <<pc, cause, attempt, hops, poisoned, generator, jitter, resent>>

\* lock().unwrap() at the site a call has reached: it blocks while another
\* guard lives, and panics on a poisoned mutex.
Lock(c) ==
  /\ pc[c] \in Sites
  /\ holder = Nobody
  /\ ~poisoned
  /\ holder' = c
  /\ UNCHANGED <<pc, cause, attempt, hops, poisoned, generator, jitter, resent>>

LockPoisoned(c) ==
  /\ pc[c] \in Sites
  /\ holder = Nobody
  /\ poisoned
  /\ pc' = [pc EXCEPT ![c] = "panicked"]
  /\ UNCHANGED <<cause, attempt, hops, holder, poisoned, generator, jitter, resent>>

At(c, site) == pc[c] = site /\ holder = c

\* Variant: the guard of a site outlives its statement.
KeepGuard == UNCHANGED holder
DropGuard == holder' = Nobody

\* The call leaves its site for next; the guard is a temporary of the
\* statement, or of a block that ends before the call goes on.
Leave(c, next) ==
  /\ DropGuard
  /\ pc' = [pc EXCEPT ![c] = next]

\* The guard of the first URL may end the call before it asks for its limit.
Snapshot(c) ==
  /\ At(c, "deadline")
  /\ Leave(c, "limit") \/ Leave(c, "done")
  /\ UNCHANGED <<cause, attempt, hops, poisoned, generator, jitter, resent>>

\* Variant: a panic under the lock leaves the mutex locked for good.
OverflowsHolding(c) ==
  /\ MayOverflow
  /\ At(c, "deadline")
  /\ pc' = [pc EXCEPT ![c] = "panicked"]
  /\ poisoned' = TRUE
  /\ UNCHANGED <<cause, attempt, hops, holder, generator, jitter, resent>>

\* The guard is alive when started + deadline panics: unwinding drops it, which
\* poisons the mutex.  started is read before the lock, so calls overflow in
\* any order.
SnapshotOverflows(c) ==
  /\ MayOverflow
  /\ At(c, "deadline")
  /\ Leave(c, "panicked")
  /\ poisoned' = TRUE
  /\ UNCHANGED <<cause, attempt, hops, generator, jitter, resent>>

\* An attempt goes out; the history counts it when the mutex is poisoned.
Send(c) == resent' = IF poisoned THEN [resent EXCEPT ![c] = @ + 1] ELSE resent

ReadLimit(c) ==
  /\ At(c, "limit")
  /\ Leave(c, "inflight")
  /\ attempt' = [attempt EXCEPT ![c] = 0]
  /\ Send(c)
  /\ UNCHANGED <<cause, hops, poisoned, generator, jitter>>

\* The attempt ends, with a response or with an error; or the deadline ends it.
Answered(c) ==
  /\ pc[c] = "inflight"
  /\ \/ pc' = [pc EXCEPT ![c] = "statuses"] /\ cause' = [cause EXCEPT ![c] = "response"]
     \/ pc' = [pc EXCEPT ![c] = "method"] /\ cause' = [cause EXCEPT ![c] = "error"]
     \/ pc' = [pc EXCEPT ![c] = "expired"] /\ UNCHANGED cause
  /\ UNCHANGED <<attempt, hops, holder, poisoned, generator, jitter, resent>>

\* execute has the response of the hop: it returns, or follows a redirect.
AfterHop(c) ==
  \/ Leave(c, "done") /\ UNCHANGED hops
  \/ /\ hops[c] < MaxHops
     /\ Leave(c, "limit")
     /\ hops' = [hops EXCEPT ![c] = @ + 1]

CheckStatus(c) ==
  /\ At(c, "statuses")
  /\ \/ Leave(c, "method") /\ UNCHANGED hops
     \/ AfterHop(c)
  /\ UNCHANGED <<cause, attempt, poisoned, generator, jitter, resent>>

MayReplay(c) == attempt[c] < MaxRetries

\* A response may be replayed even where the method may not (backpressure), so
\* both ways are open after a response; an error is replayed or returned.
CheckMethod(c) ==
  /\ At(c, "method")
  /\ \/ /\ MayReplay(c) /\ cause[c] = "response"
        /\ Leave(c, "retryAfter") /\ UNCHANGED hops
     \/ /\ MayReplay(c) /\ cause[c] = "error"
        /\ Leave(c, "backoff") /\ UNCHANGED hops
     \/ cause[c] = "response" /\ AfterHop(c)
     \/ cause[c] = "error" /\ Leave(c, "done") /\ UNCHANGED hops
  /\ UNCHANGED <<cause, attempt, poisoned, generator, jitter, resent>>

ReadRetryAfter(c) ==
  /\ At(c, "retryAfter")
  /\ Leave(c, "backoff")
  /\ UNCHANGED <<cause, attempt, hops, poisoned, generator, jitter, resent>>

\* Variant: the draw is made on a copy of the generator (DefaultRng is Copy).
DrawFromCopy(c) ==
  /\ UNCHANGED generator
  /\ jitter' = [jitter EXCEPT ![c] = generator]

\* uniform: a largest backoff of zero is returned as it is, with no draw.
Draw(c) ==
  \/ /\ generator' = generator + 1
     /\ jitter' = [jitter EXCEPT ![c] = generator]
  \/ /\ UNCHANGED generator
     /\ jitter' = [jitter EXCEPT ![c] = -1]

\* backoff_for; then the call sleeps, or has no time left for it.
DrawBackoff(c) ==
  /\ At(c, "backoff")
  /\ Draw(c)
  /\ \/ Leave(c, "sleeping") /\ UNCHANGED hops
     \/ cause[c] = "response" /\ AfterHop(c)
     \/ cause[c] = "error" /\ Leave(c, "done") /\ UNCHANGED hops
  /\ UNCHANGED <<cause, attempt, poisoned, resent>>

\* The guard is alive while the Rng runs.
RngPanics(c) ==
  /\ RngMayPanic
  /\ At(c, "backoff")
  /\ Leave(c, "panicked")
  /\ poisoned' = TRUE
  /\ UNCHANGED <<cause, attempt, hops, generator, jitter, resent>>

\* The next turn of the loop signs and sends without the lock, poisoned or not;
\* with its deadline past it ends before it sends.
Wake(c) ==
  /\ pc[c] = "sleeping"
  /\ \/ /\ pc' = [pc EXCEPT ![c] = "inflight"]
        /\ attempt' = [attempt EXCEPT ![c] = @ + 1]
        /\ Send(c)
     \/ /\ pc' = [pc EXCEPT ![c] = "expired"]
        /\ UNCHANGED <<attempt, resent>>
  /\ UNCHANGED <<cause, hops, holder, poisoned, generator, jitter>>

\* The caller may drop the future of its call at an await, and only there.
Drop(c) ==
  /\ pc[c] \in Waiting
  /\ pc' = [pc EXCEPT ![c] = "dropped"]
  /\ UNCHANGED <<cause, attempt, hops, holder, poisoned, generator, jitter, resent>>

\* What a call does with the guard in its hands, or with no need for it.
Proceed(c) ==
  \/ Snapshot(c) \/ SnapshotOverflows(c)
  \/ ReadLimit(c) \/ Answered(c)
  \/ CheckStatus(c) \/ CheckMethod(c) \/ ReadRetryAfter(c)
  \/ DrawBackoff(c) \/ RngPanics(c) \/ Wake(c)

Next ==
  \E c \in Calls : Lock(c) \/ LockPoisoned(c) \/ Proceed(c) \/ Drop(c)

\* Attempts and sleeps end (by the deadline or the HTTP timeout, see Client's
\* EveryRequestEnds), a call between two awaits runs on, and a thread that keeps
\* asking for the mutex gets it.
Fairness ==
  \A c \in Calls :
    /\ WF_vars(Proceed(c))
    /\ SF_vars(Lock(c) \/ LockPoisoned(c))

Spec == Init /\ [][Next]_vars /\ Fairness

-----------------------------------------------------------------------------
TypeOK ==
  /\ pc \in [Calls -> Sites \cup Waiting \cup Ended]
  /\ cause \in [Calls -> {"none", "response", "error"}]
  /\ attempt \in [Calls -> 0..MaxRetries]
  /\ hops \in [Calls -> 0..MaxHops]
  /\ holder \in Calls \cup {Nobody}
  /\ poisoned \in BOOLEAN
  /\ generator \in Nat
  /\ jitter \in [Calls -> Nat \cup {-1}]
  /\ resent \in [Calls -> Nat]

\* No call waits for the network or for a timer, or ends, or is dropped, with
\* the guard in its hands: a slow server never blocks the calls of a clone.
NoGuardAcrossAwait ==
  \A c \in Calls : pc[c] \in Waiting \cup Ended => holder # c

\* Calls that back off at the same time do not back off in step: no two of
\* them sleep on the same draw of the shared generator.  (Where the largest backoff
\* is zero there is no draw, -1, and nothing to keep apart.)
JitterIsNotShared ==
  \A c, d \in Calls : c # d /\ jitter[c] = jitter[d] => jitter[c] = -1

\* Every call ends, whatever panics: no site waits for a guard its own call
\* holds, no call is starved, and a panic under the lock leaves none hanging.
EveryCallEnds == \A c \in Calls : <>(pc[c] \in Ended)

\* What a panic under the lock costs the other clones.  A call that sleeps when
\* it happens wakes and sends once more, without the lock (the side effect of
\* its replay may take place); no call sends a second time, and what came of an
\* attempt reaches no caller: from then on a call ends in a panic, in
\* DeadlineExceeded, or dropped.
PoisonStopsReplays ==
  [][\A c \in Calls :
       poisoned => /\ resent'[c] <= 1
                   /\ pc'[c] = "done" => pc[c] = "done"]_vars

\* "Never in practice: only if the retry-policy mutex is poisoned by an
\* earlier panic elsewhere in the client" (execute, section Panics).
PanicsOnlyIfPoisoned ==
  [][\A c \in Calls :
       pc[c] # "panicked" /\ pc'[c] = "panicked" => poisoned]_vars

=============================================================================
