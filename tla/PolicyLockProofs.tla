-------------------------- MODULE PolicyLockProofs --------------------------
(***************************************************************************)
(* The invariants of the shared retry policy, for any set of calls, any    *)
(* retry and redirect limits, and with or without a deadline that          *)
(* overflows.                                                              *)
(***************************************************************************)
EXTENDS PolicyLock, TLAPS

\* A call on its way to a replay has one left: Wake stays within MaxRetries.
ReplayLeft ==
  \A c \in Calls :
    pc[c] \in {"retryAfter", "backoff", "sleeping"} => attempt[c] < MaxRetries

TypeInv == TypeOK /\ ReplayLeft

\* The guard is held at a site only, and never on a poisoned mutex.
GuardInv ==
  /\ \A c \in Calls : holder = c => pc[c] \in Sites
  /\ poisoned => holder = Nobody

\* What was sent since the poison was sent by a call that slept then, once: it
\* cannot go to sleep again.
ResentInv ==
  \A c \in Calls :
    /\ resent[c] <= 1
    /\ resent[c] # 0 => poisoned /\ pc[c] # "sleeping"

\* The generator is past every draw, and no draw was handed out twice.
DrawInv ==
  /\ \A c \in Calls : jitter[c] < generator
  /\ JitterIsNotShared

-----------------------------------------------------------------------------
\* Every variable keeps its type; the attempt counter stays within the limit
\* read from the policy, as the loop of send_with_retries has it.
LEMMA TypeInvHolds == Spec => []TypeInv
<1>1. Init => TypeInv
  <2> SUFFICES ASSUME Init PROVE TypeInv
    OBVIOUS
  <2> USE LockAssumption DEF LockAssumption, Init
  <2>1. /\ pc \in [Calls -> Sites \cup Waiting \cup Ended]
        /\ cause \in [Calls -> {"none", "response", "error"}]
    BY DEF Sites
  <2>2. /\ attempt \in [Calls -> 0..MaxRetries]
        /\ hops \in [Calls -> 0..MaxHops]
        /\ generator \in Nat
        /\ resent \in [Calls -> Nat]
    OBVIOUS
  <2>3. jitter \in [Calls -> Nat \cup {-1}]
    OBVIOUS
  <2>4. ReplayLeft
    BY DEF ReplayLeft
  <2> QED
    BY <2>1, <2>2, <2>3, <2>4 DEF TypeInv, TypeOK
<1>2. TypeInv /\ [Next]_vars => TypeInv'
  <2> SUFFICES ASSUME TypeInv, [Next]_vars PROVE TypeInv'
    OBVIOUS
  <2> USE LockAssumption DEF LockAssumption, TypeInv, TypeOK, ReplayLeft,
      At, Leave, DropGuard, AfterHop,
      Sites, Waiting, Ended
  <2>1. CASE UNCHANGED vars
    BY <2>1 DEF vars
  <2>2. ASSUME NEW c \in Calls, Lock(c) PROVE TypeInv'
    BY <2>2 DEF Lock
  <2>3. ASSUME NEW c \in Calls, LockPoisoned(c) PROVE TypeInv'
    BY <2>3 DEF LockPoisoned
  <2>4. ASSUME NEW c \in Calls, Drop(c) PROVE TypeInv'
    BY <2>4 DEF Drop
  <2>5. ASSUME NEW c \in Calls, Snapshot(c) PROVE TypeInv'
    BY <2>5 DEF Snapshot
  <2>6. ASSUME NEW c \in Calls, SnapshotOverflows(c) PROVE TypeInv'
    BY <2>6 DEF SnapshotOverflows
  <2>7. ASSUME NEW c \in Calls, ReadLimit(c) PROVE TypeInv'
    BY <2>7 DEF ReadLimit, Send
  <2>8. ASSUME NEW c \in Calls, Answered(c) PROVE TypeInv'
    BY <2>8 DEF Answered
  <2>9. ASSUME NEW c \in Calls, CheckStatus(c) PROVE TypeInv'
    BY <2>9 DEF CheckStatus
  <2>10. ASSUME NEW c \in Calls, CheckMethod(c) PROVE TypeInv'
    BY <2>10 DEF CheckMethod, MayReplay
  <2>11. ASSUME NEW c \in Calls, ReadRetryAfter(c) PROVE TypeInv'
    BY <2>11 DEF ReadRetryAfter
  <2>12. ASSUME NEW c \in Calls, DrawBackoff(c) PROVE TypeInv'
    BY <2>12 DEF DrawBackoff, Draw
  <2>13. ASSUME NEW c \in Calls, Wake(c) PROVE TypeInv'
    BY <2>13 DEF Wake, Send
  <2>14. ASSUME NEW c \in Calls, RngPanics(c) PROVE TypeInv'
    BY <2>14 DEF RngPanics
  <2> QED
    BY <2>1, <2>2, <2>3, <2>4, <2>5, <2>6, <2>7, <2>8, <2>9, <2>10, <2>11,
       <2>12, <2>13, <2>14 DEF Next, Proceed
<1> QED
  BY <1>1, <1>2, PTL DEF Spec

\* The type invariant.
THEOREM TypeCorrect == Spec => []TypeOK
BY TypeInvHolds, PTL DEF TypeInv

-----------------------------------------------------------------------------
\* A guard lives at its site only, and a poisoned mutex is never held.
LEMMA GuardInvHolds == Spec => []GuardInv
<1>1. Init => GuardInv
  BY LockAssumption DEF LockAssumption, Init, GuardInv
<1>2. TypeOK /\ GuardInv /\ [Next]_vars => GuardInv'
  <2> SUFFICES ASSUME TypeOK, GuardInv, [Next]_vars PROVE GuardInv'
    OBVIOUS
  <2> USE LockAssumption DEF LockAssumption, TypeOK, GuardInv,
      At, Leave, DropGuard, AfterHop,
      Sites, Waiting, Ended
  <2>1. CASE UNCHANGED vars
    BY <2>1 DEF vars
  <2>2. ASSUME NEW c \in Calls, Lock(c) PROVE GuardInv'
    BY <2>2 DEF Lock
  <2>3. ASSUME NEW c \in Calls, LockPoisoned(c) PROVE GuardInv'
    BY <2>3 DEF LockPoisoned
  <2>4. ASSUME NEW c \in Calls, Drop(c) PROVE GuardInv'
    BY <2>4 DEF Drop
  <2>5. ASSUME NEW c \in Calls, Snapshot(c) PROVE GuardInv'
    BY <2>5 DEF Snapshot
  <2>6. ASSUME NEW c \in Calls, SnapshotOverflows(c) PROVE GuardInv'
    BY <2>6 DEF SnapshotOverflows
  <2>7. ASSUME NEW c \in Calls, ReadLimit(c) PROVE GuardInv'
    BY <2>7 DEF ReadLimit, Send
  <2>8. ASSUME NEW c \in Calls, Answered(c) PROVE GuardInv'
    BY <2>8 DEF Answered
  <2>9. ASSUME NEW c \in Calls, CheckStatus(c) PROVE GuardInv'
    BY <2>9 DEF CheckStatus
  <2>10. ASSUME NEW c \in Calls, CheckMethod(c) PROVE GuardInv'
    BY <2>10 DEF CheckMethod, MayReplay
  <2>11. ASSUME NEW c \in Calls, ReadRetryAfter(c) PROVE GuardInv'
    BY <2>11 DEF ReadRetryAfter
  <2>12. ASSUME NEW c \in Calls, DrawBackoff(c) PROVE GuardInv'
    BY <2>12 DEF DrawBackoff, Draw
  <2>13. ASSUME NEW c \in Calls, Wake(c) PROVE GuardInv'
    BY <2>13 DEF Wake, Send
  <2>14. ASSUME NEW c \in Calls, RngPanics(c) PROVE GuardInv'
    BY <2>14 DEF RngPanics
  <2> QED
    BY <2>1, <2>2, <2>3, <2>4, <2>5, <2>6, <2>7, <2>8, <2>9, <2>10, <2>11,
       <2>12, <2>13, <2>14 DEF Next, Proceed
<1> QED
  BY <1>1, <1>2, TypeCorrect, PTL DEF Spec

\* No call keeps the policy's guard over an await, a return or a drop.
THEOREM GuardIsShort == Spec => []NoGuardAcrossAwait
<1>1. GuardInv => NoGuardAcrossAwait
  BY DEF GuardInv, NoGuardAcrossAwait, Sites, Waiting, Ended
<1> QED
  BY <1>1, GuardInvHolds, PTL

\* Only a call that slept when the mutex was poisoned sends again, once.
LEMMA ResentInvHolds == Spec => []ResentInv
<1>1. Init => ResentInv
  <2> SUFFICES ASSUME Init, NEW c \in Calls
               PROVE  resent[c] <= 1 /\ (resent[c] # 0 => poisoned /\ pc[c] # "sleeping")
    BY DEF ResentInv
  <2>1. resent[c] = 0
    BY DEF Init
  <2> QED
    BY <2>1
<1>2. TypeOK /\ GuardInv /\ ResentInv /\ [Next]_vars => ResentInv'
  <2> SUFFICES ASSUME TypeOK, GuardInv, ResentInv, [Next]_vars PROVE ResentInv'
    OBVIOUS
  <2> USE LockAssumption DEF LockAssumption, TypeOK, GuardInv, ResentInv,
      At, Leave, DropGuard, AfterHop,
      Sites, Waiting, Ended
  <2>1. CASE UNCHANGED vars
    BY <2>1 DEF vars
  <2>2. ASSUME NEW c \in Calls, Lock(c) PROVE ResentInv'
    BY <2>2 DEF Lock
  <2>3. ASSUME NEW c \in Calls, LockPoisoned(c) PROVE ResentInv'
    BY <2>3 DEF LockPoisoned
  <2>4. ASSUME NEW c \in Calls, Drop(c) PROVE ResentInv'
    BY <2>4 DEF Drop
  <2>5. ASSUME NEW c \in Calls, Snapshot(c) PROVE ResentInv'
    BY <2>5 DEF Snapshot
  <2>6. ASSUME NEW c \in Calls, SnapshotOverflows(c) PROVE ResentInv'
    BY <2>6 DEF SnapshotOverflows
  <2>7. ASSUME NEW c \in Calls, ReadLimit(c) PROVE ResentInv'
    BY <2>7 DEF ReadLimit, Send
  <2>8. ASSUME NEW c \in Calls, Answered(c) PROVE ResentInv'
    BY <2>8 DEF Answered
  <2>9. ASSUME NEW c \in Calls, CheckStatus(c) PROVE ResentInv'
    BY <2>9 DEF CheckStatus
  <2>10. ASSUME NEW c \in Calls, CheckMethod(c) PROVE ResentInv'
    BY <2>10 DEF CheckMethod, MayReplay
  <2>11. ASSUME NEW c \in Calls, ReadRetryAfter(c) PROVE ResentInv'
    BY <2>11 DEF ReadRetryAfter
  <2>12. ASSUME NEW c \in Calls, DrawBackoff(c) PROVE ResentInv'
    BY <2>12 DEF DrawBackoff, Draw
  <2>13. ASSUME NEW c \in Calls, Wake(c) PROVE ResentInv'
    BY <2>13 DEF Wake, Send
  <2>14. ASSUME NEW c \in Calls, RngPanics(c) PROVE ResentInv'
    BY <2>14 DEF RngPanics
  <2> QED
    BY <2>1, <2>2, <2>3, <2>4, <2>5, <2>6, <2>7, <2>8, <2>9, <2>10, <2>11,
       <2>12, <2>13, <2>14 DEF Next, Proceed
<1> QED
  BY <1>1, <1>2, TypeCorrect, GuardInvHolds, PTL DEF Spec

\* After a panic under the lock each clone sends at most once more, and hands
\* nothing that came of an attempt to its caller.
THEOREM PoisonIsFinal == Spec => PoisonStopsReplays
<1> DEFINE Stops ==
      \A c \in Calls :
        poisoned => /\ resent'[c] <= 1
                    /\ pc'[c] = "done" => pc[c] = "done"
<1>1. TypeOK /\ GuardInv /\ ResentInv /\ ResentInv' /\ [Next]_vars => [Stops]_vars
  <2> SUFFICES ASSUME TypeOK, GuardInv, ResentInv', [Next]_vars PROVE Stops
    OBVIOUS
  <2> USE LockAssumption DEF LockAssumption, TypeOK, GuardInv, ResentInv,
      At, Leave, DropGuard, AfterHop,
      Sites, Waiting, Ended
  <2>1. CASE UNCHANGED vars
    BY <2>1 DEF vars
  <2>2. ASSUME NEW c \in Calls, Lock(c) PROVE Stops
    BY <2>2 DEF Lock
  <2>3. ASSUME NEW c \in Calls, LockPoisoned(c) PROVE Stops
    BY <2>3 DEF LockPoisoned
  <2>4. ASSUME NEW c \in Calls, Drop(c) PROVE Stops
    BY <2>4 DEF Drop
  <2>5. ASSUME NEW c \in Calls, Snapshot(c) PROVE Stops
    BY <2>5 DEF Snapshot
  <2>6. ASSUME NEW c \in Calls, SnapshotOverflows(c) PROVE Stops
    BY <2>6 DEF SnapshotOverflows
  <2>7. ASSUME NEW c \in Calls, ReadLimit(c) PROVE Stops
    BY <2>7 DEF ReadLimit, Send
  <2>8. ASSUME NEW c \in Calls, Answered(c) PROVE Stops
    BY <2>8 DEF Answered
  <2>9. ASSUME NEW c \in Calls, CheckStatus(c) PROVE Stops
    BY <2>9 DEF CheckStatus
  <2>10. ASSUME NEW c \in Calls, CheckMethod(c) PROVE Stops
    BY <2>10 DEF CheckMethod, MayReplay
  <2>11. ASSUME NEW c \in Calls, ReadRetryAfter(c) PROVE Stops
    BY <2>11 DEF ReadRetryAfter
  <2>12. ASSUME NEW c \in Calls, DrawBackoff(c) PROVE Stops
    BY <2>12 DEF DrawBackoff, Draw
  <2>13. ASSUME NEW c \in Calls, Wake(c) PROVE Stops
    BY <2>13 DEF Wake, Send
  <2>14. ASSUME NEW c \in Calls, RngPanics(c) PROVE Stops
    BY <2>14 DEF RngPanics
  <2> QED
    BY <2>1, <2>2, <2>3, <2>4, <2>5, <2>6, <2>7, <2>8, <2>9, <2>10, <2>11,
       <2>12, <2>13, <2>14 DEF Next, Proceed
<1> QED
  BY <1>1, TypeCorrect, GuardInvHolds, ResentInvHolds, PTL DEF Spec, PoisonStopsReplays

-----------------------------------------------------------------------------
\* Two calls never back off on the same draw of the jitter generator.
THEOREM DrawsAreDistinct == Spec => []JitterIsNotShared
<1>1. Init => DrawInv
  BY DEF Init, DrawInv, JitterIsNotShared
<1>2. TypeOK /\ DrawInv /\ [Next]_vars => DrawInv'
  <2> SUFFICES ASSUME TypeOK, DrawInv, [Next]_vars PROVE DrawInv'
    OBVIOUS
  <2> USE LockAssumption DEF LockAssumption, TypeOK, DrawInv, JitterIsNotShared,
      At, Leave, DropGuard, AfterHop,
      Sites, Waiting, Ended
  <2>1. CASE UNCHANGED vars
    BY <2>1 DEF vars
  <2>2. ASSUME NEW c \in Calls, Lock(c) PROVE DrawInv'
    BY <2>2 DEF Lock
  <2>3. ASSUME NEW c \in Calls, LockPoisoned(c) PROVE DrawInv'
    BY <2>3 DEF LockPoisoned
  <2>4. ASSUME NEW c \in Calls, Drop(c) PROVE DrawInv'
    BY <2>4 DEF Drop
  <2>5. ASSUME NEW c \in Calls, Snapshot(c) PROVE DrawInv'
    BY <2>5 DEF Snapshot
  <2>6. ASSUME NEW c \in Calls, SnapshotOverflows(c) PROVE DrawInv'
    BY <2>6 DEF SnapshotOverflows
  <2>7. ASSUME NEW c \in Calls, ReadLimit(c) PROVE DrawInv'
    BY <2>7 DEF ReadLimit, Send
  <2>8. ASSUME NEW c \in Calls, Answered(c) PROVE DrawInv'
    BY <2>8 DEF Answered
  <2>9. ASSUME NEW c \in Calls, CheckStatus(c) PROVE DrawInv'
    BY <2>9 DEF CheckStatus
  <2>10. ASSUME NEW c \in Calls, CheckMethod(c) PROVE DrawInv'
    BY <2>10 DEF CheckMethod, MayReplay
  <2>11. ASSUME NEW c \in Calls, ReadRetryAfter(c) PROVE DrawInv'
    BY <2>11 DEF ReadRetryAfter
  <2>12. ASSUME NEW c \in Calls, DrawBackoff(c) PROVE DrawInv'
    BY <2>12 DEF DrawBackoff, Draw
  <2>13. ASSUME NEW c \in Calls, Wake(c) PROVE DrawInv'
    BY <2>13 DEF Wake, Send
  <2>14. ASSUME NEW c \in Calls, RngPanics(c) PROVE DrawInv'
    BY <2>14 DEF RngPanics
  <2> QED
    BY <2>1, <2>2, <2>3, <2>4, <2>5, <2>6, <2>7, <2>8, <2>9, <2>10, <2>11,
       <2>12, <2>13, <2>14 DEF Next, Proceed
<1>3. DrawInv => JitterIsNotShared
  BY DEF DrawInv
<1> QED
  BY <1>1, <1>2, <1>3, TypeCorrect, PTL DEF Spec

=============================================================================
