---------------------------- MODULE ClientProofs ----------------------------
(***************************************************************************)
(* Theorems, proved with TLAPS, about an execution (Execute) and about a   *)
(* whole call of one of Client's functions: for every policy, path, server *)
(* and body, every redirect limit and every deadline.  A call does what    *)
(* its execution does, or stutters, so it inherits the invariants of the   *)
(* execution by their step lemmas.                                         *)
(***************************************************************************)
EXTENDS Client, TLAPS

-----------------------------------------------------------------------------
(* The operators of RetryPolicy and Redirect.                              *)

\* A jittered backoff is a duration within the cap.
LEMMA BackoffBound ==
  ASSUME NEW n \in Nat, NEW d \in BackoffFor(n)
  PROVE  d \in Nat /\ d <= MaxBackoff
<1>1. d \in 0..MaxBackoff
  BY ZenonT(20) DEF BackoffFor
<1>. QED  BY <1>1, PolicyAssumption

\* A replay waits a duration that covers the backoff and any Retry-After the
\* policy honours, and that exceeds neither cap.
LEMMA DelayBound ==
  ASSUME NEW resp \in Responses, NEW n \in Nat, NEW d \in BackoffFor(n)
  PROVE  /\ ReplayDelay(resp, d) \in Nat
         /\ ReplayDelay(resp, d) >= d
         /\ HonorRetryAfter
              => ReplayDelay(resp, d) >= Smaller(resp.retryAfter, MaxRetryAfter)
         /\ ReplayDelay(resp, d) <= MaxWait
<1>1. d \in Nat /\ d <= MaxBackoff
  BY BackoffBound
<1>2. resp.retryAfter \in Nat \cup {NoRetryAfter}
  BY ExecuteAssumption
<1>. QED
  BY <1>1, <1>2, PolicyAssumption
  DEF ReplayDelay, ParseRetryAfter, Larger, Smaller, NoRetryAfter, MaxWait

\* A redirect that is followed yields a request again.
LEMMA RedirectTargetType ==
  ASSUME NEW current \in PreparedRequests, NEW resp \in Responses,
         IsRedirect(resp)
  PROVE  RedirectTarget(current, resp) \in PreparedRequests
<1>1. resp.location \in Urls
  BY ExecuteAssumption DEF IsRedirect
<1>2. RedirectMethod(current.method, resp.status) \in Methods
  BY ExecuteAssumption DEF RedirectMethod, PreparedRequests
<1>. QED
  BY <1>1, <1>2
  DEF RedirectTarget, PreparedRequests, WithoutContentHeaders, HeaderKinds

\* A URL that fails the guard ends the call with an error of its own.
LEMMA VerdictType ==
  Verdict # "ok" => Verdict \in Outcomes \ {"pending", "response"}
BY DEF Verdict, GuardRequestUrl, Outcomes

-----------------------------------------------------------------------------
(* Types.                                                                  *)

LEMMA TypeInit == Init => TypeOK
BY PolicyAssumption, ExecuteAssumption DEF Init, TypeOK, Outcomes

LEMMA CountTypes ==
  ASSUME NEW t \in Nat, NEW b \in Nat
  PROVE  CountDown(t) \in Nat /\ CountUp(t, b) \in Nat
BY DEF CountDown, CountUp

LEMMA TypeStep == TypeOK /\ [Next]_vars => TypeOK'
<1>. SUFFICES ASSUME TypeOK, [Next]_vars
              PROVE  TypeOK'
  OBVIOUS
<1>. USE DEF TypeOK, client, history
<1>1. CASE RejectUrl
  BY <1>1, VerdictType DEF RejectUrl, Return, Outcomes
<1>2. CASE EnterHop
  BY <1>2, PolicyAssumption DEF EnterHop
<1>3. CASE Send
  <2>1. Sign(cur) \in Packets
    BY DEF Sign, Packets
  <2>. QED  BY <1>3, <2>1, ExecuteAssumption DEF Send
<1>4. CASE SendTooLate
  BY <1>4 DEF SendTooLate, Return, Outcomes
<1>5. CASE DeadlineElapses
  BY <1>5 DEF DeadlineElapses, Return, Outcomes
<1>6. CASE RetryStatus
  BY <1>6, DelayBound DEF RetryStatus, Sleep
<1>7. CASE SettleResponse
  BY <1>7 DEF SettleResponse
<1>8. CASE RetryTransport
  BY <1>8, BackoffBound DEF RetryTransport, Sleep
<1>9. CASE FailTransport
  BY <1>9 DEF FailTransport, Return, Outcomes
<1>10. CASE Wake
  BY <1>10, PolicyAssumption DEF Wake
<1>11. CASE ReturnResponse
  BY <1>11 DEF ReturnResponse, Return, Outcomes
<1>12. CASE RefuseRedirect
  BY <1>12 DEF RefuseRedirect, Return, Outcomes
<1>13. CASE FollowRedirect
  <2>1. RedirectTarget(cur, last) \in PreparedRequests
    BY <1>13, RedirectTargetType DEF FollowRedirect
  <2>. QED  BY <1>13, <2>1 DEF FollowRedirect, Return, Outcomes
<1>14. CASE ConnectionFails \/ TotalElapses
  BY <1>14 DEF ConnectionFails, TotalElapses, Awaiting
<1>15. ASSUME NEW r \in wire, Serve(r)
       PROVE  TypeOK'
  BY <1>15 DEF Serve, Awaiting
<1>16. ASSUME NEW r \in wire, Lose(r)
       PROVE  TypeOK'
  BY <1>16 DEF Lose
<1>17. CASE Tick
  <2>1. /\ budget' \in Nat /\ timer' \in Nat
        /\ quiet' \in Nat /\ elapsed' \in Nat
    <3>1. MaxWait \in Nat /\ Deadline \in Nat
      BY PolicyAssumption DEF MaxWait, Larger
    <3>. QED  BY <1>17, <3>1, CountTypes DEF Tick
  <2>. QED  BY <1>17, <2>1 DEF Tick
<1>18. CASE UNCHANGED vars
  BY <1>18 DEF vars
<1>. QED
  BY <1>1, <1>2, <1>3, <1>4, <1>5, <1>6, <1>7, <1>8, <1>9, <1>10, <1>11, <1>12,
     <1>13, <1>14, <1>15, <1>16, <1>17, <1>18
  DEF Next, Call, Environment

\* Every variable keeps its type, and the call only decides about a response
\* it has (send_with_retries, execute).
THEOREM TypeCorrect == Spec => []TypeOK
BY TypeInit, TypeStep, PTL DEF Spec

-----------------------------------------------------------------------------
(* Where requests go.                                                      *)

\* Between the guard and the end of a hop the current URL is a guarded one.
GuardedHop ==
  /\ pc \in {"attempt", "inflight", "sleeping", "settled"} => Verdict = "ok"
  /\ OnlyGuardedUrls

LEMMA GuardMeaning ==
  ASSUME Verdict = "ok"
  PROVE  /\ cur.url.origin = BaseOrigin
         /\ ~cur.url.userinfo
         /\ UnderBasePath(cur.url)
BY DEF Verdict, GuardRequestUrl

LEMMA GuardedHopStep == TypeOK /\ GuardedHop /\ [Next]_vars => GuardedHop'
<1>. SUFFICES ASSUME TypeOK, GuardedHop, [Next]_vars
              PROVE  GuardedHop'
  OBVIOUS
<1>. USE DEF GuardedHop, OnlyGuardedUrls, client, history
<1>1. CASE RejectUrl \/ EnterHop
  BY <1>1 DEF RejectUrl, EnterHop, Return, Verdict
<1>2. CASE Send
  BY <1>2, GuardMeaning DEF Send, Sign, Verdict
<1>3. CASE SendTooLate \/ DeadlineElapses \/ FailTransport
  BY <1>3 DEF SendTooLate, DeadlineElapses, FailTransport, Return
<1>4. CASE RetryStatus \/ RetryTransport
  BY <1>4 DEF RetryStatus, RetryTransport, Sleep, Verdict
<1>5. CASE SettleResponse \/ Wake
  BY <1>5 DEF SettleResponse, Wake, Verdict
<1>6. CASE ReturnResponse \/ RefuseRedirect \/ FollowRedirect
  BY <1>6 DEF ReturnResponse, RefuseRedirect, FollowRedirect, Return
<1>7. CASE ConnectionFails \/ TotalElapses
  BY <1>7 DEF ConnectionFails, TotalElapses, Verdict
<1>8. ASSUME NEW r \in wire, Serve(r) \/ Lose(r)
      PROVE  GuardedHop'
  BY <1>8 DEF Serve, Lose, Verdict
<1>9. CASE Tick
  <2>1. OnlyGuardedUrls'
    BY <1>9 DEF Tick
  <2>. QED  BY <1>9, <2>1 DEF Tick, Verdict
<1>10. CASE UNCHANGED vars
  BY <1>10 DEF vars, Verdict
<1>. QED
  BY <1>1, <1>2, <1>3, <1>4, <1>5, <1>6, <1>7, <1>8, <1>9, <1>10
  DEF Next, Call, Environment

\* No request leaves for a URL the guard refuses, on whatever hop
\* (guard_request_url in execute's loop).
THEOREM RequestsStayHome == Spec => []OnlyGuardedUrls
<1>1. Init => GuardedHop
  BY DEF Init, GuardedHop, OnlyGuardedUrls
<1>2. GuardedHop => OnlyGuardedUrls
  BY DEF GuardedHop
<1>. QED  BY <1>1, <1>2, GuardedHopStep, TypeCorrect, PTL DEF Spec

-----------------------------------------------------------------------------
(* The deadline.                                                           *)

\* What is left of the deadline and what has passed of it make it up; a sleep
\* ends before it.
DeadlineAccount ==
  /\ elapsed + budget = Deadline
  /\ NeverSleepsThroughDeadline

LEMMA DeadlineAccountStep ==
  TypeOK /\ DeadlineAccount /\ [Next]_vars => DeadlineAccount'
<1>. SUFFICES ASSUME TypeOK, DeadlineAccount, [Next]_vars
              PROVE  DeadlineAccount'
  OBVIOUS
<1>. USE DEF DeadlineAccount, NeverSleepsThroughDeadline, client, history
<1>1. CASE RejectUrl \/ EnterHop \/ Send \/ SendTooLate \/ DeadlineElapses
  BY <1>1 DEF RejectUrl, EnterHop, Send, SendTooLate, DeadlineElapses, Return
<1>2. CASE RetryStatus \/ RetryTransport
  BY <1>2 DEF RetryStatus, RetryTransport, Sleep, Affordable
<1>3. CASE SettleResponse \/ FailTransport \/ Wake
  BY <1>3 DEF SettleResponse, FailTransport, Wake, Return
<1>4. CASE ReturnResponse \/ RefuseRedirect \/ FollowRedirect
  BY <1>4 DEF ReturnResponse, RefuseRedirect, FollowRedirect, Return
<1>5. CASE ConnectionFails \/ TotalElapses
  BY <1>5 DEF ConnectionFails, TotalElapses
<1>6. ASSUME NEW r \in wire, Serve(r) \/ Lose(r)
      PROVE  DeadlineAccount'
  BY <1>6 DEF Serve, Lose
<1>7. CASE Tick
  <2>1. /\ budget' = IF budget > 0 THEN budget - 1 ELSE 0
        /\ timer' = IF timer > 0 THEN timer - 1 ELSE 0
        /\ elapsed' = IF elapsed < Deadline THEN elapsed + 1 ELSE elapsed
        /\ pc' = pc
    BY <1>7 DEF Tick, CountDown, CountUp
  <2>2. budget \in Nat /\ timer \in Nat /\ elapsed \in Nat /\ Deadline \in Nat
    BY PolicyAssumption DEF TypeOK
  <2>. QED  BY <2>1, <2>2
<1>8. CASE UNCHANGED vars
  BY <1>8 DEF vars
<1>. QED
  BY <1>1, <1>2, <1>3, <1>4, <1>5, <1>6, <1>7, <1>8
  DEF Next, Call, Environment

LEMMA DeadlineAccountHolds == Spec => []DeadlineAccount
<1>1. Init => DeadlineAccount
  BY PolicyAssumption DEF Init, DeadlineAccount, NeverSleepsThroughDeadline
<1>. QED  BY <1>1, DeadlineAccountStep, TypeCorrect, PTL DEF Spec

\* No sleep reaches into the deadline (the delay >= remaining tests of
\* send_with_retries).
THEOREM SleepsEndInTime == Spec => []NeverSleepsThroughDeadline
<1>1. DeadlineAccount => NeverSleepsThroughDeadline
  BY DEF DeadlineAccount
<1>. QED  BY <1>1, DeadlineAccountHolds, PTL

\* No request leaves at or after the deadline, whatever hop or attempt it
\* would belong to (deadline is computed once, in execute).
THEOREM NothingSentLate == Spec => SentInTime
<1>1. TypeOK /\ DeadlineAccount /\ [Next]_vars
        => [HasDeadline /\ elapsed >= Deadline => sends' = sends]_vars
  <2>. SUFFICES ASSUME TypeOK, DeadlineAccount, Next,
                       HasDeadline, elapsed >= Deadline
                PROVE  sends' = sends
    OBVIOUS
  <2>1. Expired
    BY PolicyAssumption DEF Expired, DeadlineAccount, TypeOK
  <2>2. ~Send
    BY <2>1 DEF Send
  <2>. QED
    BY <2>2
    DEF Next, Call, Environment, RejectUrl, EnterHop, SendTooLate,
        DeadlineElapses, RetryStatus, SettleResponse, RetryTransport,
        FailTransport, Wake, ReturnResponse, RefuseRedirect, FollowRedirect,
        ConnectionFails, TotalElapses, Serve, Lose, Tick, history
<1>. QED  BY <1>1, DeadlineAccountHolds, TypeCorrect, PTL DEF Spec, SentInTime

-----------------------------------------------------------------------------
(* The write and its contract.                                             *)

\* The arguments of a call never change.
LEMMA ArgumentsKept == [Next]_vars => optIn' = optIn /\ orig' = orig
BY DEF Next, Call, Environment, vars, RejectUrl, EnterHop, Send, SendTooLate,
       DeadlineElapses, RetryStatus, SettleResponse, RetryTransport,
       FailTransport, Wake, ReturnResponse, RefuseRedirect, FollowRedirect,
       ConnectionFails, TotalElapses, Serve, Lose, Tick

\* The packet of the attempt the call is waiting for.
Current(r) == pc = "inflight" /\ r.id = sends

\* Packets are numbered in the order they were sent, and the packet of the
\* current attempt carries the current request.
Numbered ==
  \A r \in wire : r.id <= sends /\ (Current(r) => r.req = cur)

\* Redirects only ever turn the method into GET.
MethodKept == cur.method \in {orig.method, "GET"}

\* A response that speaks of an applied write is true.
Held == pc \in {"inflight", "settled"} \/ outcome = "response"
Truthful ==
  Held /\ last \in Responses /\ HasApplied(cur.method, last) => applied > 0

Tracked == Numbered /\ MethodKept /\ Truthful

LEMMA TrackedStep == TypeOK /\ Tracked /\ [Next]_vars => Tracked'
<1>. SUFFICES ASSUME TypeOK, Tracked, [Next]_vars
              PROVE  Tracked'
  OBVIOUS
<1>. USE DEF Tracked, Numbered, MethodKept, Truthful, Held, Current, client,
             history
<1>1. CASE RejectUrl \/ EnterHop \/ SendTooLate \/ DeadlineElapses \/ FailTransport
  <2>1. Verdict # "ok" => Verdict # "response"
    BY VerdictType
  <2>. QED
    BY <1>1, <2>1
    DEF RejectUrl, EnterHop, SendTooLate, DeadlineElapses, FailTransport,
        Return, TypeOK
<1>2. CASE Send
  <2>1. sends \in Nat /\ NoAnswer \notin Responses /\ outcome # "response"
    BY <1>2, ExecuteAssumption DEF TypeOK, Send
  <2>2. Numbered'
    BY <1>2, <2>1 DEF Send, Sign, TypeOK, Packets
  <2>. QED  BY <1>2, <2>1, <2>2 DEF Send
<1>3. CASE RetryStatus \/ RetryTransport
  BY <1>3 DEF RetryStatus, RetryTransport, Sleep, TypeOK
<1>4. CASE SettleResponse \/ Wake
  BY <1>4 DEF SettleResponse, Wake, TypeOK
<1>5. CASE ReturnResponse \/ RefuseRedirect
  BY <1>5 DEF ReturnResponse, RefuseRedirect, Return
<1>6. CASE FollowRedirect
  <2>1. RedirectTarget(cur, last).method \in {cur.method, "GET"}
    BY DEF RedirectTarget, RedirectMethod
  <2>2. NoAnswer \notin Responses /\ outcome # "response"
    BY <1>6, ExecuteAssumption DEF TypeOK, FollowRedirect
  <2>. QED  BY <1>6, <2>1, <2>2 DEF FollowRedirect, Return
<1>7. CASE ConnectionFails \/ TotalElapses
  BY <1>7, ExecuteAssumption DEF ConnectionFails, TotalElapses, Awaiting, TypeOK
<1>8. ASSUME NEW r \in wire, Serve(r)
      PROVE  Tracked'
  <2>1. /\ pc' = pc /\ cur' = cur /\ outcome' = outcome /\ sends' = sends
        /\ orig' = orig /\ wire' \subseteq wire
    BY <1>8 DEF Serve
  <2>2. PICK resp \in Responses :
          /\ \/ HasApplied(r.req.method, resp) /\ applied' = applied + 1
             \/ applied' \in {applied, applied + 1} /\ ~HasApplied(r.req.method, resp)
             \/ ~MayHaveApplied(r.req.method, resp) /\ applied' = applied
          /\ \/ last' = last
             \/ Awaiting /\ r.id = sends /\ last' = resp
    BY <1>8 DEF Serve
  <2>3. HasApplied(r.req.method, resp) => MayHaveApplied(r.req.method, resp)
    BY ExecuteAssumption DEF HasApplied, MayHaveApplied, Replayed
  <2>4. applied \in Nat /\ applied' \in Nat /\ applied' >= applied
    BY <2>2 DEF TypeOK
  <2>5. CASE last' = last
    BY <2>1, <2>4, <2>5
  <2>6. CASE Awaiting /\ r.id = sends /\ last' = resp
    <3>1. r.req = cur
      BY <2>6 DEF Awaiting
    <3>. QED  BY <2>1, <2>2, <2>3, <2>4, <2>6, <3>1
  <2>. QED  BY <2>2, <2>5, <2>6
<1>9. ASSUME NEW r \in wire, Lose(r)
      PROVE  Tracked'
  BY <1>9 DEF Lose
<1>10. CASE Tick
  <2>1. Numbered'
    BY <1>10 DEF Tick
  <2>. QED  BY <1>10, <2>1 DEF Tick
<1>11. CASE UNCHANGED vars
  BY <1>11 DEF vars
<1>. QED
  BY <1>1, <1>2, <1>3, <1>4, <1>5, <1>6, <1>7, <1>8, <1>9, <1>10, <1>11
  DEF Next, Call, Environment

\* While no copy of a write may be replayed: there is one copy of it on the
\* wire at most, and none once it was applied; ...
OneCopy ==
  \A r \in wire : Writes(r) =>
    /\ applied = 0
    /\ \A s \in wire : Writes(s) => s = r
    /\ \/ Current(r) /\ last \notin Responses
       \/ outcome \in {"Connection", "DeadlineExceeded"}

\* ... and once it was applied the call cannot send it again: it still waits,
\* or has failed, or holds a response that leads to no replay.
NoReplay ==
  applied = 1 /\ cur.method \notin SafeMethods =>
    \/ pc = "done"
    \/ pc = "inflight" /\ last \notin Responses
    \/ /\ pc \in {"inflight", "settled"}
       /\ last \in Responses /\ MayHaveApplied(cur.method, last)

WrittenOnce == ~Replayable => applied <= 1 /\ OneCopy /\ NoReplay

\* A write that may not be replayed is not replayed: a retry of it follows a
\* response that says it was not applied.
LEMMA RetryMeansRefused ==
  ASSUME TypeOK, Tracked, ~Replayable, cur.method \notin SafeMethods,
         RetryStatus \/ RetryTransport
  PROVE  last \in Responses /\ ~MayHaveApplied(cur.method, last)
<1>1. ~MethodRetryable(cur.method, optIn)
  BY ExecuteAssumption DEF Tracked, MethodKept, Replayable, MethodRetryable
<1>. QED
  BY <1>1
  DEF RetryStatus, RetryTransport, StatusRetryable, IsBackpressure,
      MayHaveApplied

\* A followed redirect after a write was applied leads to a GET.
LEMMA RedirectAfterWrite ==
  ASSUME MayHaveApplied(cur.method, last), IsRedirect(last)
  PROVE  RedirectTarget(cur, last).method = "GET"
BY DEF MayHaveApplied, IsRedirect, Followed, Replayed, RedirectTarget,
       RedirectMethod

LEMMA WrittenOnceStep ==
  TypeOK /\ Tracked /\ WrittenOnce /\ [Next]_vars => WrittenOnce'
<1>. SUFFICES ASSUME TypeOK, Tracked, WrittenOnce, [Next]_vars, ~Replayable'
              PROVE  (applied <= 1 /\ OneCopy /\ NoReplay)'
  BY DEF WrittenOnce
<1>. ~Replayable
  BY ArgumentsKept DEF Replayable
<1>0. applied \in {0, 1} /\ OneCopy /\ NoReplay
  BY DEF WrittenOnce, TypeOK
<1>. USE <1>0 DEF OneCopy, NoReplay, Current, Writes, client, history
<1>1. CASE RejectUrl \/ EnterHop \/ SendTooLate \/ DeadlineElapses \/ FailTransport
  BY <1>1
  DEF RejectUrl, EnterHop, SendTooLate, DeadlineElapses, FailTransport, Return,
      TypeOK
<1>2. CASE Send
  <2>1. \A r \in wire : ~Writes(r)
    BY <1>2 DEF Send, TypeOK
  <2>2. /\ wire' = wire \cup {Sign(cur)} /\ Sign(cur).req = cur
        /\ Sign(cur).id = sends' /\ pc' = "inflight" /\ applied' = applied
        /\ last' = NoAnswer /\ cur' = cur
    BY <1>2 DEF Send, Sign
  <2>3. NoAnswer \notin Responses
    BY ExecuteAssumption
  <2>4. cur.method \notin SafeMethods => applied = 0
    BY <1>2 DEF Send
  <2>. QED  BY <2>1, <2>2, <2>3, <2>4
<1>3. CASE RetryStatus \/ RetryTransport
  <2>1. cur.method \notin SafeMethods
          => last \in Responses /\ ~MayHaveApplied(cur.method, last)
    BY <1>3, RetryMeansRefused
  <2>2. \A r \in wire : ~Writes(r)
    BY <1>3, <2>1 DEF RetryStatus, RetryTransport, TypeOK, Tracked, Numbered
  <2>. QED
    BY <1>3, <2>1, <2>2 DEF RetryStatus, RetryTransport, Sleep
<1>4. CASE SettleResponse \/ Wake
  BY <1>4 DEF SettleResponse, Wake, TypeOK
<1>5. CASE ReturnResponse \/ RefuseRedirect
  BY <1>5 DEF ReturnResponse, RefuseRedirect, Return, TypeOK
<1>6. CASE FollowRedirect
  <2>1. \A r \in wire : ~Writes(r)
    BY <1>6 DEF FollowRedirect, TypeOK
  <2>2. applied = 1 /\ cur.method \notin SafeMethods
          => MayHaveApplied(cur.method, last)
    BY <1>6 DEF FollowRedirect
  <2>3. RedirectTarget(cur, last).method \in {cur.method, "GET"}
    BY DEF RedirectTarget, RedirectMethod
  <2>. QED
    BY <1>6, <2>1, <2>2, <2>3, RedirectAfterWrite, ExecuteAssumption
    DEF FollowRedirect, Return
<1>7. CASE ConnectionFails \/ TotalElapses
  BY <1>7, ExecuteAssumption DEF ConnectionFails, TotalElapses, Awaiting
<1>8. ASSUME NEW r \in wire, Serve(r)
      PROVE  (applied <= 1 /\ OneCopy /\ NoReplay)'
  <2>1. /\ pc' = pc /\ cur' = cur /\ outcome' = outcome /\ sends' = sends
        /\ wire' = wire \ {r}
    BY <1>8 DEF Serve
  <2>2. PICK resp \in Responses :
          /\ applied' \in {applied, applied + 1}
          /\ ~MayHaveApplied(r.req.method, resp) => applied' = applied
          /\ \/ last' = last
             \/ Awaiting /\ r.id = sends /\ last' = resp
    BY <1>8, ExecuteAssumption DEF Serve, HasApplied, MayHaveApplied, Replayed
  <2>3. CASE Writes(r)
    <3>1. applied = 0 /\ \A s \in wire' : ~Writes(s)
      BY <2>1, <2>3
    <3>2. pc = "done" \/ (pc = "inflight" /\ last \notin Responses /\ r.req = cur)
      BY <2>3 DEF TypeOK, Tracked, Numbered
    <3>. QED  BY <2>1, <2>2, <3>1, <3>2
  <2>4. CASE ~Writes(r)
    <3>1. applied' = applied
      BY <2>2, <2>4 DEF MayHaveApplied
    <3>2. CASE last' = last
      BY <2>1, <3>1, <3>2
    <3>3. CASE Awaiting /\ r.id = sends /\ last' = resp
      <4>1. r.req = cur
        BY <3>3 DEF Awaiting, Tracked, Numbered
      <4>2. \A s \in wire : ~Writes(s)
        BY <2>4, <3>3, <4>1 DEF Awaiting, Tracked, Numbered, TypeOK
      <4>. QED  BY <2>1, <2>4, <3>1, <3>3, <4>1, <4>2
    <3>. QED  BY <2>2, <3>2, <3>3
  <2>. QED  BY <2>3, <2>4
<1>9. ASSUME NEW r \in wire, Lose(r)
      PROVE  (applied <= 1 /\ OneCopy /\ NoReplay)'
  BY <1>9 DEF Lose
<1>10. CASE Tick
  <2>1. /\ pc' = pc /\ cur' = cur /\ outcome' = outcome /\ sends' = sends
        /\ applied' = applied /\ last' = last /\ wire' = wire
    BY <1>10 DEF Tick
  <2>. QED  BY <2>1
<1>11. CASE UNCHANGED vars
  BY <1>11 DEF vars
<1>. QED
  BY <1>1, <1>2, <1>3, <1>4, <1>5, <1>6, <1>7, <1>8, <1>9, <1>10, <1>11
  DEF Next, Call, Environment

LEMMA AccountsHold == Spec => [](TypeOK /\ Tracked /\ WrittenOnce)
<1>1. Init => Tracked /\ WrittenOnce
  BY ExecuteAssumption
  DEF Init, Tracked, Numbered, MethodKept, Truthful, Held, WrittenOnce,
      OneCopy, NoReplay
<1>. QED
  BY <1>1, TypeCorrect, TrackedStep, WrittenOnceStep, PTL DEF Spec

\* A write that nobody declared replayable is applied at most once
\* (method_retryable, status_retryable, is_backpressure and redirect_target).
THEOREM WritesAtMostOnce == Spec => []AtMostOnce
<1>1. WrittenOnce => AtMostOnce
  BY DEF WrittenOnce, AtMostOnce
<1>. QED  BY <1>1, AccountsHold, PTL

\* A call that was answered leaves no copy of such a write behind
\* (send_with_retries never abandons an attempt of one for another).
THEOREM NothingLeftBehind == Spec => []NoLateWrite
<1>1. TypeOK /\ WrittenOnce => NoLateWrite
  BY DEF WrittenOnce, NoLateWrite, OneCopy, Current, Writes, TypeOK
<1>. QED  BY <1>1, AccountsHold, PTL

-----------------------------------------------------------------------------
(* The contract of WriteContract.                                          *)

\* One step of the call is one step of the contract, or none.
LEMMA ContractStep ==
  TypeOK /\ Tracked /\ WrittenOnce /\ [Next]_vars
    => [Contract!Next]_(Contract!vars)
<1>. SUFFICES ASSUME TypeOK, Tracked, WrittenOnce, [Next]_vars
              PROVE  \/ Contract!Next
                     \/ /\ Report' = Report /\ applied' = applied
                        /\ Replayable' = Replayable
  BY DEF Contract!vars
<1>. USE DEF client, history
<1>1. Replayable' = Replayable
  BY ArgumentsKept DEF Replayable
<1>2. /\ pc # "done" /\ applied' = applied
      /\ \/ Report' \in {"pending", "unknown"}
         \/ Report' = "success" /\ applied > 0
      => Contract!Next \/ Report' = Report
  <2>1. pc # "done" => Report = "pending"
    BY DEF Report, TypeOK
  <2>. QED  BY <1>1, <2>1 DEF Contract!Next, Contract!Report
<1>3. CASE RejectUrl \/ EnterHop \/ Send \/ SendTooLate \/ DeadlineElapses
  <2>1. Verdict # "ok" => Verdict # "response"
    BY VerdictType
  <2>2. pc # "done" /\ applied' = applied /\ outcome' # "response"
    BY <1>3, <2>1
    DEF RejectUrl, EnterHop, Send, SendTooLate, DeadlineElapses, Return, TypeOK
  <2>3. Report' \in {"pending", "unknown"}
    BY <2>2 DEF Report
  <2>. QED  BY <1>1, <1>2, <2>2, <2>3
<1>4. CASE RetryStatus \/ SettleResponse \/ RetryTransport \/ FailTransport \/ Wake
  <2>1. pc # "done" /\ applied' = applied /\ outcome' # "response"
    BY <1>4
    DEF RetryStatus, SettleResponse, RetryTransport, FailTransport, Wake, Sleep,
        Return, TypeOK
  <2>2. Report' \in {"pending", "unknown"}
    BY <2>1 DEF Report
  <2>. QED  BY <1>1, <1>2, <2>1, <2>2
<1>5. CASE RefuseRedirect \/ FollowRedirect
  <2>1. pc # "done" /\ applied' = applied /\ outcome' # "response"
    BY <1>5 DEF RefuseRedirect, FollowRedirect, Return, TypeOK
  <2>2. Report' \in {"pending", "unknown"}
    BY <2>1 DEF Report
  <2>. QED  BY <1>1, <1>2, <2>1, <2>2
<1>6. CASE ReturnResponse
  <2>1. /\ pc = "settled" /\ applied' = applied /\ last' = last /\ cur' = cur
        /\ last \in Responses
    BY <1>6 DEF ReturnResponse, TypeOK
  <2>2. Report' = "success" => applied > 0
    BY <2>1 DEF Report, Tracked, Truthful, Held, HasApplied
  <2>3. Report' \in {"pending", "unknown", "success"}
    BY DEF Report
  <2>. QED  BY <1>1, <1>2, <2>1, <2>2, <2>3
<1>7. CASE ConnectionFails \/ TotalElapses
  BY <1>1, <1>7 DEF ConnectionFails, TotalElapses, Awaiting, Report, TypeOK
<1>8. ASSUME NEW r \in wire, Serve(r)
      PROVE  \/ Contract!Next
             \/ /\ Report' = Report /\ applied' = applied
                /\ Replayable' = Replayable
  <2>1. Report' = Report
    BY <1>8 DEF Serve, Awaiting, Report, TypeOK
  <2>2. \/ applied' = applied
        \/ applied' = applied + 1 /\ Writes(r)
    BY <1>8 DEF Serve, HasApplied, MayHaveApplied, Writes
  <2>3. Writes(r) => applied = 0 \/ Replayable
    BY DEF WrittenOnce, OneCopy
  <2>. QED  BY <1>1, <2>1, <2>2, <2>3 DEF Contract!Next, Contract!Apply
<1>9. ASSUME NEW r \in wire, Lose(r)
      PROVE  Report' = Report /\ applied' = applied
  BY <1>9 DEF Lose, Report
<1>10. CASE Tick
  BY <1>1, <1>10 DEF Tick, Report
<1>11. CASE UNCHANGED vars
  BY <1>1, <1>11 DEF vars, Report
<1>. QED
  BY <1>1, <1>3, <1>4, <1>5, <1>6, <1>7, <1>8, <1>9, <1>10, <1>11
  DEF Next, Call, Environment

\* A call implements the safety half of WriteContract: a write is applied at
\* most once unless replayable, and success is only reported for an applied
\* write (execute and everything below it).
THEOREM CallKeepsContract == Spec => Contract!SafeSpec
<1>1. Init => Contract!Init
  BY PolicyAssumption DEF Init, Contract!Init, Report, Replayable
<1>. QED
  BY <1>1, ContractStep, AccountsHold, PTL DEF Spec, Contract!SafeSpec

-----------------------------------------------------------------------------
(* How much a call sends, and when it replays.                             *)

\* Requests of the earlier hops and of this one; a hop has as many requests
\* as its attempt says.
Counted ==
  /\ sends <= redirects * (MaxRetries + 1) + (IF pc = "hop" THEN 0 ELSE hopSends)
  /\ redirects <= MaxRedirects \/ pc = "done"
  /\ pc \in {"attempt"} => hopSends = attempt
  /\ pc \in {"inflight", "sleeping", "settled"} => hopSends = attempt + 1
  /\ SendsBounded

\* A product grows by one factor when the other grows by one.
LEMMA HopProduct ==
  ASSUME NEW r \in Nat, NEW n \in Nat
  PROVE  /\ (r + 1) * (n + 1) = r * (n + 1) + (n + 1)
         /\ r * (n + 1) \in Nat
OBVIOUS

LEMMA HopProductBound ==
  ASSUME NEW r \in Nat, NEW m \in Nat, NEW n \in Nat, r <= m
  PROVE  r * (n + 1) <= m * (n + 1)
OBVIOUS

LEMMA CountedStep == TypeOK /\ Counted /\ [Next]_vars => Counted'
<1>. SUFFICES ASSUME TypeOK, Counted, [Next]_vars
              PROVE  Counted'
  OBVIOUS
<1>. DEFINE Hop == redirects * (MaxRetries + 1)
<1>0. /\ MaxRetries \in Nat /\ MaxRedirects \in Nat
      /\ redirects \in Nat /\ attempt \in Nat /\ attempt <= MaxRetries
      /\ sends \in Nat /\ hopSends \in Nat /\ Hop \in Nat
  BY PolicyAssumption, ExecuteAssumption, HopProduct DEF TypeOK
<1>. USE DEF Counted, SendsBounded, client, history
<1>1. CASE RejectUrl \/ SendTooLate \/ DeadlineElapses \/ FailTransport
  BY <1>0, <1>1
  DEF RejectUrl, SendTooLate, DeadlineElapses, FailTransport, Return
<1>2. CASE EnterHop
  BY <1>0, <1>2 DEF EnterHop
<1>3. CASE Send
  <2>1. Hop <= MaxRedirects * (MaxRetries + 1)
    BY <1>0, <1>3, HopProductBound DEF Send
  <2>2. (MaxRedirects + 1) * (MaxRetries + 1)
          = MaxRedirects * (MaxRetries + 1) + (MaxRetries + 1)
    BY <1>0, HopProduct
  <2>3. MaxRedirects * (MaxRetries + 1) \in Nat
    BY <1>0, HopProduct
  <2>4. /\ pc = "attempt" /\ pc' = "inflight" /\ sends' = sends + 1
        /\ hopSends' = hopSends + 1 /\ redirects' = redirects
        /\ attempt' = attempt
    BY <1>3 DEF Send
  <2>5. sends' <= Hop + hopSends' /\ hopSends' = attempt + 1
    BY <1>0, <2>4
  <2>6. sends' <= MaxRedirects * (MaxRetries + 1) + (MaxRetries + 1)
    BY <1>0, <2>1, <2>3, <2>4, <2>5
  <2>. QED  BY <1>0, <2>2, <2>4, <2>5, <2>6
<1>4. CASE RetryStatus \/ RetryTransport
  BY <1>0, <1>4 DEF RetryStatus, RetryTransport, Sleep
<1>5. CASE SettleResponse
  BY <1>0, <1>5 DEF SettleResponse
<1>6. CASE Wake
  BY <1>0, <1>6 DEF Wake
<1>7. CASE ReturnResponse \/ RefuseRedirect
  BY <1>0, <1>7 DEF ReturnResponse, RefuseRedirect, Return
<1>8. CASE FollowRedirect
  <2>1. redirects' * (MaxRetries + 1) = Hop + (MaxRetries + 1)
    BY <1>0, <1>8, HopProduct DEF FollowRedirect
  <2>2. sends <= Hop + (MaxRetries + 1)
    BY <1>0, <1>8 DEF FollowRedirect
  <2>3. /\ sends' = sends /\ hopSends' = hopSends
        /\ pc' \in {"hop", "done"} /\ redirects' = redirects + 1
        /\ pc' = "hop" => redirects' <= MaxRedirects
    BY <1>0, <1>8 DEF FollowRedirect, Return, TooMany
  <2>. QED  BY <1>0, <2>1, <2>2, <2>3
<1>9. CASE ConnectionFails \/ TotalElapses
  BY <1>9 DEF ConnectionFails, TotalElapses
<1>10. ASSUME NEW r \in wire, Serve(r) \/ Lose(r)
       PROVE  Counted'
  BY <1>10 DEF Serve, Lose
<1>11. CASE Tick
  BY <1>11 DEF Tick
<1>12. CASE UNCHANGED vars
  BY <1>12 DEF vars
<1>. QED
  BY <1>1, <1>2, <1>3, <1>4, <1>5, <1>6, <1>7, <1>8, <1>9, <1>10, <1>11, <1>12
  DEF Next, Call, Environment

\* Redirect hops multiply the attempts of a call and nothing else does
\* (redirects_followed in execute, 0..=max_retries in send_with_retries).
THEOREM RequestsAreBounded == Spec => []SendsBounded
<1>1. Init => Counted
  <2>1. (MaxRedirects + 1) * (MaxRetries + 1) \in Nat
    BY PolicyAssumption, ExecuteAssumption, HopProduct
  <2>2. 0 * (MaxRetries + 1) = 0
    BY PolicyAssumption
  <2>. QED
    BY <2>1, <2>2, ExecuteAssumption DEF Init, Counted, SendsBounded
<1>2. Counted => SendsBounded
  BY DEF Counted
<1>. QED  BY <1>1, <1>2, CountedStep, TypeCorrect, PTL DEF Spec

\* What has passed of a sleep and what is left of it cover the Retry-After.
Patient ==
  /\ pc = "sleeping" /\ last \in Responses /\ HonorRetryAfter
       => quiet + timer >= Smaller(last.retryAfter, MaxRetryAfter)
  /\ pc = "hop" => last = NoAnswer
  /\ RetryAfterHonoured

LEMMA PatientStep == TypeOK /\ Patient /\ [Next]_vars => Patient'
<1>. SUFFICES ASSUME TypeOK, Patient, [Next]_vars
              PROVE  Patient'
  OBVIOUS
<1>. USE DEF Patient, RetryAfterHonoured, client, history
<1>1. CASE RejectUrl \/ SendTooLate \/ DeadlineElapses \/ FailTransport
  BY <1>1 DEF RejectUrl, SendTooLate, DeadlineElapses, FailTransport, Return
<1>2. CASE EnterHop
  BY <1>2, ExecuteAssumption DEF EnterHop
<1>3. CASE Send \/ SettleResponse
  BY <1>3 DEF Send, SettleResponse
<1>4. CASE RetryStatus
  BY <1>4, DelayBound DEF RetryStatus, Sleep, TypeOK
<1>5. CASE RetryTransport
  BY <1>5, ExecuteAssumption DEF RetryTransport, Sleep
<1>6. CASE Wake
  BY <1>6 DEF Wake, TypeOK
<1>7. CASE ReturnResponse \/ RefuseRedirect \/ FollowRedirect
  BY <1>7 DEF ReturnResponse, RefuseRedirect, FollowRedirect, Return
<1>8. CASE ConnectionFails \/ TotalElapses
  BY <1>8 DEF ConnectionFails, TotalElapses, Awaiting
<1>9. ASSUME NEW r \in wire, Serve(r) \/ Lose(r)
      PROVE  Patient'
  BY <1>9 DEF Serve, Lose, Awaiting
<1>10. CASE Tick
  <2>1. /\ pc' = pc /\ last' = last
        /\ timer' = IF timer > 0 THEN timer - 1 ELSE 0
        /\ quiet' = IF quiet < MaxWait THEN quiet + 1 ELSE quiet
    BY <1>10 DEF Tick, CountDown, CountUp
  <2>2. /\ timer \in Nat /\ quiet \in Nat
        /\ MaxRetryAfter \in Nat /\ MaxWait \in Nat /\ MaxWait >= MaxRetryAfter
    BY PolicyAssumption DEF TypeOK, MaxWait, Larger
  <2>3. ASSUME last \in Responses
        PROVE  /\ Smaller(last.retryAfter, MaxRetryAfter) \in Int
               /\ Smaller(last.retryAfter, MaxRetryAfter) <= MaxRetryAfter
    <3>1. last.retryAfter \in Int
      BY <2>3, ExecuteAssumption DEF NoRetryAfter
    <3>. QED  BY <2>2, <3>1 DEF Smaller
  <2>. QED  BY <2>1, <2>2, <2>3
<1>11. CASE UNCHANGED vars
  BY <1>11 DEF vars
<1>. QED
  BY <1>1, <1>2, <1>3, <1>4, <1>5, <1>6, <1>7, <1>8, <1>9, <1>10, <1>11
  DEF Next, Call, Environment

\* A replay never comes before the Retry-After of the response it replays
\* (parse_retry_after and the max with the backoff in send_with_retries).
THEOREM ReplaysArePatient == Spec => []RetryAfterHonoured
<1>1. Init => Patient
  BY DEF Init, Patient, RetryAfterHonoured
<1>2. Patient => RetryAfterHonoured
  BY DEF Patient
<1>. QED  BY <1>1, <1>2, PatientStep, TypeCorrect, PTL DEF Spec

-----------------------------------------------------------------------------
(* Giving up.                                                              *)

\* A response that settled although it could be replayed came last of its hop
\* or too close to the deadline to wait.
SpentOn(wait) == hopSends = MaxRetries + 1 \/ (HasDeadline /\ budget <= wait)

Persistent ==
  /\ Counted
  /\ pc = "settled" /\ StatusRetryable(cur.method, last, optIn)
       => SpentOn(MaxWait)
  /\ NoEarlySurrender

LEMMA PersistentStep == TypeOK /\ Persistent /\ [Next]_vars => Persistent'
<1>. SUFFICES ASSUME TypeOK, Persistent, [Next]_vars
              PROVE  Persistent'
  OBVIOUS
<1>0. Counted' /\ optIn' = optIn
  BY CountedStep, ArgumentsKept DEF Persistent
<1>. USE <1>0 DEF Persistent, NoEarlySurrender, SpentOn, client, history
<1>1. CASE RejectUrl \/ SendTooLate \/ DeadlineElapses
  <2>1. Verdict # "ok" => Verdict # "response" /\ Verdict # "Connection"
    BY DEF Verdict, GuardRequestUrl
  <2>. QED
    BY <1>1, <2>1 DEF RejectUrl, SendTooLate, DeadlineElapses, Return
<1>2. CASE EnterHop \/ Send \/ Wake
  BY <1>2 DEF EnterHop, Send, Wake, TypeOK
<1>3. CASE RetryStatus \/ RetryTransport
  BY <1>3 DEF RetryStatus, RetryTransport, Sleep, TypeOK
<1>4. CASE SettleResponse
  <2>1. ASSUME StatusRetryable(cur.method, last, optIn)
        PROVE  SpentOn(MaxWait)
    <3>1. CASE ~RetriesLeft
      BY <1>4, <3>1, PolicyAssumption
      DEF SettleResponse, RetriesLeft, Counted, TypeOK
    <3>2. CASE \E d \in BackoffFor(attempt) : ~Affordable(ReplayDelay(last, d))
      <4>1. PICK d \in BackoffFor(attempt) : ~Affordable(ReplayDelay(last, d))
        BY <3>2
      <4>2. /\ ReplayDelay(last, d) \in Nat /\ ReplayDelay(last, d) <= MaxWait
            /\ MaxWait \in Nat /\ budget \in Nat
        BY <1>4, DelayBound, PolicyAssumption
        DEF SettleResponse, TypeOK, MaxWait, Larger
      <4>. QED  BY <4>1, <4>2 DEF Affordable
    <3>. QED  BY <1>4, <2>1, <3>1, <3>2 DEF SettleResponse
  <2>2. /\ pc' = "settled" /\ outcome' = outcome /\ outcome = "pending"
        /\ last' = last /\ cur' = cur /\ hopSends' = hopSends /\ budget' = budget
    BY <1>4 DEF SettleResponse, TypeOK
  <2>. QED  BY <2>1, <2>2
<1>5. CASE FailTransport
  <2>1. ASSUME MethodRetryable(cur.method, optIn)
        PROVE  SpentOn(MaxBackoff)
    <3>1. CASE ~RetriesLeft
      BY <1>5, <3>1, PolicyAssumption
      DEF FailTransport, RetriesLeft, Counted, TypeOK
    <3>2. CASE \E d \in BackoffFor(attempt) : ~Affordable(d)
      <4>1. PICK d \in BackoffFor(attempt) : ~Affordable(d)
        BY <3>2
      <4>2. d \in Nat /\ d <= MaxBackoff /\ MaxBackoff \in Nat /\ budget \in Nat
        BY BackoffBound, PolicyAssumption DEF TypeOK
      <4>. QED  BY <4>1, <4>2 DEF Affordable
    <3>. QED  BY <1>5, <2>1, <3>1, <3>2 DEF FailTransport
  <2>2. /\ pc' = "done" /\ outcome' = "Connection"
        /\ last' = last /\ cur' = cur /\ hopSends' = hopSends /\ budget' = budget
    BY <1>5 DEF FailTransport, Return
  <2>. QED  BY <2>1, <2>2
<1>6. CASE ReturnResponse
  BY <1>6 DEF ReturnResponse, Return
<1>7. CASE RefuseRedirect \/ FollowRedirect
  BY <1>7 DEF RefuseRedirect, FollowRedirect, Return, TypeOK
<1>8. CASE ConnectionFails \/ TotalElapses
  BY <1>8 DEF ConnectionFails, TotalElapses, Awaiting, TypeOK
<1>9. ASSUME NEW r \in wire, Serve(r) \/ Lose(r)
      PROVE  Persistent'
  BY <1>9 DEF Serve, Lose, Awaiting, TypeOK
<1>10. CASE Tick
  <2>1. /\ pc' = pc /\ outcome' = outcome /\ last' = last /\ cur' = cur
        /\ hopSends' = hopSends
        /\ budget' = IF budget > 0 THEN budget - 1 ELSE 0
    BY <1>10 DEF Tick, CountDown
  <2>2. budget \in Nat /\ MaxWait \in Nat /\ MaxBackoff \in Nat
    BY PolicyAssumption DEF TypeOK, MaxWait, Larger
  <2>3. \A w \in Nat : budget <= w => budget' <= w
    BY <2>1, <2>2
  <2>. QED  BY <2>1, <2>2, <2>3
<1>11. CASE UNCHANGED vars
  BY <1>11 DEF vars
<1>. QED
  BY <1>1, <1>2, <1>3, <1>4, <1>5, <1>6, <1>7, <1>8, <1>9, <1>10, <1>11
  DEF Next, Call, Environment

\* A failure that may be retried is only reported when the attempts of its hop
\* are used up or the deadline is nearer than the longest wait
\* (attempt >= max_retries and delay >= remaining in send_with_retries).
THEOREM FailuresAreEarned == Spec => []NoEarlySurrender
<1>1. Init => Persistent
  <2>1. (MaxRedirects + 1) * (MaxRetries + 1) \in Nat
    BY PolicyAssumption, ExecuteAssumption, HopProduct
  <2>2. 0 * (MaxRetries + 1) = 0
    BY PolicyAssumption
  <2>. QED
    BY <2>1, <2>2, ExecuteAssumption
    DEF Init, Counted, SendsBounded, Persistent, NoEarlySurrender
<1>2. Persistent => NoEarlySurrender
  BY DEF Persistent
<1>. QED  BY <1>1, <1>2, PersistentStep, TypeCorrect, PTL DEF Spec

-----------------------------------------------------------------------------
(* What a request carries.                                                 *)

\* The current request is the caller's, or stripped and then no POST.
Coherent(req) ==
  /\ req.method \in {orig.method, "GET"}
  /\ \/ req.body = orig.body /\ req.headers = orig.headers
     \/ /\ ~req.body /\ req.method # "POST"
        /\ req.headers = orig.headers \ {"content"}

Carried == Coherent(cur) /\ \A r \in wire : Coherent(r.req)

LEMMA CarriedStep == TypeOK /\ Carried /\ [Next]_vars => Carried'
<1>. SUFFICES ASSUME TypeOK, Carried, [Next]_vars
              PROVE  Carried'
  OBVIOUS
<1>0. orig' = orig
  BY ArgumentsKept
<1>. USE <1>0 DEF Carried, Coherent, client, history
<1>1. CASE RejectUrl \/ EnterHop \/ SendTooLate \/ DeadlineElapses \/ FailTransport
  BY <1>1
  DEF RejectUrl, EnterHop, SendTooLate, DeadlineElapses, FailTransport
<1>2. CASE Send
  BY <1>2 DEF Send, Sign
<1>3. CASE RetryStatus \/ RetryTransport \/ SettleResponse \/ Wake
  BY <1>3 DEF RetryStatus, RetryTransport, SettleResponse, Wake
<1>4. CASE ReturnResponse \/ RefuseRedirect
  BY <1>4 DEF ReturnResponse, RefuseRedirect
<1>5. CASE FollowRedirect
  <2>1. Coherent(RedirectTarget(cur, last))
    <3>1. CASE last.status \in Replayed
      BY <3>1 DEF RedirectTarget, RedirectMethod, TypeOK, PreparedRequests
    <3>2. CASE last.status \notin Replayed
      BY <3>2
      DEF RedirectTarget, RedirectMethod, WithoutContentHeaders
    <3>. QED  BY <3>1, <3>2
  <2>. QED  BY <1>5, <2>1 DEF FollowRedirect
<1>6. CASE ConnectionFails \/ TotalElapses
  BY <1>6 DEF ConnectionFails, TotalElapses
<1>7. ASSUME NEW r \in wire, Serve(r) \/ Lose(r)
      PROVE  Carried'
  BY <1>7 DEF Serve, Lose
<1>8. CASE Tick
  BY <1>8 DEF Tick
<1>9. CASE UNCHANGED vars
  BY <1>9 DEF vars
<1>. QED
  BY <1>1, <1>2, <1>3, <1>4, <1>5, <1>6, <1>7, <1>8, <1>9
  DEF Next, Call, Environment

LEMMA CarriedHolds == Spec => []Carried
<1>1. Init => Carried
  BY DEF Init, Carried, Coherent
<1>. QED  BY <1>1, CarriedStep, TypeCorrect, PTL DEF Spec

\* Body, content headers and method stay together along every redirect chain
\* (redirect_target, without_content_headers).
THEOREM RedirectsAreCoherent == Spec => []CoherentRedirects
<1>1. Carried => CoherentRedirects
  BY DEF Carried, Coherent, CoherentRedirects
<1>. QED  BY <1>1, CarriedHolds, PTL

-----------------------------------------------------------------------------
(* A whole call.                                                           *)

\* A step of a call is a step of its execution, or leaves it alone.
LEMMA StepOfExecution == [ClientNext]_clientVars => [Next]_vars
BY DEF ClientNext, clientVars, execution, CallerSide, RefusePath, RefuseBody, Finish,
       StartExecution, ExecutionStep, ReturnError, ReturnRaw, BeginReading,
       ReturnRead, ReturnMismatch, Drop, Around, Next

\* The functions of Client add nothing to what execute may do to the server.
THEOREM CallIsExecution == ClientSpec => Init /\ [][Next]_vars
BY StepOfExecution, PTL DEF ClientSpec, ClientInit

Inherited == TypeOK /\ GuardedHop /\ Tracked /\ WrittenOnce

LEMMA InheritedHolds == ClientSpec => []Inherited
<1>1. Init => Inherited
  BY TypeInit, ExecuteAssumption
  DEF Inherited, Init, GuardedHop, OnlyGuardedUrls, Tracked, Numbered,
      MethodKept, Truthful, Held, WrittenOnce, OneCopy, NoReplay
<1>2. Inherited /\ [Next]_vars => Inherited'
  BY TypeStep, GuardedHopStep, TrackedStep, WrittenOnceStep DEF Inherited
<1>. QED
  BY <1>1, <1>2, CallIsExecution, PTL

\* A write that nobody declared replayable is applied at most once, by any of
\* the functions and even if their futures are dropped.
THEOREM CallsWriteAtMostOnce == ClientSpec => []AtMostOnce
<1>1. Inherited => AtMostOnce
  BY DEF Inherited, WrittenOnce, AtMostOnce
<1>. QED  BY <1>1, InheritedHolds, PTL

\* No function sends a request to a URL the guard refuses.
THEOREM CallsStayHome == ClientSpec => []OnlyGuardedUrls
<1>1. Inherited => OnlyGuardedUrls
  BY DEF Inherited, GuardedHop
<1>. QED  BY <1>1, InheritedHolds, PTL

-----------------------------------------------------------------------------
(* How the stages of a call go with its execution.                         *)

\* Nothing has happened before the execution starts; a result is that of the
\* execution, or was made of its response, or nothing was ever executed.
Staged ==
  /\ stage \in {"called", "executing", "reading", "returned", "dropped"}
  /\ result \in Results
  /\ (result # "pending") = (stage = "returned")
  /\ stage = "called" => pc = "hop" /\ sends = 0 /\ wire = {}
  /\ stage = "reading" => pc = "done" /\ outcome = "response" /\ ~optIn
  /\ stage = "returned" =>
       \/ pc = "hop" /\ sends = 0 /\ wire = {}
          /\ result \notin Values \cup {"BodyTooLarge"}
       \/ pc = "done" /\ outcome # "response" /\ result = outcome
       \/ pc = "done" /\ outcome = "response"
          /\ result \in Values \cup {"Response", "Request", "Parse",
                                     "BodyTooLarge", "Connection"}

\* Of a response only, and of a successful one only, come values and the errors
\* of the body.
LEMMA ReadResultType ==
  ASSUME NEW body \in Bodies
  PROVE  /\ ReadResult(body) \in Values \cup {"Request", "Parse", "BodyTooLarge",
                                               "Connection"}
         /\ ReadResult(body) # "Request" => last.status \in 200..299
<1>. DEFINE r == [status |-> StatusClass(last.status), kind |-> body.kind,
                  length |-> body.length, broken |-> body.broken,
                  valid |-> body.valid]
<1>1. body.kind \in BodyKinds
  BY ClientAssumption
<1>2. CASE last.status = 204
  <2>1. r.status = "noContent"
    BY <1>2 DEF StatusClass
  <2>2. Reader!Expected(r).result = "Empty"
    BY <2>1 DEF Reader!Expected, Reader!Result
  <2>. QED  BY <1>2, <2>2 DEF ReadResult, Values
<1>3. CASE last.status # 204 /\ last.status \notin 200..299
  <2>1. r.status = "failure"
    BY <1>3 DEF StatusClass
  <2>2. Reader!Expected(r).result = "Request"
    BY <2>1 DEF Reader!Expected, Reader!Refusal
  <2>. QED  BY <2>2 DEF ReadResult
<1>4. CASE last.status # 204 /\ last.status \in 200..299
  <2>1. r.status = "success"
    BY <1>4 DEF StatusClass
  <2>2. Reader!Expected(r).result \in Values \cup {"Parse", "BodyTooLarge", "Connection"}
    BY <1>1, <2>1, ClientAssumption
    DEF Reader!Expected, Reader!Result, Reader!Parsed, Values, BodyKinds
  <2>. QED  BY <1>4, <2>2 DEF ReadResult
<1>. QED  BY <1>2, <1>3, <1>4

LEMMA VerdictIsOutcome ==
  ASSUME NEW url
  PROVE  PathErrors(url) \subseteq Results \ ({"pending", "Parse", "BodyTooLarge"} \cup Values)
BY DEF PathErrors, GuardRequestUrl, Results, Outcomes, Values

\* The environment does nothing for a call that has sent nothing.
LEMMA NothingToServe ==
  ASSUME TypeOK, Around, sends = 0, wire = {}
  PROVE  sends' = 0 /\ wire' = {} /\ pc' = pc
BY DEF Around, Environment, ConnectionFails, TotalElapses, Serve, Lose, Tick,
       client, history

\* What surrounds a call does not move it.
LEMMA AroundKeeps ==
  ASSUME Around
  PROVE  /\ pc' = pc /\ outcome' = outcome /\ optIn' = optIn /\ sends' = sends
         /\ cur' = cur /\ orig' = orig /\ redirects' = redirects
         /\ stage' = stage /\ result' = result
         /\ pc # "inflight" => last' = last
BY DEF Around, Environment, ConnectionFails, TotalElapses, Awaiting, Serve, Lose,
       Tick, client, history, callVars

LEMMA StagedStep ==
  TypeOK /\ Staged /\ [ClientNext]_clientVars => Staged'
<1>. SUFFICES ASSUME TypeOK, Staged, [ClientNext]_clientVars
              PROVE  Staged'
  OBVIOUS
<1>. USE DEF Staged
<1>1. CASE RefusePath \/ RefuseBody
  BY <1>1, VerdictIsOutcome
  DEF RefusePath, RefuseBody, Finish, execution, vars, Results, Values
<1>2. CASE StartExecution \/ BeginReading \/ Drop
  BY <1>2 DEF StartExecution, BeginReading, Drop, execution, vars, TypeOK
<1>3. CASE ExecutionStep
  BY <1>3 DEF ExecutionStep, callVars
<1>4. CASE ReturnError
  BY <1>4 DEF ReturnError, Finish, execution, vars, TypeOK, Results
<1>5. CASE ReturnRaw
  BY <1>5 DEF ReturnRaw, Finish, execution, vars, Results
<1>6. CASE ReturnRead
  <2>1. PICK body \in Bodies : Finish(ReadResult(body))
    BY <1>6 DEF ReturnRead
  <2>. QED
    BY <1>6, <2>1, ReadResultType
    DEF ReturnRead, Finish, execution, vars, Results, Values, Outcomes
<1>7. CASE ReturnMismatch
  BY <1>7 DEF ReturnMismatch, Finish, execution, vars, Results
<1>8. CASE Around
  <2>1. stage = "called" => Staged'
    BY <1>8, AroundKeeps, NothingToServe
  <2>2. stage = "returned" => Staged'
    BY <1>8, AroundKeeps, NothingToServe
  <2>3. stage \notin {"called", "returned"} => Staged'
    BY <1>8, AroundKeeps
  <2>. QED  BY <2>1, <2>2, <2>3
<1>9. CASE UNCHANGED clientVars
  BY <1>9 DEF clientVars, execution, vars, callVars
<1>. QED
  BY <1>1, <1>2, <1>3, <1>4, <1>5, <1>6, <1>7, <1>8, <1>9
  DEF ClientNext, CallerSide

LEMMA StagedHolds == ClientSpec => [](Inherited /\ Staged)
<1>1. ClientInit => Staged
  BY DEF ClientInit, Init, Staged, Results, Outcomes
<1>2. Inherited => TypeOK
  BY DEF Inherited
<1>. QED
  BY <1>1, <1>2, StagedStep, InheritedHolds, PTL DEF ClientSpec

\* The stages of a call and the states of its execution (request_typed).
THEOREM ClientTypeCorrect == ClientSpec => []ClientTypeOK
<1>1. Staged => ClientTypeOK
  BY DEF Staged, ClientTypeOK
<1>. QED  BY <1>1, StagedHolds, PTL

-----------------------------------------------------------------------------
(* What a result says about the write.                                     *)

\* Every result but the doubtful ones is final: the server does nothing more
\* with the write (ResultIsFinal).
THEOREM ResultsAreFinal == ClientSpec => ResultIsFinal
<1>1. Inherited /\ Staged /\ [ClientNext]_clientVars
        => [~InDoubt /\ ~Replayable => applied' = applied]_clientVars
  <2>. SUFFICES ASSUME Inherited, Staged, ClientNext, ~InDoubt, ~Replayable
                PROVE  applied' = applied
    OBVIOUS
  <2>1. stage = "returned" /\ result \notin {"Connection", "DeadlineExceeded"}
    BY DEF InDoubt
  <2>2. \A r \in wire : ~Writes(r)
    <3>1. CASE wire = {}
      BY <3>1
    <3>2. CASE pc = "done" /\ outcome \notin {"Connection", "DeadlineExceeded"}
      BY <3>2
      DEF Inherited, TypeOK, WrittenOnce, OneCopy, Current
    <3>. QED  BY <2>1, <3>1, <3>2 DEF Staged
  <2>3. CASE Around
    <3>1. ASSUME NEW r \in wire, Serve(r)
          PROVE  applied' = applied
      BY <2>2, <3>1 DEF Serve, Writes, HasApplied, MayHaveApplied
    <3>. QED
      BY <2>3, <3>1
      DEF Around, Environment, ConnectionFails, TotalElapses, Lose, Tick
  <2>4. CASE CallerSide \/ Drop
    BY <2>1, <2>4
    DEF CallerSide, Drop, RefusePath, RefuseBody, StartExecution, ExecutionStep,
        ReturnError, ReturnRaw, BeginReading, ReturnRead, ReturnMismatch
  <2>. QED  BY <2>3, <2>4 DEF ClientNext
<1>. QED  BY <1>1, StagedHolds, PTL DEF ClientSpec, ResultIsFinal

\* Of a body that is not that of a 2xx response comes no value and no error but
\* Request: what was read was answered with success, or nothing was sent.
ReadSuccess ==
  stage = "returned" /\ result \in Values \cup {"Parse", "BodyTooLarge"}
    => \/ last \in Responses /\ last.status \in 200..299
       \/ result = "Parse" /\ pc = "hop" /\ sends = 0 /\ wire = {}

LEMMA ReadSuccessStep ==
  TypeOK /\ Staged /\ ReadSuccess /\ [ClientNext]_clientVars => ReadSuccess'
<1>. SUFFICES ASSUME TypeOK, Staged, ReadSuccess, [ClientNext]_clientVars
              PROVE  ReadSuccess'
  OBVIOUS
<1>. USE DEF ReadSuccess
<1>1. CASE RefusePath \/ RefuseBody
  BY <1>1, VerdictIsOutcome
  DEF RefusePath, RefuseBody, Finish, execution, vars, Staged
<1>2. CASE StartExecution \/ BeginReading \/ Drop \/ ExecutionStep
  BY <1>2 DEF StartExecution, BeginReading, Drop, ExecutionStep, callVars
<1>3. CASE ReturnError \/ ReturnRaw
  BY <1>3 DEF ReturnError, ReturnRaw, Finish, TypeOK, Outcomes, Values
<1>4. stage = "reading" => last \in Responses
  BY DEF Staged, TypeOK
<1>5. CASE ReturnRead
  <2>1. PICK body \in Bodies : Finish(ReadResult(body))
    BY <1>5 DEF ReturnRead
  <2>2. last' = last /\ result' = ReadResult(body)
    BY <2>1 DEF Finish, execution, vars
  <2>3. result' # "Request" => last.status \in 200..299
    BY <2>2, ReadResultType
  <2>. QED  BY <1>4, <1>5, <2>2, <2>3 DEF ReturnRead, Values
<1>6. CASE ReturnMismatch
  <2>1. PICK body \in Bodies : ReadResult(body) \in Values
    BY <1>6 DEF ReturnMismatch
  <2>2. last.status \in 200..299
    BY <2>1, ReadResultType DEF Values
  <2>. QED  BY <1>4, <1>6, <2>2 DEF ReturnMismatch, Finish, execution, vars
<1>7. CASE Around
  BY <1>7, AroundKeeps, NothingToServe DEF Staged, Values
<1>8. CASE UNCHANGED clientVars
  BY <1>8 DEF clientVars, execution, vars, callVars
<1>. QED
  BY <1>1, <1>2, <1>3, <1>5, <1>6, <1>7, <1>8
  DEF ClientNext, CallerSide

\* A value or BodyTooLarge at the end of a write means that the server has
\* applied it, Parse that it has or that nothing was sent (prepare,
\* handle_response and request_as).
THEOREM WhatIsReadIsDone == ClientSpec => []ReadMeansDone
<1>1. ClientInit => ReadSuccess
  BY DEF ClientInit, ReadSuccess
<1>2. Inherited /\ Staged /\ ReadSuccess => ReadMeansDone
  <2>. SUFFICES ASSUME Inherited, Staged, ReadSuccess, stage = "returned",
                       result \in Values \cup {"Parse", "BodyTooLarge"},
                       cur.method \notin SafeMethods,
                       ~(result = "Parse" /\ sends = 0 /\ wire = {})
                PROVE  applied > 0
    BY DEF ReadMeansDone, Values
  <2>1. last \in Responses /\ HasApplied(cur.method, last)
    BY DEF ReadSuccess, HasApplied
  <2>2. outcome = "response"
    BY DEF Staged, Inherited, TypeOK, Outcomes, Values
  <2>. QED  BY <2>1, <2>2 DEF Inherited, Tracked, Truthful, Held
<1>3. Inherited => TypeOK
  BY DEF Inherited
<1>. QED
  BY <1>1, <1>2, <1>3, ReadSuccessStep, StagedHolds, PTL DEF ClientSpec

-----------------------------------------------------------------------------
(* What a refusal says.                                                    *)

\* A URL of another origin is only ever the one the caller prepared.
ForeignUnsent ==
  /\ cur.url.origin # BaseOrigin =>
       sends = 0 /\ wire = {} /\ pc \in {"hop", "done"}
  /\ outcome = "CrossOriginRequest" => cur.url.origin # BaseOrigin

LEMMA ForeignUnsentStep ==
  TypeOK /\ GuardedHop /\ ForeignUnsent /\ [Next]_vars => ForeignUnsent'
<1>. SUFFICES ASSUME TypeOK, GuardedHop, ForeignUnsent, [Next]_vars
              PROVE  ForeignUnsent'
  OBVIOUS
<1>. USE DEF ForeignUnsent, client, history
<1>1. CASE RejectUrl
  BY <1>1 DEF RejectUrl, Return, Verdict, GuardRequestUrl
<1>2. CASE EnterHop
  BY <1>2, GuardMeaning DEF EnterHop, TypeOK
<1>3. CASE Send
  BY <1>3, GuardMeaning DEF Send, GuardedHop
<1>4. CASE SendTooLate \/ DeadlineElapses \/ FailTransport
  BY <1>4 DEF SendTooLate, DeadlineElapses, FailTransport, Return
<1>5. CASE RetryStatus \/ RetryTransport
  BY <1>5 DEF RetryStatus, RetryTransport, Sleep
<1>6. CASE SettleResponse \/ Wake
  BY <1>6 DEF SettleResponse, Wake
<1>7. CASE ReturnResponse \/ RefuseRedirect
  BY <1>7 DEF ReturnResponse, RefuseRedirect, Return
<1>8. CASE FollowRedirect
  <2>1. cur.url.origin = BaseOrigin
    BY <1>8, GuardMeaning DEF FollowRedirect, GuardedHop
  <2>2. RedirectTarget(cur, last).url.origin = cur.url.origin
    BY <1>8 DEF FollowRedirect, LeavesOrigin, RedirectTarget
  <2>. QED  BY <1>8, <2>1, <2>2 DEF FollowRedirect, Return, TypeOK
<1>9. CASE ConnectionFails \/ TotalElapses
  BY <1>9 DEF ConnectionFails, TotalElapses
<1>10. ASSUME NEW r \in wire, Serve(r) \/ Lose(r)
       PROVE  ForeignUnsent'
  BY <1>10 DEF Serve, Lose
<1>11. CASE Tick
  <2>1. wire = {} => wire' = {}
    BY <1>11 DEF Tick
  <2>. QED  BY <1>11, <2>1 DEF Tick
<1>12. CASE UNCHANGED vars
  BY <1>12 DEF vars
<1>. QED
  BY <1>1, <1>2, <1>3, <1>4, <1>5, <1>6, <1>7, <1>8, <1>9, <1>10, <1>11, <1>12
  DEF Next, Call, Environment

\* CrossOriginRequest and InvalidPath mean that nothing was sent
\* (join, guard_request_url, and redirect_target's own check of the origin).
THEOREM RefusalsAreUnsent == ClientSpec => []RefusedMeansUnsent
<1>1. Init => ForeignUnsent
  BY DEF Init, ForeignUnsent
<1>2. Inherited /\ ForeignUnsent /\ [Next]_vars => ForeignUnsent'
  BY ForeignUnsentStep DEF Inherited
<1>3. Inherited /\ Staged /\ ForeignUnsent => RefusedMeansUnsent
  BY DEF Inherited, TypeOK, Outcomes, Staged, ForeignUnsent, RefusedMeansUnsent, Values
<1>. QED
  BY <1>1, <1>2, <1>3, CallIsExecution, StagedHolds, PTL

\* Both: a caller that reads its result learns the truth about its write.
THEOREM ResultsTrue == ClientSpec => []ResultsAreTrue
<1>1. ReadMeansDone /\ RefusedMeansUnsent => ResultsAreTrue
  BY DEF ResultsAreTrue
<1>. QED
  BY WhatIsReadIsDone, RefusalsAreUnsent, <1>1, PTL

=============================================================================
