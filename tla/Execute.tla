------------------------------ MODULE Execute ------------------------------
(***************************************************************************)
(* One call of Client::execute (src/src/client.rs) against an openQA       *)
(* server and the network between them: the redirect loop of execute, the  *)
(* retry loop of send_with_retries, the overall deadline, and the server   *)
(* that applies the writes it receives, some of them after the client has  *)
(* stopped listening.                                                      *)
(*                                                                         *)
(* Time is kept in timers that count down, never in dates: what is left of *)
(* the deadline, of the current sleep or of the HTTP client's own total    *)
(* timeout.  Tick may run between any two steps, so a timer may be noticed *)
(* late by any amount, as a task is that the executor does not poll.       *)
(***************************************************************************)
EXTENDS RetryPolicy, Redirect

CONSTANTS
  MaxRedirects,
  Total,           \* Timeouts.total of the HTTP client
  Methods, Origins, Paths,
  Requests,        \* the prepared requests a call may start from
  Responses,       \* the responses the server may give
  SafeMethods,     \* methods whose handling never changes the server's data
  NoAnswer,        \* no outcome of the last attempt yet
  ConnError        \* its outcome was a transport error

HeaderKinds == {"content", "other"}
Urls == [origin: Origins, userinfo: BOOLEAN, path: Paths, web: BOOLEAN]
PreparedRequests ==
  [method: Methods, url: Urls, headers: SUBSET HeaderKinds, body: BOOLEAN]
AllResponses ==
  [status: Nat, retryAfter: Nat \cup {NoRetryAfter},
   location: Urls \cup {NoLocation}]

ASSUME ExecuteAssumption ==
  /\ MaxRedirects \in Nat
  /\ Total \in Nat
  /\ Requests \subseteq PreparedRequests
  /\ Responses \subseteq [status: 100..599,
                          retryAfter: Nat \cup {NoRetryAfter},
                          location: Urls \cup {NoLocation}]
  /\ "GET" \in Methods
  /\ "GET" \in SafeMethods /\ "POST" \notin SafeMethods
  /\ NoAnswer # ConnError
  /\ NoAnswer \notin Responses /\ ConnError \notin Responses
  /\ NoLocation \notin Urls

VARIABLES
  pc,          \* where the call is
  hasTotal,    \* its HTTP client has a total timeout (a caller's own may not)
  optIn,       \* its retry_non_idempotent argument
  orig,        \* its prepared argument
  cur,         \* the request of this hop (current)
  attempt,     \* attempt of this hop, from 0
  redirects,   \* redirects_followed
  last,        \* outcome of the last attempt
  outcome,     \* what the call returned: the error, or "response" for Ok
  budget,      \* time left until the deadline
  timer,       \* time left of the sleep, or of the HTTP total timeout
  wire,        \* requests sent and not yet handled by the server
  applied,     \* how many times the server applied the write
  sends,       \* history: requests sent by this call
  hopSends,    \* history: requests sent on this hop
  quiet,       \* history: time since the last outcome was handled
  elapsed      \* history: time since the call started

client == <<pc, cur, attempt, redirects, outcome>>
history == <<sends, hopSends, quiet, elapsed>>
vars == <<pc, hasTotal, optIn, orig, cur, attempt, redirects, last, outcome,
          budget, timer, wire, applied, sends, hopSends, quiet, elapsed>>

Init ==
  /\ pc = "hop"
  /\ hasTotal \in BOOLEAN
  /\ optIn \in BOOLEAN
  /\ orig \in Requests
  /\ cur = orig
  /\ attempt = 0
  /\ redirects = 0
  /\ last = NoAnswer
  /\ outcome = "pending"
  /\ budget = Deadline
  /\ timer = 0
  /\ wire = {}
  /\ applied = 0
  /\ sends = 0
  /\ hopSends = 0
  /\ quiet = 0
  /\ elapsed = 0

-----------------------------------------------------------------------------
(* The call.                                                               *)

\* Variant: the deadline is only looked at before a replay.
ExpiredBeforeReplay == HasDeadline /\ budget = 0 /\ attempt > 0

\* checked_duration_since is None or zero.
Expired == HasDeadline /\ budget = 0

\* Variant: a sleep may end exactly at the deadline.
AffordableToTheEnd(delay) == HasDeadline => delay <= budget

\* A delay is only slept if it ends strictly before the deadline.
Affordable(delay) == HasDeadline => delay < budget

\* Variants: one attempt less or more; one hop more.
RetriesLeftButOne == attempt + 1 < MaxRetries
RetriesLeftAndOne == attempt <= MaxRetries
TooManyButOne(followed) == followed > MaxRedirects + 1

RetriesLeft == attempt < MaxRetries
TooMany(followed) == followed > MaxRedirects

Return(result) ==
  /\ pc' = "done"
  /\ outcome' = result

\* Variant: only the URL the caller prepared is checked.
FirstVerdict == IF redirects = 0 THEN GuardRequestUrl(cur.url) ELSE "ok"

\* The top of execute's loop: every hop's URL is checked again.
Verdict == GuardRequestUrl(cur.url)

RejectUrl ==
  /\ pc = "hop"
  /\ Verdict # "ok"
  /\ Return(Verdict)
  /\ UNCHANGED <<hasTotal, optIn, orig, cur, attempt, redirects, last, budget,
                 timer, wire, applied, history>>

EnterHop ==
  /\ pc = "hop"
  /\ Verdict = "ok"
  /\ pc' = "attempt"
  /\ attempt' = 0
  /\ hopSends' = 0
  /\ UNCHANGED <<hasTotal, optIn, orig, cur, redirects, last, outcome, budget,
                 timer, wire, applied, sends, quiet, elapsed>>

\* sign: each attempt is a request of its own on the wire (Signing has what it
\* carries).
Sign(req) == [id |-> sends + 1, req |-> req]

Send ==
  /\ pc = "attempt"
  /\ ~Expired
  /\ pc' = "inflight"
  /\ wire' = wire \cup {Sign(cur)}
  /\ last' = NoAnswer
  /\ timer' = Total
  /\ sends' = sends + 1
  /\ hopSends' = hopSends + 1
  /\ UNCHANGED <<hasTotal, optIn, orig, cur, attempt, redirects, outcome,
                 budget, applied, quiet, elapsed>>

\* No time left before the attempt: nothing is sent.
SendTooLate ==
  /\ pc = "attempt"
  /\ Expired
  /\ Return("DeadlineExceeded")
  /\ UNCHANGED <<hasTotal, optIn, orig, cur, attempt, redirects, last, budget,
                 timer, wire, applied, history>>

\* tokio::time::timeout polls the request before its own timer, so an answer
\* that is there is taken even after the deadline.
DeadlineElapses ==
  /\ pc = "inflight"
  /\ last = NoAnswer
  /\ Expired
  /\ Return("DeadlineExceeded")
  /\ UNCHANGED <<hasTotal, optIn, orig, cur, attempt, redirects, last, budget,
                 timer, wire, applied, history>>

Sleep(delay) ==
  /\ pc' = "sleeping"
  /\ timer' = delay
  /\ quiet' = 0

\* An answer that may be replayed, with a retry left and time to wait for it.
RetryStatus ==
  /\ pc = "inflight"
  /\ last \in Responses
  /\ StatusRetryable(cur.method, last, optIn)
  /\ RetriesLeft
  /\ \E backoff \in BackoffFor(attempt) :
       /\ Affordable(ReplayDelay(last, backoff))
       /\ Sleep(ReplayDelay(last, backoff))
  /\ UNCHANGED <<hasTotal, optIn, orig, cur, attempt, redirects, last, outcome,
                 budget, wire, applied, sends, hopSends, elapsed>>

\* Any other answer is the one send_with_retries returns.
SettleResponse ==
  /\ pc = "inflight"
  /\ last \in Responses
  /\ \/ ~StatusRetryable(cur.method, last, optIn)
     \/ ~RetriesLeft
     \/ \E backoff \in BackoffFor(attempt) :
          ~Affordable(ReplayDelay(last, backoff))
  /\ pc' = "settled"
  /\ UNCHANGED <<hasTotal, optIn, orig, cur, attempt, redirects, last, outcome,
                 budget, timer, wire, applied, history>>

RetryTransport ==
  /\ pc = "inflight"
  /\ last = ConnError
  /\ MethodRetryable(cur.method, optIn)
  /\ RetriesLeft
  /\ \E backoff \in BackoffFor(attempt) :
       /\ Affordable(backoff)
       /\ Sleep(backoff)
  /\ UNCHANGED <<hasTotal, optIn, orig, cur, attempt, redirects, last, outcome,
                 budget, wire, applied, sends, hopSends, elapsed>>

FailTransport ==
  /\ pc = "inflight"
  /\ last = ConnError
  /\ \/ ~MethodRetryable(cur.method, optIn)
     \/ ~RetriesLeft
     \/ \E backoff \in BackoffFor(attempt) : ~Affordable(backoff)
  /\ Return("Connection")
  /\ UNCHANGED <<hasTotal, optIn, orig, cur, attempt, redirects, last, budget,
                 timer, wire, applied, history>>

\* The sleep is over: the next round of the retry loop, if its range has one
\* (past it the code is unreachable!).
Wake ==
  /\ pc = "sleeping"
  /\ timer = 0
  /\ attempt < MaxRetries
  /\ pc' = "attempt"
  /\ attempt' = attempt + 1
  /\ UNCHANGED <<hasTotal, optIn, orig, cur, redirects, last, outcome, budget,
                 timer, wire, applied, history>>

\* What execute does with the response of a hop.
ReturnResponse ==
  /\ pc = "settled"
  /\ ~IsRedirect(last)
  /\ Return("response")
  /\ UNCHANGED <<hasTotal, optIn, orig, cur, attempt, redirects, last, budget,
                 timer, wire, applied, history>>

RefuseRedirect ==
  /\ pc = "settled"
  /\ IsRedirect(last)
  /\ LeavesOrigin(cur, last)
  /\ Return("CrossOriginRedirect")
  /\ UNCHANGED <<hasTotal, optIn, orig, cur, attempt, redirects, last, budget,
                 timer, wire, applied, history>>

FollowRedirect ==
  /\ pc = "settled"
  /\ IsRedirect(last)
  /\ ~LeavesOrigin(cur, last)
  /\ redirects' = redirects + 1
  /\ IF TooMany(redirects')
     THEN /\ Return("TooManyRedirects")
          /\ UNCHANGED <<cur, last>>
     ELSE /\ pc' = "hop"
          /\ cur' = RedirectTarget(cur, last)
          /\ last' = NoAnswer
          /\ UNCHANGED outcome
  /\ UNCHANGED <<hasTotal, optIn, orig, attempt, budget, timer, wire, applied,
                 history>>

Call ==
  \/ RejectUrl \/ EnterHop
  \/ Send \/ SendTooLate \/ DeadlineElapses
  \/ RetryStatus \/ SettleResponse
  \/ RetryTransport \/ FailTransport
  \/ Wake
  \/ ReturnResponse \/ RefuseRedirect \/ FollowRedirect

-----------------------------------------------------------------------------
(* The HTTP client below, the network and the server.                      *)

Awaiting == pc = "inflight" /\ last = NoAnswer

\* The connection fails; the request may have reached the server or may yet.
ConnectionFails ==
  /\ Awaiting
  /\ last' = ConnError
  /\ UNCHANGED <<client, hasTotal, optIn, orig, budget, timer, wire, applied,
                 history>>

\* The HTTP client's own total timeout, also an Err of http.execute.
TotalElapses ==
  /\ Awaiting
  /\ hasTotal /\ timer = 0
  /\ last' = ConnError
  /\ UNCHANGED <<client, hasTotal, optIn, orig, budget, timer, wire, applied,
                 history>>

\* The write may have been applied behind this response.  A server has not
\* acted on a request it answers with 429 or 503 and a Retry-After, nor on
\* one it rejects with 401, 403 or 404, nor on one it asks to be sent again
\* elsewhere: it redirects an applied write to a page, by 303, or by 301 or
\* 302 after a POST.
MayHaveApplied(method, resp) ==
  /\ method \notin SafeMethods
  /\ resp.status \notin {401, 403, 404} \cup Replayed
  /\ resp.status \in {429, 503} => resp.retryAfter = NoRetryAfter
  /\ resp.status \in {301, 302} => method = "POST"

HasApplied(method, resp) ==
  method \notin SafeMethods /\ resp.status \in 200..299

\* The server handles r and answers; the answer arrives if its attempt is
\* still awaited and nothing loses it.
Serve(r) ==
  /\ \E resp \in Responses :
       /\ \/ HasApplied(r.req.method, resp) /\ applied' = applied + 1
          \/ /\ MayHaveApplied(r.req.method, resp)
             /\ ~HasApplied(r.req.method, resp)
             /\ applied' \in {applied, applied + 1}
          \/ ~MayHaveApplied(r.req.method, resp) /\ UNCHANGED applied
       /\ \/ UNCHANGED last
          \/ Awaiting /\ r.id = sends /\ last' = resp
  /\ wire' = wire \ {r}
  /\ UNCHANGED <<client, hasTotal, optIn, orig, budget, timer, history>>

Lose(r) ==
  /\ wire' = wire \ {r}
  /\ UNCHANGED <<client, hasTotal, optIn, orig, last, budget, timer, applied,
                 history>>

CountDown(t) == IF t > 0 THEN t - 1 ELSE 0

\* Histories stop counting where nothing tells two values apart.
CountUp(t, bound) == IF t < bound THEN t + 1 ELSE t
MaxWait == Larger(MaxBackoff, MaxRetryAfter)

Tick ==
  /\ budget' = CountDown(budget)
  /\ timer' = CountDown(timer)
  /\ quiet' = CountUp(quiet, MaxWait)
  /\ elapsed' = CountUp(elapsed, Deadline)
  /\ UNCHANGED <<client, hasTotal, optIn, orig, last, wire, applied, sends,
                 hopSends>>

Environment ==
  \/ ConnectionFails \/ TotalElapses
  \/ \E r \in wire : Serve(r) \/ Lose(r)
  \/ Tick

Next == Call \/ Environment

\* The executor runs a task that is ready and timers fire; nothing is asked
\* of the server or of the network.
Fairness == WF_vars(Call) /\ WF_vars(TotalElapses) /\ WF_vars(Tick)

Spec == Init /\ [][Next]_vars /\ Fairness

-----------------------------------------------------------------------------
(* Properties.                                                             *)

Outcomes ==
  {"pending", "response", "Connection", "DeadlineExceeded",
   "CrossOriginRequest", "UnsupportedRequestUrl", "OutsideBaseUrlPath",
   "CrossOriginRedirect", "TooManyRedirects"}

Packets == [id: Nat, req: PreparedRequests]

\* The type of every variable, and which values of last go with which pc.
TypeOK ==
  /\ pc \in {"hop", "attempt", "inflight", "sleeping", "settled", "done"}
  /\ hasTotal \in BOOLEAN /\ optIn \in BOOLEAN
  /\ orig \in Requests
  /\ cur \in PreparedRequests
  /\ attempt \in 0..MaxRetries
  /\ redirects \in Nat
  /\ last \in Responses \cup {NoAnswer, ConnError}
  /\ pc = "settled" => last \in Responses
  /\ outcome \in Outcomes
  /\ outcome = "pending" <=> pc # "done"
  /\ outcome = "response" => last \in Responses
  /\ budget \in Nat /\ timer \in Nat
  /\ wire \subseteq Packets
  /\ applied \in Nat
  /\ sends \in Nat /\ hopSends \in Nat
  /\ quiet \in Nat /\ elapsed \in Nat

\* No request ever leaves for another origin, with userinfo, or for a path
\* outside the base path, whatever URL the caller prepared and wherever the
\* redirects of earlier hops led (guard_request_url in execute's loop).
OnlyGuardedUrls ==
  \A r \in wire :
    /\ r.req.url.origin = BaseOrigin
    /\ ~r.req.url.userinfo
    /\ UnderBasePath(r.req.url)

\* The caller, the policy or HTTP itself declared the request replayable.
Replayable ==
  optIn \/ RetryNonIdempotent \/ orig.method \in IdempotentMethods

Writes(r) == r.req.method \notin SafeMethods

\* A write nobody declared replayable is applied at most once, across lost
\* answers, retries, redirect hops and requests that arrive after the client
\* gave up (method_retryable, status_retryable and is_backpressure).
AtMostOnce == ~Replayable => applied <= 1

\* If such a write was answered, however the call then ended, no copy of it is
\* still on its way to the server: only a transport error or the deadline
\* leaves the caller in doubt (error.rs says so of DeadlineExceeded).
NoLateWrite ==
  ~Replayable /\ outcome \notin {"pending", "Connection", "DeadlineExceeded"}
    => \A r \in wire : ~Writes(r)

\* One call sends no more requests than all its hops have attempts, although
\* the attempts are counted anew on each hop.
SendsBounded == sends <= (MaxRedirects + 1) * (MaxRetries + 1)

\* No request leaves once the deadline of the call has passed, counted from
\* the start of the call over all hops, attempts and sleeps.
SentInTime == [][HasDeadline /\ elapsed >= Deadline => sends' = sends]_vars

\* The call never sleeps into its deadline: at every moment of a sleep the
\* rest of the sleep is shorter than what is left of the deadline.
NeverSleepsThroughDeadline ==
  pc = "sleeping" /\ HasDeadline /\ timer > 0 => timer < budget

\* A replay waits at least as long as the answer it replays asked for, capped
\* by max_retry_after, if the policy honours Retry-After at all.
RetryAfterHonoured ==
  pc = "attempt" /\ last \in Responses /\ HonorRetryAfter
    => quiet >= Smaller(last.retryAfter, MaxRetryAfter)

\* The call gives up on a failure it may retry only after the attempts of the
\* hop are used up, or close to the deadline.
NoEarlySurrender ==
  /\ outcome = "Connection" /\ MethodRetryable(cur.method, optIn)
       => \/ hopSends = MaxRetries + 1
          \/ HasDeadline /\ budget <= MaxBackoff
  /\ outcome = "response" /\ StatusRetryable(cur.method, last, optIn)
       => \/ hopSends = MaxRetries + 1
          \/ HasDeadline /\ budget <= MaxWait

\* Along any redirect chain a request is either what the caller prepared or
\* has lost its body together with the headers that describe it, and a POST
\* is never the latter.
CoherentRedirects ==
  \A r \in wire :
    /\ r.req.method \in {orig.method, "GET"}
    /\ \/ r.req.body = orig.body /\ r.req.headers = orig.headers
       \/ /\ ~r.req.body /\ r.req.method # "POST"
          /\ r.req.headers = orig.headers \ {"content"}

\* What the caller of a call learns about its write.
Report ==
  IF outcome = "pending" THEN "pending"
  ELSE IF /\ outcome = "response" /\ cur.method \notin SafeMethods
          /\ last.status \in 200..299
       THEN "success" ELSE "unknown"

Contract ==
  INSTANCE WriteContract WITH replayable <- Replayable, report <- Report

\* A call keeps the contract of WriteContract: at most one application unless
\* replayable, success only after an application, and a report in the end.
KeepsContract == Contract!Spec

=============================================================================
