------------------------------- MODULE Client -------------------------------
(***************************************************************************)
(* A whole call of Client's functions (src/src/client.rs): the path it is  *)
(* given becomes a request (join, as Outgoing details it), the request is  *)
(* executed (Execute), and the response is read and parsed (as             *)
(* ResponseContract says and ResponseBody does it), unless the caller is   *)
(* request's that takes the response as it is.  A caller may also drop the *)
(* future at any await, as tokio::time::timeout around a call does.        *)
(***************************************************************************)
EXTENDS Execute

CONSTANTS
  Bodies,        \* bodies of responses: [kind, length, broken, valid]
  Limit,         \* max_response_bytes
  PreviewLimit   \* ERROR_BODY_PREVIEW_BYTES

BodyKinds == {"Json", "Yaml", "Text"}
ASSUME ClientAssumption ==
  /\ Bodies \subseteq [kind : BodyKinds, length : Nat,
                       broken : BOOLEAN, valid : BOOLEAN]
  /\ Limit \in Nat /\ PreviewLimit \in Nat

VARIABLES
  stage,    \* where the call is, around pc of Execute
  result    \* what its caller got

execution == vars
callVars == <<stage, result>>
clientVars == <<execution, callVars>>

ClientInit ==
  /\ Init
  /\ stage = "called"
  /\ result = "pending"

-----------------------------------------------------------------------------
Finish(value) ==
  /\ stage' = "returned"
  /\ result' = value
  /\ UNCHANGED execution

\* What join may say of a path that amounts to this URL: a URL cannot be had
\* of it, the guard refuses the URL, or the path is no relative one.
PathErrors(url) ==
  {"InvalidPath"}
  \cup IF GuardRequestUrl(url) = "ok" THEN {"UnsupportedRequestUrl"}
       ELSE {GuardRequestUrl(url)}

\* The functions that take a path never opt in to replays.
RefusePath ==
  /\ stage = "called" /\ ~optIn
  /\ \E error \in PathErrors(orig.url) : Finish(error)

\* prepare: the path is good, and the body it is given is no JSON.  The error is
\* the one a response that does not parse gives, and nothing has been sent.
RefuseBody ==
  /\ stage = "called" /\ ~optIn
  /\ GuardRequestUrl(orig.url) = "ok" /\ orig.body
  /\ Finish("Parse")

\* prepare succeeds, or the caller made the PreparedRequest itself; then
\* execute looks at its URL.
StartExecution ==
  /\ stage = "called"
  /\ stage' = "executing"
  /\ UNCHANGED <<execution, result>>

ExecutionStep == stage = "executing" /\ Call /\ UNCHANGED callVars

\* The ? after execute; execute and send_raw return a response of any status.
ReturnError == /\ stage = "executing" /\ pc = "done"
               /\ outcome # "response"
               /\ Finish(outcome)

ReturnRaw == /\ stage = "executing" /\ pc = "done"
             /\ outcome = "response"
             /\ Finish("Response")

BeginReading ==
  /\ stage = "executing" /\ pc = "done" /\ ~optIn
  /\ outcome = "response"
  /\ stage' = "reading"
  /\ UNCHANGED <<execution, result>>

-----------------------------------------------------------------------------
Reader == INSTANCE ResponseContract WITH
  Responses <- {}, resp <- last, outcome <- result

\* handle_response: is_success, and 204 of its own.
StatusClass(status) ==
  IF status = 204 THEN "noContent"
  ELSE IF status \in 200..299 THEN "success" ELSE "failure"

ReadResult(body) ==
  Reader!Expected([status |-> StatusClass(last.status), kind |-> body.kind,
                   length |-> body.length, broken |-> body.broken,
                   valid |-> body.valid]).result

Values == {"Json", "Yaml", "Text", "Empty"}

\* request_typed and request_form_typed; into_value only wraps a value anew.
ReturnRead ==
  /\ stage = "reading"
  /\ \E body \in Bodies : Finish(ReadResult(body))

\* request_as: a value that is none of the type asked for.
ReturnMismatch ==
  /\ stage = "reading"
  /\ \E body \in Bodies : ReadResult(body) \in Values
  /\ Finish("Parse")

\* The future is dropped while it awaits an answer, a sleep or a body.
Drop ==
  /\ \/ stage = "executing" /\ pc \in {"inflight", "sleeping"}
     \/ stage = "reading"
  /\ stage' = "dropped"
  /\ UNCHANGED <<execution, result>>

CallerSide ==
  \/ RefusePath \/ RefuseBody \/ StartExecution \/ ExecutionStep
  \/ ReturnError \/ ReturnRaw \/ BeginReading \/ ReturnRead \/ ReturnMismatch

\* Nothing is awaited of a call that was dropped.
Around == /\ Environment
          /\ stage = "dropped" => last' = last
          /\ UNCHANGED callVars

ClientNext == CallerSide \/ Drop \/ Around

\* A body ends, or the read timeout breaks it (see ResponseBody).
ClientFairness ==
  /\ WF_clientVars(CallerSide)
  /\ WF_clientVars(TotalElapses /\ Around)
  /\ WF_clientVars(Tick /\ Around)

ClientSpec == ClientInit /\ [][ClientNext]_clientVars /\ ClientFairness

-----------------------------------------------------------------------------
(* Properties.                                                             *)

Results ==
  Outcomes \cup Values
  \cup {"InvalidPath", "Response", "Request", "Parse", "BodyTooLarge"}

\* Types, and how the stages of a call go with those of its execution.
ClientTypeOK ==
  /\ stage \in {"called", "executing", "reading", "returned", "dropped"}
  /\ result \in Results
  /\ (result # "pending") = (stage = "returned")
  /\ stage = "called" => pc = "hop" /\ sends = 0
  /\ stage = "reading" => outcome = "response" /\ ~optIn

\* The errors that leave a caller in doubt about its write, and a call the
\* caller does not wait for. Connection is one whether the request or the body
\* of its response was lost.
InDoubt == stage # "returned" \/ result \in {"Connection", "DeadlineExceeded"}

\* Every other result is final: what the server makes of the write is settled
\* when the caller gets it, and no copy that is still on its way changes that.
ResultIsFinal ==
  [][~InDoubt /\ ~Replayable => applied' = applied]_clientVars

\* A value, or the error that its body was too long, means that the write was
\* done, and must not be repeated (request, request_as).  Parse does not say by
\* itself whose body did not parse, the response's or the caller's; but there is
\* nothing in between: the write was done, or nothing was ever sent.
ReadMeansDone ==
  stage = "returned" /\ cur.method \notin SafeMethods =>
    /\ result \in Values \cup {"BodyTooLarge"} => applied > 0
    /\ result = "Parse" => applied > 0 \/ (sends = 0 /\ wire = {})

\* A request refused as foreign or as no path never left: neither of these is
\* ever the end of a redirect chain (CrossOriginRequest, InvalidPath).
RefusedMeansUnsent ==
  result \in {"CrossOriginRequest", "InvalidPath"} => sends = 0 /\ wire = {}

\* What a result says of the write is true: done, or never sent, and with Parse
\* one of the two and never a write that failed half-way.
ResultsAreTrue == ReadMeansDone /\ RefusedMeansUnsent

\* Every call ends, against a server that never answers as well, unless its
\* caller drops it: by its deadline, or by the HTTP client's total timeout.  One
\* with neither is not claimed to.
EveryRequestEnds ==
  HasDeadline \/ hasTotal => <>(stage \in {"returned", "dropped"})

=============================================================================
