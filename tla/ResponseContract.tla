-------------------------- MODULE ResponseContract --------------------------
(***************************************************************************)
(* What Client::request_typed makes of a response (ApiResponse and the     *)
(* errors of handle_response), however its body is cut into chunks.        *)
(***************************************************************************)
EXTENDS Integers

CONSTANTS
  Responses,
  Limit,         \* max_response_bytes
  PreviewLimit   \* ERROR_BODY_PREVIEW_BYTES

VARIABLES resp, outcome

vars == <<resp, outcome>>

Pending == [result |-> "none", preview |-> 0]
Result(result) == [result |-> result, preview |-> 0]
Refusal(bytes) == [result |-> "Request", preview |-> bytes]

\* The value or the error for a body that arrived as a whole.
Parsed(r) ==
  IF r.kind # "Text" /\ ~r.valid THEN Result("Parse") ELSE Result(r.kind)

\* r.length bytes arrive; after them the body ends, or breaks (r.broken).
Expected(r) ==
  CASE r.status = "failure"   -> Refusal(IF r.length < PreviewLimit THEN r.length ELSE PreviewLimit)
    [] r.status = "noContent" -> Result("Empty")
    [] r.status = "success"   ->
         CASE r.length > Limit              -> Result("BodyTooLarge")
           [] r.length <= Limit /\ r.broken -> Result("Connection")
           [] r.length = 0 /\ ~r.broken     -> Result("Empty")
           [] OTHER                         -> Parsed(r)

Init == resp \in Responses /\ outcome = Pending

Answer ==
  /\ outcome = Pending
  /\ outcome' = Expected(resp)
  /\ UNCHANGED resp

Spec == Init /\ [][Answer]_vars /\ WF_vars(Answer)

\* Spec without its liveness.
SafeSpec == Init /\ [][Answer]_vars

=============================================================================
