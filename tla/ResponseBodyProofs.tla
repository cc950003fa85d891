------------------------- MODULE ResponseBodyProofs -------------------------
(***************************************************************************)
(* The limits on a body, and that what the caller gets depends on the      *)
(* response and not on its chunks: for every limit, chunk size and length. *)
(***************************************************************************)
EXTENDS ResponseBody, TLAPS

Received == resp.length - left

\* While a reader runs its buffer holds all that was received, within what it
\* may hold; afterwards the outcome is the one the contract expects.
Account ==
  /\ left <= resp.length
  /\ pc = "headers" => left = resp.length /\ buffered = 0
  /\ pc = "preview" =>
       /\ resp.status = "failure"
       /\ buffered = Received
       /\ buffered <= PreviewLimit + MaxChunk
  /\ pc = "capped" =>
       /\ resp.status = "success"
       /\ buffered = Received
       /\ buffered <= Limit

Settled ==
  IF pc = "done" THEN outcome = Contract!Expected(Seen(resp)) ELSE outcome = Pending

Inv == TypeOK /\ Account /\ Settled /\ BufferBounded /\ StopsEarly

-----------------------------------------------------------------------------
LEMMA InitEstablishes == Init => Inv
BY BodyAssumption
   DEF BodyAssumption, Init, Inv, TypeOK, Results, Account, Settled, Received,
       BufferBounded, StopsEarly, Pending, Responses

\* What the invariant says of the numbers.
LEMMA Numbers ==
  ASSUME Inv
  PROVE  /\ left \in Nat /\ buffered \in Nat /\ resp.length \in Nat
         /\ resp \in Responses /\ resp.broken \in BOOLEAN
         /\ left <= resp.length
         /\ pc \in {"preview", "capped"} => buffered = resp.length - left
BY BodyAssumption
   DEF BodyAssumption, Inv, TypeOK, Responses, Account, Received

\* What the contract expects is an answer, a preview is that of an error, and a
\* parser is asked only for the body of a success.
LEMMA ExpectedAnswers ==
  ASSUME resp \in Responses
  PROVE  LET answer == Contract!Expected(Seen(resp))
             kind == Classify(resp.media)
         IN /\ answer.result # "none"
            /\ answer.preview # 0 => answer.result = "Request"
            /\ answer.result = "Parse" =>
                 /\ kind \in {"Json", "Yaml"} /\ ~resp.valid
                 /\ resp.length # 0 /\ resp.status = "success"
            /\ answer.result \in {"Json", "Yaml"} => answer.result = kind
<1> DEFINE r == Seen(resp)
           answer == Contract!Expected(r)
<1>1. /\ r.status = resp.status /\ r.length = resp.length /\ r.broken = resp.broken
      /\ r.valid = resp.valid /\ r.kind = Classify(resp.media)
  BY DEF Seen
<1>2. /\ r.status \in {"success", "noContent", "failure"}
      /\ r.length \in Nat /\ r.broken \in BOOLEAN /\ r.kind \in {"Json", "Yaml", "Text"}
  BY <1>1, BodyAssumption DEF Responses, BodyAssumption, Classify
<1> HIDE DEF r
<1>3. CASE r.status = "failure"
  <2>1. answer.result = "Request"
    BY <1>3 DEF Contract!Expected, Contract!Refusal
  <2> QED BY <1>1, <2>1 DEF r
<1>4. CASE r.status = "noContent"
  <2>1. answer = Contract!Result("Empty")
    BY <1>4 DEF Contract!Expected
  <2> QED BY <1>1, <2>1 DEF Contract!Result, r
<1>5. CASE r.status = "success"
  <2>1. \/ answer \in {Contract!Result("BodyTooLarge"), Contract!Result("Connection"),
                       Contract!Result("Empty")}
        \/ answer = Contract!Parsed(r) /\ r.length # 0
    BY <1>2, <1>5, BodyAssumption DEF Contract!Expected, BodyAssumption
  <2> QED BY <1>1, <1>2, <1>5, <2>1 DEF Contract!Result, Contract!Parsed, r
<1> QED BY <1>2, <1>3, <1>4, <1>5

\* A step that ends the reader with the outcome of the contract.
LEMMA FinishPreserves ==
  ASSUME Inv, Finish(Contract!Expected(Seen(resp))),
         Contract!Expected(Seen(resp)) \in [result : Results, preview : 0..PreviewLimit]
  PROVE  Inv'
<1>1. /\ pc' = "done" /\ resp' = resp /\ left' = left /\ buffered' = buffered
      /\ outcome' = Contract!Expected(Seen(resp))
  BY DEF Finish
<1>2. TypeOK' /\ Account' /\ BufferBounded' /\ StopsEarly'
  BY <1>1, ExpectedAnswers DEF Inv, TypeOK, Account, BufferBounded, StopsEarly
<1>3. Contract!Expected(Seen(resp))' = Contract!Expected(Seen(resp))
  BY <1>1 DEF Seen, Contract!Expected, Contract!Refusal, Contract!Result,
     Contract!Parsed
<1>4. Settled'
  BY <1>1, <1>3 DEF Settled
<1> QED
  BY <1>2, <1>4 DEF Inv

\* The three ways on from the headers.
LEMMA HeadersPreserve ==
  ASSUME Inv, Refused \/ NoContent \/ Accepted
  PROVE  Inv'
<1>1. CASE Refused \/ Accepted
  <2>1. TypeOK' /\ Account'
    BY <1>1, Numbers, BodyAssumption
       DEF BodyAssumption, Refused, Accepted, Inv, TypeOK, Account, Received
  <2>2. BufferBounded' /\ StopsEarly'
    BY <1>1 DEF Refused, Accepted, Inv, BufferBounded, StopsEarly
  <2>3. Settled'
    BY <1>1 DEF Refused, Accepted, Inv, Settled
  <2> QED
    BY <2>1, <2>2, <2>3 DEF Inv
<1>2. CASE NoContent
  <2>1. Contract!Expected(Seen(resp)) = Result("Empty")
    BY <1>2 DEF NoContent, Seen, Result, Contract!Expected, Contract!Result
  <2>2. Result("Empty") \in [result : Results, preview : 0..PreviewLimit]
    BY BodyAssumption DEF BodyAssumption, Result, Results
  <2> QED
    BY <1>2, <2>1, <2>2, FinishPreserves DEF NoContent
<1> QED
  BY <1>1, <1>2

\* read_truncated
LEMMA PreviewPreserves ==
  ASSUME Inv, PreviewEnds \/ \E n \in 0..MaxChunk : PreviewChunk(n)
  PROVE  Inv'
<1>1. ASSUME NEW n \in 0..MaxChunk, PreviewChunk(n) PROVE Inv'
  <2>1. /\ pc = "preview" /\ n \in Nat /\ n <= MaxChunk /\ n <= left
        /\ buffered < PreviewLimit
        /\ left' = left - n /\ buffered' = buffered + n
        /\ UNCHANGED <<resp, pc, outcome>>
    BY <1>1, BodyAssumption
       DEF BodyAssumption, PreviewChunk, PreviewHasRoom, Chunk
  <2>2. TypeOK'
    BY <2>1, Numbers DEF Inv, TypeOK
  <2>3. Account' /\ BufferBounded' /\ StopsEarly'
    BY <2>1, Numbers, BodyAssumption
       DEF BodyAssumption, Inv, Account, Received, BufferBounded, StopsEarly
  <2>4. Settled'
    BY <2>1 DEF Inv, Settled
  <2> QED
    BY <2>2, <2>3, <2>4 DEF Inv
<1>2. CASE PreviewEnds
  <2>1. resp.status = "failure"
    BY <1>2 DEF PreviewEnds, Inv, Account
  <2>2. Preview = IF resp.length < PreviewLimit THEN resp.length ELSE PreviewLimit
    BY <1>2, Numbers, BodyAssumption
       DEF BodyAssumption, PreviewEnds, PreviewHasRoom, Preview
  <2>3. Contract!Expected(Seen(resp)) = [result |-> "Request", preview |-> Preview]
    BY <2>1, <2>2 DEF Seen, Contract!Expected, Contract!Refusal
  <2>4. Preview \in 0..PreviewLimit
    BY Numbers, BodyAssumption DEF BodyAssumption, Preview
  <2> QED
    BY <1>2, <2>3, <2>4, FinishPreserves DEF PreviewEnds, Results
<1> QED
  BY <1>1, <1>2

\* read_capped
LEMMA CappedPreserves ==
  ASSUME Inv, CappedBreaks \/ CappedEnds \/ \E n \in 0..MaxChunk : CappedChunk(n)
  PROVE  Inv'
<1>1. pc = "capped"
  BY DEF CappedBreaks, CappedEnds, CappedChunk
<1>2. resp.status = "success" /\ buffered <= Limit /\ buffered = resp.length - left
  BY <1>1, Numbers DEF Inv, Account
<1>3. ASSUME NEW n \in 0..MaxChunk, CappedChunk(n), Exceeds(n) PROVE Inv'
  <2>1. /\ n \in Nat /\ n <= MaxChunk /\ n <= left /\ left' = left - n
        /\ pc' = "done" /\ outcome' = Result("BodyTooLarge")
        /\ UNCHANGED <<resp, buffered>>
    BY <1>3, BodyAssumption DEF BodyAssumption, CappedChunk, Chunk
  <2>2. resp.length > Limit
    BY <1>2, <1>3, <2>1, Numbers, BodyAssumption DEF BodyAssumption, Exceeds
  <2>3. Contract!Expected(Seen(resp)) = Result("BodyTooLarge")
    BY <1>2, <2>2, Numbers, BodyAssumption
       DEF BodyAssumption, Seen, Result, Contract!Expected, Contract!Result
  <2>4. Settled'
    BY <2>1, <2>3 DEF Settled
  <2>5. TypeOK'
    BY <2>1, Numbers, BodyAssumption
       DEF BodyAssumption, Inv, TypeOK, Result, Results
  <2>6. Account' /\ BufferBounded' /\ StopsEarly'
    BY <1>2, <2>1, Numbers, BodyAssumption
       DEF BodyAssumption, Account, Received, BufferBounded, StopsEarly
  <2> QED
    BY <2>4, <2>5, <2>6 DEF Inv
<1>4. ASSUME NEW n \in 0..MaxChunk, CappedChunk(n), ~Exceeds(n) PROVE Inv'
  <2>1. /\ n \in Nat /\ n <= left /\ left' = left - n
        /\ buffered' = buffered + n
        /\ UNCHANGED <<resp, pc, outcome>>
    BY <1>4, BodyAssumption DEF BodyAssumption, CappedChunk, Chunk
  <2>2. buffered + n <= Limit
    BY <1>2, <1>4, <2>1, Numbers, BodyAssumption DEF BodyAssumption, Exceeds
  <2>3. TypeOK'
    BY <2>1, Numbers DEF Inv, TypeOK
  <2>4. Account' /\ BufferBounded' /\ StopsEarly'
    BY <1>1, <1>2, <2>1, <2>2, Numbers, BodyAssumption
       DEF BodyAssumption, Account, Received, BufferBounded, StopsEarly
  <2>5. Settled'
    BY <1>1, <2>1 DEF Inv, Settled
  <2> QED
    BY <2>3, <2>4, <2>5 DEF Inv
<1>5. CASE CappedBreaks
  <2>1. Contract!Expected(Seen(resp)) = Result("Connection")
    BY <1>2, <1>5, Numbers, BodyAssumption
       DEF BodyAssumption, CappedBreaks, Seen, Result, Contract!Expected,
           Contract!Result
  <2>2. Result("Connection") \in [result : Results, preview : 0..PreviewLimit]
    BY BodyAssumption DEF BodyAssumption, Result, Results
  <2> QED
    BY <1>5, <2>1, <2>2, FinishPreserves DEF CappedBreaks
<1>6. CASE CappedEnds
  <2>1. /\ resp.length = buffered /\ ~resp.broken
        /\ resp.length <= Limit
    BY <1>2, <1>6, Numbers DEF CappedEnds
  <2>2. Contract!Expected(Seen(resp)) = Parse(Classify(resp.media))
    BY <1>2, <2>1, Numbers, BodyAssumption
       DEF BodyAssumption, Parse, Result, Seen, Contract!Expected,
           Contract!Result, Contract!Parsed
  <2>3. Parse(Classify(resp.media)) \in [result : Results, preview : 0..PreviewLimit]
    BY BodyAssumption DEF BodyAssumption, Parse, Classify, Result, Results
  <2> QED
    BY <1>6, <2>2, <2>3, FinishPreserves DEF CappedEnds
<1> QED
  BY <1>3, <1>4, <1>5, <1>6

LEMMA InvHolds == Spec => []Inv
<1>1. Inv /\ [Next]_vars => Inv'
  <2> SUFFICES ASSUME Inv, [Next]_vars PROVE Inv'
    OBVIOUS
  <2>1. CASE UNCHANGED vars
    BY <2>1 DEF vars, Inv, TypeOK, Account, Settled, Received, BufferBounded, StopsEarly
  <2>2. CASE Next
    BY <2>2, HeadersPreserve, PreviewPreserves, CappedPreserves, BodyAssumption
       DEF Next, Progress, BodyAssumption
  <2> QED
    BY <2>1, <2>2
<1> QED
  BY <1>1, InitEstablishes, PTL DEF Spec

-----------------------------------------------------------------------------
\* An outcome is there when and only when its reader has ended, with a preview
\* within its limit and only if the status was an error.
THEOREM TypeCorrect == Spec => []TypeOK
BY InvHolds, PTL DEF Inv

\* max_response_bytes bounds the buffer of a body, whatever its chunks.
THEOREM BodiesAreBounded == Spec => []BufferBounded
BY InvHolds, PTL DEF Inv

\* Not more than one chunk is read past a limit.
THEOREM ReadersStopEarly == Spec => []StopsEarly
BY InvHolds, PTL DEF Inv

\* A parse error means a body that its parser refuses and one of the content types
\* that classify takes for JSON (application/json, application/*+json) or YAML.
THEOREM TextIsSafe == Spec => []TextNeverFails
<1>1. Inv => TextNeverFails
  <2> SUFFICES ASSUME Inv PROVE TextNeverFails
    OBVIOUS
  <2>1. resp \in Responses /\ (outcome = Pending \/ outcome = Contract!Expected(Seen(resp)))
    BY DEF Inv, TypeOK, Settled
  <2>2. /\ outcome.result = "Parse" =>
             /\ Classify(resp.media) \in {"Json", "Yaml"} /\ ~resp.valid
             /\ resp.length # 0 /\ resp.status = "success"
        /\ outcome.result \in {"Json", "Yaml"} => outcome.result = Classify(resp.media)
    BY <2>1, ExpectedAnswers DEF Pending
  <2> QED BY <2>2 DEF TextNeverFails, Classify, YamlTypes
<1> QED
  BY <1>1, InvHolds, PTL

\* A reader implements the contract: its outcome appears in one step and is the
\* one expected of the response.
THEOREM ReaderKeepsContract == Spec => Contract!SafeSpec
<1>1. Init => Contract!Init
  BY DEF Init, Pending, Contract!Init, Contract!Pending
<1>2. Inv /\ Inv' /\ [Next]_vars => [Contract!Answer]_(Contract!vars)
  <2> SUFFICES ASSUME Inv, Inv', [Next]_vars
               PROVE  Contract!Answer \/ UNCHANGED Contract!vars
    OBVIOUS
  <2>1. UNCHANGED resp
    BY DEF Next, Progress, Refused, NoContent, Accepted, PreviewChunk,
       PreviewEnds, CappedChunk, CappedBreaks, CappedEnds, Finish, vars
  <2>2. (UNCHANGED outcome) \/ (pc # "done" /\ pc' = "done")
    <3>1. CASE UNCHANGED vars
      BY <3>1 DEF vars
    <3>2. CASE Refused \/ Accepted \/ \E n \in 0..MaxChunk : PreviewChunk(n)
      BY <3>2 DEF Refused, Accepted, PreviewChunk
    <3>3. CASE \E n \in 0..MaxChunk : CappedChunk(n)
      BY <3>3 DEF CappedChunk
    <3>4. CASE NoContent \/ PreviewEnds \/ CappedBreaks \/ CappedEnds
      BY <3>4 DEF NoContent, PreviewEnds, CappedBreaks, CappedEnds, Finish
    <3> QED
      BY <3>1, <3>2, <3>3, <3>4, BodyAssumption DEF Next, Progress, BodyAssumption
  <2>3. UNCHANGED Seen(resp)
    BY <2>1 DEF Seen
  <2>4. CASE UNCHANGED outcome
    BY <2>3, <2>4 DEF Contract!vars
  <2>5. CASE pc # "done" /\ pc' = "done"
    <3>1. outcome = Pending /\ outcome' = Contract!Expected(Seen(resp))'
      BY <2>5 DEF Inv, Settled
    <3>2. Contract!Expected(Seen(resp))' = Contract!Expected(Seen(resp))
      BY <2>1
    <3> QED
      BY <2>3, <2>5, <3>1, <3>2 DEF Contract!Answer, Pending, Contract!Pending
  <2> QED
    BY <2>2, <2>4, <2>5
<1> QED
  BY <1>1, <1>2, InvHolds, PTL DEF Spec, Contract!SafeSpec

=============================================================================
