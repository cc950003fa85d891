---------------------------- MODULE ResponseBody ----------------------------
(***************************************************************************)
(* Client::handle_response with read_capped and read_truncated             *)
(* (src/src/client.rs): a response whose body arrives in chunks, ends or   *)
(* breaks.  Bytes are counted, not stored.  A body longer than both limits *)
(* stands for one that never ends.                                         *)
(***************************************************************************)
EXTENDS Integers

CONSTANTS
  MediaTypes,    \* media types of Content-Type headers, see Classify
  Lengths,       \* numbers of bytes a server delivers
  MaxChunk,      \* most bytes of one chunk
  Limit,         \* max_response_bytes
  PreviewLimit   \* ERROR_BODY_PREVIEW_BYTES

ASSUME BodyAssumption ==
  /\ Lengths \subseteq Nat
  /\ MaxChunk \in Nat \ {0}
  /\ Limit \in Nat
  /\ PreviewLimit \in Nat

\* A media type is its two parts and whether it ends in +json; parameters are
\* cut off and case is folded before.
NoMediaType == [type |-> "", subtype |-> "", plusJson |-> FALSE]
YamlTypes == {<<"text", "yaml">>, <<"application", "yaml">>,
              <<"application", "x-yaml">>, <<"text", "x-yaml">>}

\* Variant: a +json suffix counts whatever the type before it.
ClassifyLoosely(media) ==
  IF media.subtype = "json" \/ media.plusJson THEN "Json"
  ELSE IF <<media.type, media.subtype>> \in YamlTypes THEN "Yaml" ELSE "Text"

Classify(media) ==
  IF media.type = "application" /\ (media.subtype = "json" \/ media.plusJson)
  THEN "Json"
  ELSE IF <<media.type, media.subtype>> \in YamlTypes THEN "Yaml" ELSE "Text"

Responses ==
  [status : {"success", "noContent", "failure"}, media : MediaTypes,
   length : Lengths, broken : BOOLEAN, valid : BOOLEAN]

VARIABLES
  resp,      \* what the server answers
  left,      \* bytes of the body not yet delivered
  pc,
  buffered,  \* buf.len()
  outcome

vars == <<resp, left, pc, buffered, outcome>>

Pending == [result |-> "none", preview |-> 0]
Result(result) == [result |-> result, preview |-> 0]

Init ==
  /\ resp \in Responses
  /\ left = resp.length
  /\ pc = "headers"
  /\ buffered = 0
  /\ outcome = Pending

-----------------------------------------------------------------------------
Finish(result) ==
  /\ pc' = "done"
  /\ outcome' = result
  /\ UNCHANGED <<resp, left, buffered>>

\* The status decides which of the two readers runs, or that none does.
Refused ==
  /\ pc = "headers" /\ resp.status = "failure"
  /\ pc' = "preview"
  /\ UNCHANGED <<resp, left, buffered, outcome>>

NoContent ==
  /\ pc = "headers" /\ resp.status = "noContent"
  /\ Finish(Result("Empty"))

Accepted ==
  /\ pc = "headers" /\ resp.status = "success"
  /\ pc' = "capped"
  /\ UNCHANGED <<resp, left, buffered, outcome>>

\* resp.chunk() yields n bytes; an empty frame is a chunk of its own.
Chunk(n) ==
  /\ n \in 0..MaxChunk /\ n <= left
  /\ left' = left - n

-----------------------------------------------------------------------------
\* Variant: the loop runs on while there is room for another chunk only.
PreviewHasRoomForAll == buffered + MaxChunk <= PreviewLimit

Preview == IF buffered < PreviewLimit THEN buffered ELSE PreviewLimit
PreviewHasRoom == buffered < PreviewLimit

\* read_truncated
PreviewChunk(n) ==
  /\ pc = "preview"
  /\ PreviewHasRoom
  /\ Chunk(n)
  /\ buffered' = buffered + n
  /\ UNCHANGED <<resp, pc, outcome>>

\* The body has ended or broken, or the preview is full.
PreviewEnds ==
  /\ pc = "preview"
  /\ left = 0 \/ ~PreviewHasRoom
  /\ Finish([result |-> "Request", preview |-> Preview])

-----------------------------------------------------------------------------
\* Variant: the buffer is measured before the chunk is in it.
BufferExceeds(n) == buffered > Limit

Exceeds(n) == n > (IF buffered < Limit THEN Limit - buffered ELSE 0)

\* read_capped
CappedChunk(n) ==
  /\ pc = "capped"
  /\ Chunk(n)
  /\ \/ /\ Exceeds(n)
        /\ pc' = "done" /\ outcome' = Result("BodyTooLarge")
        /\ UNCHANGED buffered
     \/ /\ ~Exceeds(n)
        /\ buffered' = buffered + n
        /\ UNCHANGED <<pc, outcome>>
  /\ UNCHANGED resp

CappedBreaks ==
  /\ pc = "capped" /\ left = 0 /\ resp.broken
  /\ Finish(Result("Connection"))

\* An empty body is no JSON and no YAML document; text needs no parser.
Parse(kind) ==
  CASE buffered = 0                                 -> Result("Empty")
    [] buffered > 0 /\ kind # "Text" /\ ~resp.valid -> Result("Parse")
    [] OTHER                                        -> Result(kind)

CappedEnds ==
  /\ pc = "capped" /\ left = 0 /\ ~resp.broken
  /\ Finish(Parse(Classify(resp.media)))

-----------------------------------------------------------------------------
Progress ==
  \/ Refused \/ NoContent \/ Accepted
  \/ \E n \in 1..MaxChunk : PreviewChunk(n) \/ CappedChunk(n)
  \/ PreviewEnds \/ CappedBreaks \/ CappedEnds

Next == Progress \/ PreviewChunk(0) \/ CappedChunk(0)

\* The server sends, or the read timeout breaks the body; it does not send
\* empty frames for ever.
Spec == Init /\ [][Next]_vars /\ WF_vars(Progress)

-----------------------------------------------------------------------------
Results ==
  {"none", "Request", "Empty", "BodyTooLarge", "Connection", "Parse",
   "Json", "Yaml", "Text"}

TypeOK ==
  /\ resp \in Responses
  /\ left \in Nat
  /\ pc \in {"headers", "preview", "capped", "done"}
  /\ buffered \in Nat
  /\ outcome \in [result : Results, preview : 0..PreviewLimit]
  /\ (outcome.result = "none") = (pc # "done")
  /\ outcome.preview # 0 => outcome.result = "Request"

\* max_response_bytes bounds the memory a body takes, and a preview takes at
\* most one chunk more than it needs.
BufferBounded ==
  buffered <= IF resp.status = "failure" THEN PreviewLimit + MaxChunk ELSE Limit

\* "Bailing as soon as limit would be exceeded (rather than buffering the whole
\* thing first)": not more than one chunk is taken past the limit.
StopsEarly ==
  resp.length - left <=
    (IF resp.status = "failure" THEN PreviewLimit ELSE Limit) + MaxChunk

\* A response as the contract sees it.
Seen(r) ==
  [status |-> r.status, kind |-> Classify(r.media), length |-> r.length,
   broken |-> r.broken, valid |-> r.valid]

Contract == INSTANCE ResponseContract WITH
  Responses <- {Seen(r) : r \in Responses}, resp <- Seen(resp)

\* What the caller gets is a function of the response: not of the chunks, and
\* not of where the limit falls among them; and it gets it in the end.
KeepsContract == Contract!Spec

\* The text routes of openQA ("ok", "ack", "OK", whatever their bytes) and
\* answers without a content type never fail in a parser: only the body of a
\* success does, of type application/json, application/*+json or one of four
\* for YAML, and no other type is taken for JSON or YAML.
TextNeverFails ==
  LET json == /\ resp.media.type = "application"
              /\ resp.media.subtype = "json" \/ resp.media.plusJson
      yaml == /\ resp.media.type \in {"application", "text"}
              /\ resp.media.subtype \in {"yaml", "x-yaml"}
  IN /\ outcome.result = "Parse" =>
          /\ json \/ yaml
          /\ ~resp.valid /\ resp.length # 0 /\ resp.status = "success"
     /\ outcome.result = "Json" => json
     /\ outcome.result = "Yaml" => yaml

=============================================================================
