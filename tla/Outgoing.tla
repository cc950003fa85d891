------------------------------ MODULE Outgoing ------------------------------
(***************************************************************************)
(* A call on its way out: the path and the body a caller names, resolved   *)
(* and guarded (join), made a PreparedRequest (prepare, prepare_form),     *)
(* given headers by a caller that executes it itself, guarded again        *)
(* (execute), and signed and sent.                                         *)
(***************************************************************************)
EXTENDS RequestPath, Signing

CONSTANTS
  Calls,        \* [ref, query, body]: the arguments of prepare, prepare_form
  CallerSets,   \* sets of headers a caller may add to a PreparedRequest
  CallerUrls    \* URLs a caller may put into one

\* "unserializable" is a JSON value that serde_json refuses to write.
Bodies == {"none", "json", "unserializable", "form"}
Serializes(body) == body # "unserializable"

ASSUME OutgoingAssumption ==
  /\ BaseOrigin \in [scheme : {"http", "https"}, host : Seq(STRING)]
  /\ CallerSets \subseteq SUBSET HeaderNames
  /\ Walked(BasePath)
  /\ \A c \in Calls :
       c.ref \in Seq(STRING) /\ c.query \in QueryTexts \cup {NoQuery}
       /\ c.body \in Bodies
  /\ NoQuery \notin Seq(Byte)
  /\ \A url \in CallerUrls : Walked(url.path)
  /\ Absent \notin Setters

VARIABLES
  mode,       \* how the client authenticates
  call,
  pc,
  prepared,   \* the PreparedRequest, or NoRequest
  wire,       \* what the last attempt sent, or NoRequest
  outcome     \* the error of a refused call

vars == <<mode, call, pc, prepared, wire, outcome>>

NoRequest == [none |-> TRUE]
Sent == wire # NoRequest

Init ==
  /\ mode \in Modes
  /\ call \in Calls
  /\ pc = "called"
  /\ prepared = NoRequest
  /\ wire = NoRequest
  /\ outcome = "none"

-----------------------------------------------------------------------------
Refuse(error) ==
  /\ pc' = "refused"
  /\ outcome' = error

\* A query that comes with a path is escaped as URLs are.
UrlQuery(query) == IF query = NoQuery THEN NoQuery ELSE ParsedQuery(query)

\* prepare, with or without a JSON body, and prepare_form.
ContentType(body) == IF body = "none" THEN {} ELSE {"content-type"}
PreparedRequest(url) ==
  [url |-> url, query |-> UrlQuery(call.query),
   headers |-> Insert(NoHeaders, ContentType(call.body), "prepare"),
   body |-> call.body]

\* prepare's ? after join, and its second one, after to_vec.
MakeRequest(joined) ==
  /\ joined.verdict = "ok"
  /\ \/ /\ Serializes(call.body)
        /\ prepared' = PreparedRequest(joined.url)
        /\ pc' = "prepared"
        /\ UNCHANGED outcome
     \/ ~Serializes(call.body) /\ Refuse("Parse") /\ UNCHANGED prepared

Prepare ==
  /\ pc = "called"
  /\ \/ MakeRequest(Join(call.ref))
     \/ /\ Join(call.ref).verdict # "ok"
        /\ Refuse(Join(call.ref).verdict)
        /\ UNCHANGED prepared
  /\ UNCHANGED <<mode, call, wire>>

\* The fields of a PreparedRequest are public: a caller that executes it
\* itself may have set headers and another URL before it does.
Edit(names, url) ==
  /\ pc = "prepared" /\ ~Sent
  /\ prepared' = [prepared EXCEPT !.headers = Insert(@, names, "caller"),
                                 !.url = url]
  /\ pc' = "edited"
  /\ UNCHANGED <<mode, call, wire, outcome>>

\* execute: the URL is guarded whoever made it, then each attempt signs a
\* copy; prepared stays as it is, for the attempts that follow.
Attempt ==
  /\ pc \in {"prepared", "edited"}
  /\ GuardRequestUrl(prepared.url) = "ok"
  /\ wire' = Signed(mode, prepared)
  /\ UNCHANGED <<mode, call, pc, prepared, outcome>>

RefuseAttempt ==
  /\ pc \in {"prepared", "edited"}
  /\ GuardRequestUrl(prepared.url) # "ok"
  /\ Refuse(GuardRequestUrl(prepared.url))
  /\ UNCHANGED <<mode, call, prepared, wire>>

Next ==
  \/ Prepare
  \/ \E names \in CallerSets : pc = "prepared" /\ Edit(names, prepared.url)
  \/ \E url \in CallerUrls : Edit({}, url)
  \/ Attempt
  \/ RefuseAttempt

Spec == Init /\ [][Next]_vars

-----------------------------------------------------------------------------
(* Properties.                                                             *)

Accepted == pc \in {"prepared", "edited"}

\* Types, and which variables go with which pc: a call that is refused has one
\* of five errors and has sent nothing, and Parse is the error of a body whose
\* path was accepted.
TypeOK ==
  /\ mode \in Modes
  /\ call \in Calls
  /\ pc \in {"called", "prepared", "edited", "refused"}
  /\ Accepted => /\ prepared.headers \in Headers
                 /\ prepared.body \in Bodies \ {"unserializable"}
  /\ pc = "called" => prepared = NoRequest
  /\ Sent => Accepted /\ wire.headers \in Headers
  /\ outcome \in {"none", "InvalidPath", "UnsupportedRequestUrl",
                  "CrossOriginRequest", "OutsideBaseUrlPath", "Parse"}
  /\ (outcome # "none") = (pc = "refused")
  /\ outcome = "Parse" =>
       ~Serializes(call.body) /\ Join(call.ref).verdict = "ok"

\* Whatever a caller names as a path or as a URL, what is sent goes to the base origin,
\* below the base path, and carries no userinfo (join, and the guard
\* of execute).
StaysBelowBase ==
  Sent => /\ wire.url.origin = BaseOrigin
          /\ ~wire.url.userinfo
          /\ UnderBasePath(wire.url)

\* The path prefix is compared with a path whose dot segments are walked, the
\* escaped ones too: none is left for the server to walk out of the prefix.
DotsAreWalked ==
  Sent => Walked(wire.url.path)

Moved == [scheme |-> BaseOrigin.scheme, host |-> <<"moved">>]

\* "An absolute URL or network-path reference is rejected even when it happens
\* to resolve to that origin" (client.rs 508): a path that is accepted would
\* mean the same to a client of another host.
PathsAreRelative ==
  Accepted => Resolve([origin |-> Moved, path |-> BasePath], StripSlash(call.ref))
                = UrlOf(Moved, Join(call.ref).url.path)

\* "/api/v1/jobs and api/v1/jobs resolve identically", for every path that is
\* accepted with its slash (client.rs 503).
SlashIsNeutral ==
  Accepted /\ call.ref # <<>> /\ call.ref[1] = "/"
    => Join(Tail(call.ref)) = Join(call.ref)

\* The one leading slash that join strips hides a scheme, or with a blank two
\* more slashes, from RELATIVE_GUARD.
SlashHides(ref) ==
  LET rest == Cleaned(Tail(ref))
  IN /\ ref # <<>> /\ ref[1] = "/"
     /\ \/ HasScheme(rest)
        \/ Slashes(rest) >= 2 /\ Slashes(Cleaned(ref)) = 1

\* A path that names the guard's own host, of a domain no server can have.
NamesGuard(ref) == \E i \in DOMAIN ref : ref[i] \in Range(RelativeGuard.origin.host)

\* A path means one thing: it depends neither on the host nor on the slash,
\* these two kinds set apart.
PathsMeanOneThing ==
  ~SlashHides(call.ref) /\ ~NamesGuard(call.ref)
    => PathsAreRelative /\ SlashIsNeutral

\* The server accepts the signature of every request whose key is the client's
\* own: it makes the text that was hashed of the request it gets, its query
\* parsed and written again, and the headers are those of this attempt even if
\* the caller left others behind.  A key the caller set itself stays (base
\* headers are only added), beside a hash of the client's secret: that request
\* is answered 403, unless the caller's key happens to be the client's.
ServerVerifies ==
  Sent /\ mode = "hmac" =>
    (ServerAccepts(wire) <=> prepared.headers["x-api-key"] = Absent)

Pairs(query) == IF query = NoQuery THEN <<>> ELSE ServerPairs(query)

\* Writing the query in canonical form changes none of its names and values,
\* nor their order: escapes, pluses, bare names and stray percent signs
\* included (canonical_query).
MeaningKept == Sent => Pairs(wire.query) = Pairs(call.query)

\* One scheme at a time: a token client sends neither key nor hash of its own,
\* any other adds no Authorization, and an anonymous one adds nothing.
OneScheme ==
  Sent => LET own == {n \in HeaderNames : wire.headers[n] \in {"token", "hmac", "base"}}
          IN own \cap ({"authorization", "x-api-key"} \cup HmacHeaders) \subseteq
               CASE mode = "token"     -> {"authorization"}
                 [] mode = "hmac"      -> {"x-api-key"} \cup HmacHeaders
                 [] mode = "anonymous" -> {}

\* Every header a caller or prepare has set goes out as it was set, but for a
\* stale signature; a token never replaces the caller's Authorization (a job
\* token), nor a base header anything (README.md 335).
CallerWins ==
  Sent => \A n \in HeaderNames :
            prepared.headers[n] # Absent =>
              \/ wire.headers[n] = prepared.headers[n]
              \/ mode = "hmac" /\ n \in HmacHeaders

\* The headers on the wire are the caller's, and the client's own only beside
\* them and of one scheme (sign).
HeadersAreRight == OneScheme /\ CallerWins

=============================================================================
