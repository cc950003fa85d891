------------------------------ MODULE Signing ------------------------------
(***************************************************************************)
(* Client::sign of src/src/client.rs with signing_string and apply of      *)
(* src/src/auth.rs: what goes on the wire for one attempt at a prepared    *)
(* request.  Of a header is kept who set it, since that is what the order  *)
(* of the inserts decides; of a signature, the text that was hashed, since *)
(* a hash tells two texts apart and nothing else.                          *)
(***************************************************************************)
EXTENDS CanonicalQuery

CONSTANTS NoQuery, Absent

HeaderNames ==
  {"accept", "user-agent", "content-type", "authorization", "x-api-key",
   "x-api-microtime", "x-api-hash"}
HmacHeaders == {"x-api-microtime", "x-api-hash"}
Setters == {"caller", "prepare", "token", "hmac", "base"}
Headers == [HeaderNames -> Setters \cup {Absent}]
NoHeaders == [n \in HeaderNames |-> Absent]

\* What a built client has: a username and a pair, a pair only, or neither.
Modes == {"token", "hmac", "anonymous"}

Insert(headers, names, setter) ==
  [n \in HeaderNames |-> IF n \in names THEN setter ELSE headers[n]]
InsertIfAbsent(headers, names, setter) ==
  Insert(headers, {n \in names : headers[n] = Absent}, setter)

\* X-API-Key is a base header of a client that signs (see Builder).
BaseHeaders(mode) ==
  {"accept", "user-agent"} \cup (IF mode = "hmac" THEN {"x-api-key"} ELSE {})

-----------------------------------------------------------------------------
\* set_query: a query that is empty once it is canonical is none.
WireQuery(query) ==
  IF query = NoQuery \/ CanonicalQuery(query) = <<>> THEN NoQuery
  ELSE CanonicalQuery(query)

\* signing_string, as the path and the query that follows it.
SigningString(path, query) == [path |-> path, query |-> WireQuery(query)]

\* Variant: a signature the caller left in the headers stays there.
HmacIfAbsent(mode, prepared) ==
  CASE mode = "token" ->
         [prepared EXCEPT !.headers = InsertIfAbsent(@, {"authorization"}, "token")]
    [] mode = "hmac" ->
         [prepared EXCEPT !.query = WireQuery(@),
                          !.headers = InsertIfAbsent(@, HmacHeaders, "hmac")]
    [] mode = "anonymous" -> prepared

\* The match of sign, with apply: one scheme, chosen by what the client has.
Authenticated(mode, prepared) ==
  CASE mode = "token" ->
         [prepared EXCEPT !.headers = InsertIfAbsent(@, {"authorization"}, "token")]
    [] mode = "hmac" ->
         [prepared EXCEPT !.query = WireQuery(@),
                          !.headers = Insert(@, HmacHeaders, "hmac")]
    [] mode = "anonymous" -> prepared

\* Variant: the base headers come last and win.
BaseHeadersLast(mode, headers) == Insert(headers, BaseHeaders(mode), "base")

WithBaseHeaders(mode, headers) ==
  InsertIfAbsent(headers, BaseHeaders(mode), "base")

\* sign: the request on the wire; signed is the text behind X-API-Hash.
Signed(mode, prepared) ==
  LET request == Authenticated(mode, prepared)
  IN [url |-> request.url, query |-> request.query,
      headers |-> WithBaseHeaders(mode, request.headers),
      body |-> request.body,
      signed |-> SigningString(request.url.path, request.query)]

-----------------------------------------------------------------------------
\* What openQA's server hashes for a request it receives.
ServerString(request) ==
  [path |-> request.url.path,
   query |-> IF request.query = NoQuery \/ ServerQuery(request.query) = <<>>
             THEN NoQuery ELSE ServerQuery(request.query)]

\* It looks the secret up by the key, and compares the hashes: the key must be
\* the one that belongs to the secret, the client's own.
ServerAccepts(request) ==
  /\ request.headers["x-api-key"] = "base"
  /\ \A n \in HmacHeaders : request.headers[n] = "hmac"
  /\ ServerString(request) = request.signed

=============================================================================
