------------------------------ MODULE MCClient ------------------------------
(* Requests, redirects and bodies for TLC.                                 *)
EXTENDS Client

MCMethods == {"GET", "POST", "PATCH"}
MCBasePath == <<"openqa">>
MCPaths == {<<"openqa", "api">>, <<"openqa">>, <<"openqa2", "api">>}

Url(origin, userinfo, path) ==
  [origin |-> origin, userinfo |-> userinfo, path |-> path, web |-> TRUE]

Inside == Url("base", FALSE, <<"openqa", "api">>)
Sibling == Url("base", FALSE, <<"openqa2", "api">>)
Foreign == Url("other", FALSE, <<"openqa", "api">>)
WithUser == Url("base", TRUE, <<"openqa", "api">>)
NotWeb == [Inside EXCEPT !.origin = "other", !.web = FALSE]

Read(url) ==
  [method |-> "GET", url |-> url, headers |-> {"other"}, body |-> FALSE]
Write(method) ==
  [method |-> method, url |-> Inside, headers |-> HeaderKinds, body |-> TRUE]

Answer(status, retryAfter) ==
  [status |-> status, retryAfter |-> retryAfter, location |-> NoLocation]
MovedTo(status, url) ==
  [status |-> status, retryAfter |-> NoRetryAfter, location |-> url]

\* Requests and redirects that lead everywhere.
MCRequests ==
  {Read(u) : u \in {Inside, Sibling, Foreign, WithUser}}
    \cup {Write("POST"), Write("PATCH")}
MCResponses ==
  {Answer(200, NoRetryAfter), Answer(204, NoRetryAfter), Answer(403, NoRetryAfter),
   Answer(302, NoRetryAfter), Answer(503, NoRetryAfter), Answer(503, 1)}
    \cup {MovedTo(302, u) : u \in {Inside, Sibling, Foreign, WithUser, NotWeb}}
    \cup {MovedTo(308, Inside)}

MCBodies ==
  [kind : BodyKinds, length : {0, 1, 2}, broken : BOOLEAN, valid : BOOLEAN]

=============================================================================
