----------------------------- MODULE MCExecute -----------------------------
(* Writes, and a server that answers them, for TLC.                        *)
EXTENDS Execute

MCMethods == {"GET", "POST", "PUT"}
MCBasePath == <<"openqa">>
MCPaths == {<<"openqa", "api">>, <<"login">>}

Url(origin, path) ==
  [origin |-> origin, userinfo |-> FALSE, path |-> path, web |-> TRUE]
Inside == Url("base", <<"openqa", "api">>)
Outside == Url("base", <<"login">>)
Foreign == Url("other", <<"openqa", "api">>)

Write(method) ==
  [method |-> method, url |-> Inside, headers |-> HeaderKinds, body |-> TRUE]

Answer(status, retryAfter) ==
  [status |-> status, retryAfter |-> retryAfter, location |-> NoLocation]
MovedTo(status, url) ==
  [status |-> status, retryAfter |-> NoRetryAfter, location |-> url]

\* One method the policy replays and one it does not, and a URL that execute
\* refuses.
MCRequests ==
  {Write("POST"), Write("PUT"), [Write("POST") EXCEPT !.url = Outside]}

\* Every class of status the call tells apart, Retry-After values of zero and
\* above the cap, and redirects: one that replays a write, others that lead
\* from it to a page, of this server or another.
MCResponses ==
  {Answer(200, NoRetryAfter),
   Answer(503, NoRetryAfter), Answer(429, 0), Answer(429, 9),
   MovedTo(307, Inside)} \cup {MovedTo(303, url) : url \in {Inside, Foreign}}

=============================================================================
