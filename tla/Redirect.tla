------------------------------ MODULE Redirect ------------------------------
(***************************************************************************)
(* Which URLs a request may be sent to, and what a redirect response makes *)
(* of the request that drew it: guard_request_url and redirect_target of   *)
(* src/src/client.rs.                                                      *)
(*                                                                         *)
(* A URL is [origin, userinfo, path, web]: its origin, whether it carries  *)
(* a user name or a password, its path as the sequence of its segments     *)
(* ("/openqa/" is <<"openqa", "">>), and whether it is an http(s) URL with *)
(* a host.  A prepared request is [method, url, headers, body], headers    *)
(* being the kinds of header it carries and body whether it has one.  The  *)
(* location of a response is the URL that its Location header joins to, or *)
(* NoLocation when it has none that joins.                                 *)
(***************************************************************************)
EXTENDS Integers, Sequences

CONSTANTS
  BaseOrigin,      \* origin of the client's base URL
  BasePath,        \* its path, without the empty last segment
  NoLocation

Followed == {301, 302, 303, 307, 308}
Replayed == {307, 308}

-----------------------------------------------------------------------------
\* The path lies strictly below the base path: string prefix "<base>/" is
\* prefix by whole segments with at least one segment left.
UnderBasePath(url) ==
  /\ Len(url.path) > Len(BasePath)
  /\ SubSeq(url.path, 1, Len(BasePath)) = BasePath

\* Variant: a user name in the URL is let through.
GuardOriginAndPath(url) ==
  IF url.origin # BaseOrigin THEN "CrossOriginRequest"
  ELSE IF ~UnderBasePath(url) THEN "OutsideBaseUrlPath"
  ELSE "ok"

\* guard_request_url: the first check that fails names the error.
GuardRequestUrl(url) ==
  IF url.origin # BaseOrigin THEN "CrossOriginRequest"
  ELSE IF url.userinfo THEN "UnsupportedRequestUrl"
  ELSE IF ~UnderBasePath(url) THEN "OutsideBaseUrlPath"
  ELSE "ok"

\* redirect_target answers Ok(None), the response is final, unless ...
IsRedirect(resp) ==
  /\ resp.status \in Followed
  /\ resp.location # NoLocation
  /\ resp.location.web

\* Variant: a redirect to elsewhere is left to the guard of the next hop.
LeavesNothing(current, resp) == FALSE

\* ... and refuses the redirect if it leaves the origin of the current URL.
LeavesOrigin(current, resp) == resp.location.origin # current.url.origin

\* Variant: only a 303 turns the method into GET.
SeeOtherMethod(method, status) == IF status = 303 THEN "GET" ELSE method

RedirectMethod(method, status) ==
  IF status \in Replayed THEN method
  ELSE IF status = 303 \/ method = "POST" THEN "GET" ELSE method

\* without_content_headers
WithoutContentHeaders(headers) == headers \ {"content"}

\* The request of the next hop: replayed as it was by 307 and 308, else
\* stripped of its body and of the headers that describe one.
RedirectTarget(current, resp) ==
  LET asIs == resp.status \in Replayed
  IN  [method  |-> RedirectMethod(current.method, resp.status),
       url     |-> resp.location,
       headers |-> IF asIs THEN current.headers
                   ELSE WithoutContentHeaders(current.headers),
       body    |-> asIs /\ current.body]

=============================================================================
