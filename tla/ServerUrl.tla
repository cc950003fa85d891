----------------------------- MODULE ServerUrl -----------------------------
(***************************************************************************)
(* From the server a caller names to the base URL, and from the base URL   *)
(* to the sections its credentials may be in (resolve, netloc and          *)
(* lookup_credentials, src/src/config.rs).  A server and the header of a   *)
(* section have the same form: a scheme or "", a host, a port or 0.  Paths *)
(* and userinfo are left out: no section is found by them.                 *)
(***************************************************************************)
EXTENDS Naturals

CONSTANTS
  Hosts,
  Loopbacks,   \* hosts of the machine itself
  HttpLike,    \* hosts whose name begins with "http"
  Ports,
  PortAsHost   \* the digits of a port where a host should be

ASSUME ServerAssumption ==
  /\ Loopbacks \subseteq Hosts /\ HttpLike \subseteq Hosts
  /\ Ports \subseteq Nat \ {0}

Schemes == {"http", "https"}
Names == [scheme : {""} \cup Schemes, host : Hosts, port : {0} \cup Ports]
Name(scheme, host, port) == [scheme |-> scheme, host |-> host, port |-> port]

\* Url drops the default port of its scheme.
DefaultPort(scheme) ==
  CASE scheme = "http" -> 80 [] scheme = "https" -> 443 [] OTHER -> 0
Parsed(scheme, host, port) ==
  Name(scheme, host, IF port = DefaultPort(scheme) THEN 0 ELSE port)

\* "httpd:8080" parses as a URL too: its scheme is httpd and 8080 its path,
\* which becomes the server.
Misread(server) ==
  server.scheme = "" /\ server.host \in HttpLike /\ server.port # 0

\* The server after a URL was taken apart, and the scheme it carried.
Authority(server) ==
  IF Misread(server) THEN Name(server.host, PortAsHost, 0)
  ELSE IF server.scheme = "" THEN server
  ELSE Parsed(server.scheme, server.host, server.port)

DefaultScheme(name) == IF name.host \in Loopbacks THEN "http" ELSE "https"

\* option is ClientBuilder::scheme.
BaseUrl(server, option) ==
  LET name == Authority(server)
      scheme == CASE option # ""                       -> option
                  [] option = "" /\ name.scheme # ""   -> name.scheme
                  [] option = "" /\ name.scheme = ""   -> DefaultScheme(name)
  IN Parsed(scheme, name.host, name.port)

\* Variant: the origin is not looked for.
LookupByHost(base) == <<Name("", base.host, base.port), Name("", base.host, 0)>>

\* The sections credentials are looked for in: host and port, origin, host.
LookupNames(base) ==
  <<Name("", base.host, base.port), base, Name("", base.host, 0)>>

=============================================================================
