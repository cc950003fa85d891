----------------------------- MODULE MCBuilder -----------------------------
(* Settings, configurations and environments for TLC.                      *)
EXTENDS Builder

Pair(key, secret) == [key |-> key, secret |-> secret]
Section(name, key, secret) == [name |-> name, key |-> key, secret |-> secret]

Setting(server, scheme, pair, username) ==
  [server |-> server, scheme |-> scheme, pair |-> pair, username |-> username,
   ownHttp |-> FALSE, tls |-> Unset, timeouts |-> Unset, retryValid |-> TRUE,
   agent |-> "plain"]

Servers ==
  {Unset, Name("", "openqa", 0), Name("", "openqa", 443), Name("http", "openqa", 0),
   Name("https", "openqa", 9526), Name("", "localhost", 9526)}

MCPairs ==
  {NoPair, Pair("plain", "plain"), Pair("plain", Unset), Pair(Unset, "plain"),
   Pair("opaque", "plain"), Pair("plain", "colon")}

MCSettings ==
  {Setting(server, scheme, pair, user) :
     server \in Servers, scheme \in {""} \cup Schemes, pair \in MCPairs,
     user \in {Unset, "plain", "empty"}}
  \cup [server : {Unset}, scheme : {""}, pair : {NoPair}, username : {Unset},
        ownHttp : BOOLEAN, tls : TlsModes \cup {Unset},
        timeouts : {"asked", Unset}, retryValid : BOOLEAN,
        agent : {"plain", "opaque"}]

Host == Section(Name("", "openqa", 0), "plain", "plain")
Origin == Section(Name("https", "openqa", 0), "colon", "plain")
WithPort == Section(Name("", "openqa", 9526), "plain", "opaque")
HalfHost == Section(Name("", "openqa", 0), "plain", Unset)
Local == Section(Name("", "localhost", 0), "plain", "plain")
Httpd == Section(Name("", "httpd", 0), "plain", "plain")
HttpdPort == Section(Name("", "httpd", 9526), "plain", "plain")

MCConfs ==
  {<<>>, <<Host>>, <<Origin>>, <<Origin, Host>>, <<Origin, HalfHost>>,
   <<WithPort, Host>>, <<HalfHost, Origin>>, <<Local, Host>>, <<Httpd>>, <<HttpdPort>>}

MCEnvs == {NoPair, Pair("plain", "plain"), Pair("plain", "empty"), Pair(Unset, "plain")}

\* A token whose parts are free of colons but no header value.
TokenSettings ==
  {Setting(Name("", "openqa", 0), "", pair, user) :
     pair \in MCPairs, user \in {Unset, "plain", "opaque"}}

\* A host whose name begins with http, with and without a port.
HttpdSettings ==
  {Setting(Name("", host, port), "", NoPair, Unset) :
     host \in {"openqa", "httpd"}, port \in {0, 9526}}

=============================================================================
