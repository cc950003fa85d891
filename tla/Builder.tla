------------------------------ MODULE Builder ------------------------------
(***************************************************************************)
(* ClientBuilder::build, the HTTP client it makes or was given, and the    *)
(* first signature of the client it returns (src/src/client.rs, tls.rs,    *)
(* secret.rs).  The merged client.conf is that of ConfigLookup: sections   *)
(* in the order they appeared, each with a key, a secret, both or neither. *)
(* Key, secret and username are classes of strings: what build and a       *)
(* header value can tell apart.                                            *)
(***************************************************************************)
EXTENDS ServerUrl, Sequences, SequencesExt

CONSTANTS
  Settings,   \* what callers set, see Init
  Confs,      \* merged configurations
  Envs,       \* pairs in the environment
  Unset,
  Injected    \* the HTTP client a caller brings: it is as its maker made it

Parts == {"plain", "colon", "empty", "opaque"}
Optional == Parts \cup {Unset}
Pairs == [key : Optional, secret : Optional]
NoPair == [key |-> Unset, secret |-> Unset]
SectionsOf == [name : Names, key : Optional, secret : Optional]

\* The TLS modes; a custom CA bundle joins the platform's roots or replaces them.
TlsModes == {"platform", "merged", "pinned", "unverified"}

\* An HTTP client: the roots it trusts, whether it verifies certificates at all,
\* and whose timeouts it has.
Roots == {"platform", "custom"}
Transports ==
  [roots : SUBSET Roots, verifies : BOOLEAN, timeouts : {"default", "asked"}]

\* A string with a control character other than a tab is no header value.
LegalHeader(part) == part # "opaque"

ASSUME BuilderAssumption ==
  /\ Settings \subseteq
       [server : Names \cup {Unset}, scheme : {""} \cup Schemes,
        pair : Pairs, username : Optional,
        ownHttp : BOOLEAN, tls : TlsModes \cup {Unset},
        timeouts : {"asked", Unset}, retryValid : BOOLEAN,
        agent : Parts]
  /\ Confs \subseteq Seq(SectionsOf)
  /\ Envs \subseteq Pairs
  /\ "localhost" \in Loopbacks
  /\ Unset # Injected /\ Unset \notin TlsModes \cup {"asked"}
  /\ Unset \notin Transports /\ Injected \notin Transports

VARIABLES
  settings, conf, env,
  pc,
  base,    \* base_url
  creds,   \* key and secret, each with the tier it came from
  http,    \* the HTTP client
  outcome

inputs == <<settings, conf, env>>
vars == <<inputs, pc, base, creds, http, outcome>>

NoCreds == [key |-> <<Unset, Unset>>, secret |-> <<Unset, Unset>>]
NoBase == Name("", Unset, 0)

Init ==
  /\ settings \in Settings
  /\ conf \in Confs
  /\ env \in Envs
  /\ pc = "options"
  /\ base = NoBase
  /\ creds = NoCreds
  /\ http = Unset
  /\ outcome = "none"

-----------------------------------------------------------------------------
Fail(error) ==
  /\ pc' = "failed" /\ outcome' = error
  /\ UNCHANGED <<inputs, base, creds, http>>

Continue(next) ==
  /\ pc' = next
  /\ UNCHANGED <<inputs, outcome>>

\* An injected HTTP client has its own TLS mode and timeouts.
Incompatible ==
  settings.ownHttp /\ (settings.tls # Unset \/ settings.timeouts # Unset)

\* validate, then the options an injected HTTP client excludes.
CheckOptions ==
  /\ pc = "options"
  /\ \/ ~settings.retryValid /\ Fail("InvalidRetryPolicy")
     \/ settings.retryValid /\ Incompatible /\ Fail("IncompatibleHttpClient")
     \/ /\ settings.retryValid /\ ~Incompatible
        /\ Continue("resolve") /\ UNCHANGED <<base, creds, http>>

\* The server that was set, or the first section, or localhost.
Server ==
  CASE settings.server # Unset                      -> settings.server
    [] settings.server = Unset /\ conf # <<>>       -> conf[1].name
    [] settings.server = Unset /\ conf = <<>>       -> Name("", "localhost", 0)

\* The lookup of ConfigLookup may have failed, or the server be no URL.
Resolve ==
  /\ pc = "resolve"
  /\ \/ Fail("Config")
     \/ /\ base' = BaseUrl(Server, settings.scheme)
        /\ Continue("credentials") /\ UNCHANGED <<creds, http>>

-----------------------------------------------------------------------------
Complete(pair) == pair.key # Unset /\ pair.secret # Unset
Half(pair) == (pair.key = Unset) # (pair.secret = Unset)

\* section_credentials: half a pair is no pair.
PairsNamed(name) == {i \in DOMAIN conf : conf[i].name = name /\ Complete(conf[i])}
PairOf(section) == [key |-> section.key, secret |-> section.secret]

\* lookup_credentials: the first name with a complete section.
ConfPair ==
  LET names == LookupNames(base)
      hits == {n \in DOMAIN names : PairsNamed(names[n]) # {}}
  IN IF hits = {} THEN NoPair ELSE PairOf(conf[Min(PairsNamed(names[Min(hits)]))])

\* Empty environment variables are unset.
NonEmpty(part) == IF part = "empty" THEN Unset ELSE part
EnvPair == [key |-> NonEmpty(env.key), secret |-> NonEmpty(env.secret)]

TierPairs ==
  <<[tier |-> "builder", pair |-> settings.pair],
    [tier |-> "env", pair |-> EnvPair],
    [tier |-> "conf", pair |-> ConfPair]>>

From(tier) ==
  [key |-> <<tier.tier, tier.pair.key>>, secret |-> <<tier.tier, tier.pair.secret>>]

\* resolve_credentials
ResolveCredentials ==
  LET complete == {i \in DOMAIN TierPairs : Complete(TierPairs[i].pair)}
  IN IF complete = {} THEN NoCreds ELSE From(TierPairs[Min(complete)])

\* Variant: the tiers below the first complete one are not looked at.
HalfPairInUse ==
  LET given == {i \in DOMAIN TierPairs : TierPairs[i].pair # NoPair}
  IN given # {} /\ Half(TierPairs[Min(given)].pair)

\* from_parts fails on half a pair, whatever the tiers above it have.
HalfPair == \E i \in DOMAIN TierPairs : Half(TierPairs[i].pair)

TakeCredentials ==
  /\ pc = "credentials"
  /\ \/ HalfPair /\ Fail("IncompleteCredentials")
     \/ /\ ~HalfPair
        /\ creds' = ResolveCredentials
        /\ Continue("token") /\ UNCHANGED <<base, http>>

-----------------------------------------------------------------------------
Username == settings.username
HasCreds == creds # NoCreds
Plaintext == base.scheme = "http" /\ base.host \notin Loopbacks

\* validate_token_parts
TokenParts == {Username, creds.key[2], creds.secret[2]}
ValidTokenParts == TokenParts \cap {"empty", "colon"} = {}

\* Variant: plain http is allowed to who asks for it.
TokenAllowedIfAsked == ~Plaintext \/ settings.scheme = "http"
TokenAllowed == ~Plaintext

CheckToken ==
  /\ pc = "token"
  /\ \/ Username = Unset /\ Continue("headers") /\ UNCHANGED <<base, creds, http>>
     \/ Username # Unset /\ ~HasCreds /\ Fail("IncompleteCredentials")
     \/ /\ Username # Unset /\ HasCreds
        /\ ~(ValidTokenParts /\ TokenAllowed)
        /\ Fail("InvalidCredentials")
     \/ /\ Username # Unset /\ HasCreds
        /\ ValidTokenParts /\ TokenAllowed
        /\ Continue("headers") /\ UNCHANGED <<base, creds, http>>

\* The headers of every request. X-API-Key is one where it is used, a bearer
\* token is not.
HeaderRefused ==
  \/ ~LegalHeader(settings.agent)
  \/ HasCreds /\ Username = Unset /\ ~LegalHeader(creds.key[2])

OrElse(option, default) == IF option = Unset THEN default ELSE option

\* Variant: replace_roots is taken for its opposite.
TrustedIfSwapped(mode) ==
  CASE mode = "merged" -> {"custom"} [] mode = "pinned" -> Roots
    [] OTHER -> {"platform"}

\* TlsMode::apply
Trusted(mode) ==
  CASE mode = "merged" -> Roots [] mode = "pinned" -> {"custom"}
    [] OTHER -> {"platform"}

OwnTransport ==
  LET mode == OrElse(settings.tls, "platform")
  IN [roots |-> Trusted(mode), verifies |-> mode # "unverified",
      timeouts |-> OrElse(settings.timeouts, "default")]

\* The HTTP client: a bad certificate makes it fail, unless it was injected.
MakeClient ==
  /\ pc = "headers"
  /\ \/ HeaderRefused /\ Fail("Config")
     \/ ~HeaderRefused /\ ~settings.ownHttp /\ Fail("Tls")
     \/ /\ ~HeaderRefused
        /\ http' = IF settings.ownHttp THEN Injected ELSE OwnTransport
        /\ Continue("built") /\ UNCHANGED <<base, creds>>

\* sign of the first request: with a username, bearer_value.
FirstSignature ==
  /\ pc = "built"
  /\ IF Username # Unset /\ \E part \in TokenParts : ~LegalHeader(part)
     THEN Continue("panicked")
     ELSE Continue("signed")
  /\ UNCHANGED <<base, creds, http>>

Next ==
  CheckOptions \/ Resolve \/ TakeCredentials \/ CheckToken \/ MakeClient
  \/ FirstSignature

Spec == Init /\ [][Next]_vars

-----------------------------------------------------------------------------
Works == pc \in {"built", "signed", "panicked"}

TypeOK ==
  /\ settings \in Settings /\ conf \in Confs /\ env \in Envs
  /\ pc \in {"options", "resolve", "credentials", "token", "headers", "built",
             "signed", "panicked", "failed"}
  /\ base.host \in Hosts \cup {PortAsHost, Unset}
  /\ base.port \in {0} \cup Ports
  /\ pc \notin {"options", "resolve", "failed"} =>
       base.host \in Hosts \cup {PortAsHost}
  /\ http \in Transports \cup {Injected, Unset}
  /\ Works => http \in Transports \cup {Injected}
  /\ outcome \in {"none", "InvalidRetryPolicy", "IncompatibleHttpClient",
                  "IncompleteCredentials", "InvalidCredentials", "Config", "Tls"}
  /\ (outcome # "none") = (pc = "failed")

\* Credentials are "resolved together and from a single source"; and half a
\* pair in the builder or in the environment is an error even where a higher
\* tier is complete.
PairsAreWhole ==
  Works => /\ creds.key[1] = creds.secret[1]
           /\ ~Half(settings.pair) /\ ~Half(EnvPair)

\* A client with token auth never speaks to another machine in plain text.
TokensStayPrivate == (Works /\ Username # Unset) => HasCreds /\ ~Plaintext

\* Whom a client believes, by the authority that signed a certificate; "nobody"
\* signs the certificate of a man in the middle.
Believes(authority) == authority \in http.roots \/ ~http.verifies

\* No TLS mode or timeout is lost on the way to the HTTP client: a client that
\* was to be pinned believes its CA alone, only one that was to verify nothing
\* believes a forger, and a client made elsewhere is in use only where neither
\* was asked for.
TransportIsAsAsked ==
  Works =>
    /\ http = Injected => settings.tls = Unset /\ settings.timeouts = Unset
    /\ http # Injected =>
         /\ Believes("nobody") <=> settings.tls = "unverified"
         /\ settings.tls = "pinned" => Believes("custom") /\ ~Believes("platform")
         /\ settings.tls = "merged" => Believes("custom") /\ Believes("platform")
         /\ settings.tls \in {"platform", Unset} =>
              Believes("platform") /\ ~Believes("custom")
         /\ (http.timeouts = "asked") = (settings.timeouts = "asked")

\* Where build let credentials pass, signing with HMAC cannot fail: the key is
\* the value of a header.
HmacSigns ==
  (Works /\ Username = Unset /\ HasCreds) =>
    LegalHeader(creds.key[2]) /\ pc # "panicked"

\* A server taken from client.conf finds its keys: the header of the first section
\* is among the names that are looked for, and its keys are taken unless it names
\* a scheme and another section has the keys of the same host and port without
\* one.  Not so where the header has the default port of its scheme, which Url
\* drops, nor where it is misread.
DefaultServerHasItsKeys ==
  LET own == conf[1]
  IN (/\ Works /\ settings.server = Unset /\ settings.scheme = ""
      /\ settings.pair = NoPair /\ EnvPair = NoPair
      /\ conf # <<>> /\ Complete(own) /\ ~Misread(own.name)
      /\ own.name.port # DefaultPort(base.scheme))
     => /\ creds.key[1] = "conf"
        /\ (own.name.scheme = ""
              \/ PairsNamed(Name("", own.name.host, own.name.port)) = {})
             => creds.key[2] = own.key /\ creds.secret[2] = own.secret

\* "The scheme defaults to https, except for loopback hosts".
SchemeDefaults ==
  (base # NoBase /\ settings.scheme = "" /\ Server.scheme = "") =>
    base.scheme = IF Server.host \in Loopbacks THEN "http" ELSE "https"

\* "A half-set pair from any tier is a build error": also in client.conf, in a
\* section the credentials are looked for in.
HalfPairFails ==
  Works => \A i \in DOMAIN conf :
    conf[i].name \in Range(LookupNames(base)) => ~Half(conf[i])

\* bearer_value panics "never in practice: build already rejects a combination
\* that would fail to become a valid header value".
TokensNeverPanic == pc # "panicked"

=============================================================================
