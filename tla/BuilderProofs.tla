--------------------------- MODULE BuilderProofs ---------------------------
(* What build accepts, for every setting, configuration and environment.   *)
EXTENDS Builder, Induction

\* No token goes on to the headers unless credentials were found and it may be
\* sent to the server.
TokenChecked ==
  pc \in {"headers", "built", "signed", "panicked"} /\ Username # Unset
    => HasCreds /\ TokenAllowed

\* No half pair of the builder or of the environment goes on to the token; and
\* credentials have one tier whether they were found or not.
PairsTaken ==
  /\ creds.key[1] = creds.secret[1]
  /\ pc \in {"token", "headers", "built", "signed", "panicked"} =>
       ~Half(settings.pair) /\ ~Half(EnvPair)

\* No key that is no header value goes on to the HTTP client, and what panics
\* is a token.
KeyChecked ==
  /\ (Works /\ Username = Unset /\ HasCreds) => LegalHeader(creds.key[2])
  /\ pc = "panicked" => Username # Unset

\* The inductive invariant of build.
BuildInv == PairsTaken /\ TokenChecked /\ KeyChecked

-----------------------------------------------------------------------------
\* It holds at the start.
LEMMA InitBuild == Init => BuildInv
BY DEF Init, BuildInv, PairsTaken, TokenChecked, KeyChecked, Works, NoCreds

\* Half a pair in any tier stops the build.
LEMMA WholeTiers == ~HalfPair => ~Half(settings.pair) /\ ~Half(EnvPair)
<1> SUFFICES ASSUME ~HalfPair PROVE ~Half(settings.pair) /\ ~Half(EnvPair)
  OBVIOUS
<1>1. 1 \in DOMAIN TierPairs /\ TierPairs[1].pair = settings.pair
  BY DEF TierPairs
<1>2. 2 \in DOMAIN TierPairs /\ TierPairs[2].pair = EnvPair
  BY DEF TierPairs
<1> QED BY <1>1, <1>2 DEF HalfPair

\* Credentials are those of one tier, or none.
LEMMA OneTier ==
  ResolveCredentials.key[1] = ResolveCredentials.secret[1]
<1> DEFINE complete == {i \in DOMAIN TierPairs : Complete(TierPairs[i].pair)}
<1>1. NoCreds.key[1] = NoCreds.secret[1]
  BY DEF NoCreds
<1>2. ASSUME NEW tier PROVE From(tier).key[1] = From(tier).secret[1]
  BY DEF From
<1> HIDE DEF complete
<1>3. ResolveCredentials = NoCreds \/ ResolveCredentials = From(TierPairs[Min(complete)])
  BY DEF ResolveCredentials, complete
<1> QED BY <1>1, <1>2, <1>3

\* Every step of build keeps it.
LEMMA StepBuild == BuildInv /\ [Next]_vars => BuildInv'
<1> SUFFICES ASSUME BuildInv, [Next]_vars PROVE BuildInv'
  OBVIOUS
<1> USE DEF BuildInv
<1>1. CASE CheckOptions
  BY <1>1 DEF CheckOptions, Fail, Continue, inputs, PairsTaken, TokenChecked,
     KeyChecked, Works, Username
<1>2. CASE Resolve
  BY <1>2 DEF Resolve, Fail, Continue, inputs, PairsTaken, TokenChecked,
     KeyChecked, Works, Username
<1>3. CASE TakeCredentials
  <2>1. CASE Fail("IncompleteCredentials") /\ HalfPair
    BY <2>1 DEF Fail, inputs, PairsTaken, TokenChecked, KeyChecked, Works
  <2>2. CASE ~HalfPair /\ creds' = ResolveCredentials /\ Continue("token")
    <3>1. PairsTaken'
      BY <2>2, OneTier, WholeTiers DEF Continue, inputs, PairsTaken, Half,
         EnvPair, NonEmpty
    <3>2. TokenChecked' /\ KeyChecked'
      BY <2>2 DEF Continue, TokenChecked, KeyChecked, Works
    <3> QED BY <3>1, <3>2
  <2> QED BY <1>3, <2>1, <2>2 DEF TakeCredentials
<1>4. CASE CheckToken
  BY <1>4 DEF CheckToken, Fail, Continue, inputs, PairsTaken, TokenChecked,
     KeyChecked, Works, Username, HasCreds, TokenAllowed, Plaintext, EnvPair,
     Half, NonEmpty
<1>5. CASE MakeClient
  BY <1>5 DEF MakeClient, HeaderRefused, Fail, Continue, inputs, PairsTaken,
     TokenChecked, KeyChecked, Works, Username, HasCreds, TokenAllowed,
     Plaintext, EnvPair, Half, NonEmpty
<1>6. CASE FirstSignature
  BY <1>6 DEF FirstSignature, Continue, inputs, PairsTaken, TokenChecked,
     KeyChecked, Works, Username, HasCreds, TokenAllowed, Plaintext, EnvPair,
     Half, NonEmpty
<1>7. CASE UNCHANGED vars
  BY <1>7 DEF vars, inputs, PairsTaken, TokenChecked, KeyChecked, Works,
     Username, HasCreds, TokenAllowed, Plaintext, EnvPair, Half, NonEmpty
<1> QED BY <1>1, <1>2, <1>3, <1>4, <1>5, <1>6, <1>7 DEF Next

-----------------------------------------------------------------------------
\* Whatever server is named or found, the base URL has a host and a port.
LEMMA ServerNamed ==
  ASSUME settings \in Settings, conf \in Confs
  PROVE  Server \in Names
<1>1. settings.server \in Names \cup {Unset}
  BY BuilderAssumption DEF BuilderAssumption
<1>2. CASE settings.server # Unset
  BY <1>1, <1>2 DEF Server
<1>3. CASE settings.server = Unset /\ conf # <<>>
  <2>1. conf \in Seq(SectionsOf)
    BY BuilderAssumption DEF BuilderAssumption
  <2>2. conf[1] \in SectionsOf
    BY <1>3, <2>1
  <2> QED BY <1>3, <2>2 DEF Server, SectionsOf
<1>4. CASE settings.server = Unset /\ conf = <<>>
  BY <1>4, BuilderAssumption, ServerAssumption
     DEF Server, Name, Names, BuilderAssumption, ServerAssumption
<1> QED BY <1>2, <1>3, <1>4

\* The base URL's host and port are those of the server, or defaults.
LEMMA UrlHasHost ==
  ASSUME NEW server \in Names, NEW option
  PROVE  LET url == BaseUrl(server, option)
         IN url.host \in Hosts \cup {PortAsHost} /\ url.port \in {0} \cup Ports
<1> DEFINE name == Authority(server)
<1>1. server.host \in Hosts /\ server.port \in {0} \cup Ports
  BY DEF Names
<1>2. name.host \in Hosts \cup {PortAsHost} /\ name.port \in {0} \cup Ports
  BY <1>1 DEF Authority, Name, Parsed
<1> HIDE DEF name
<1>3. ASSUME NEW scheme
      PROVE  LET url == Parsed(scheme, name.host, name.port)
             IN url.host = name.host /\ url.port \in {0, name.port}
  BY DEF Parsed, Name
<1> QED BY <1>2, <1>3 DEF BaseUrl, name

\* The HTTP client that build makes is one.
LEMMA TransportMade ==
  ASSUME settings \in Settings
  PROVE  OwnTransport \in Transports
<1>1. settings.timeouts \in {"asked", Unset}
  BY BuilderAssumption DEF BuilderAssumption
<1>2. OrElse(settings.timeouts, "default") \in {"default", "asked"}
  BY <1>1 DEF OrElse
<1>3. ASSUME NEW mode PROVE Trusted(mode) \in SUBSET Roots
  BY DEF Trusted, Roots
<1> QED BY <1>2, <1>3 DEF OwnTransport, Transports

\* Every step keeps the types.
LEMMA StepTypes == TypeOK /\ [Next]_vars => TypeOK'
<1> SUFFICES ASSUME TypeOK, [Next]_vars PROVE TypeOK'
  OBVIOUS
<1> USE DEF TypeOK, Works
<1>1. CASE CheckOptions
  BY <1>1 DEF CheckOptions, Fail, Continue, inputs
<1>2. CASE Resolve
  <2>1. CASE Fail("Config")
    BY <2>1, <1>2 DEF Fail, inputs, Resolve
  <2>2. CASE /\ base' = BaseUrl(Server, settings.scheme)
             /\ Continue("credentials") /\ UNCHANGED <<creds, http>>
    <3>1. base'.host \in Hosts \cup {PortAsHost} /\ base'.port \in {0} \cup Ports
      BY <2>2, ServerNamed, UrlHasHost
    <3> QED BY <2>2, <1>2, <3>1 DEF Continue, inputs, Resolve
  <2> QED BY <1>2, <2>1, <2>2 DEF Resolve
<1>3. CASE TakeCredentials
  BY <1>3 DEF TakeCredentials, Fail, Continue, inputs
<1>4. CASE CheckToken
  BY <1>4 DEF CheckToken, Fail, Continue, inputs
<1>5. CASE MakeClient
  <2>1. /\ http' \in Transports \cup {Injected, Unset}
        /\ pc' = "built" => http' \in Transports \cup {Injected}
    BY <1>5, TransportMade DEF MakeClient, Fail, Continue
  <2> QED BY <1>5, <2>1 DEF MakeClient, Fail, Continue, inputs
<1>6. CASE FirstSignature
  BY <1>6 DEF FirstSignature, Continue, inputs
<1>7. CASE UNCHANGED vars
  BY <1>7 DEF vars, inputs
<1> QED BY <1>1, <1>2, <1>3, <1>4, <1>5, <1>6, <1>7 DEF Next

\* Of whatever types the inputs are, a client that build returns has the host and
\* the port of some server and an HTTP client, and only a build that failed has an
\* error (build, resolve, http_client).
THEOREM TypeCorrect == Spec => []TypeOK
<1>1. NoBase.host = Unset /\ NoBase.port = 0
  BY DEF NoBase, Name
<1>2. Init => TypeOK
  BY <1>1 DEF Init, TypeOK, Works
<1> QED BY <1>2, StepTypes, PTL DEF Spec

\* So the invariant always holds.
LEMMA BuildChecked == Spec => []BuildInv
BY InitBuild, StepBuild, PTL DEF Spec

-----------------------------------------------------------------------------
\* No option that excludes an injected HTTP client goes past the first check,
\* and a client that works has the HTTP client its options make.
TransportMatches ==
  /\ pc \notin {"options", "failed"} => ~Incompatible
  /\ Works => http = IF settings.ownHttp THEN Injected ELSE OwnTransport

\* Every step keeps the match of options and HTTP client.
LEMMA StepTransport == TransportMatches /\ [Next]_vars => TransportMatches'
<1> SUFFICES ASSUME TransportMatches, [Next]_vars PROVE TransportMatches'
  OBVIOUS
<1> USE DEF TransportMatches, Fail, Continue, inputs, Works, Incompatible,
        OwnTransport
<1>1. CASE CheckOptions
  BY <1>1 DEF CheckOptions
<1>2. CASE Resolve
  BY <1>2 DEF Resolve
<1>3. CASE TakeCredentials
  BY <1>3 DEF TakeCredentials
<1>4. CASE CheckToken
  BY <1>4 DEF CheckToken
<1>5. CASE MakeClient
  BY <1>5 DEF MakeClient
<1>6. CASE FirstSignature
  BY <1>6 DEF FirstSignature
<1>7. CASE UNCHANGED vars
  BY <1>7 DEF vars
<1> QED BY <1>1, <1>2, <1>3, <1>4, <1>5, <1>6, <1>7 DEF Next

\* The HTTP client of a client that works trusts exactly the roots, verifies
\* exactly as, and waits exactly as long as the caller's options say
\* (TlsMode::apply and the checks of http_client).
THEOREM TransportsAreAsked == Spec => []TransportIsAsAsked
<1>1. Init => TransportMatches
  BY DEF Init, TransportMatches, Works
<1>2. ASSUME TypeOK, TransportMatches PROVE TransportIsAsAsked
  <2> SUFFICES ASSUME Works PROVE TransportIsAsAsked
    BY DEF TransportIsAsAsked
  <2>1. ~Incompatible
    BY <1>2 DEF TransportMatches, Works
  <2>2. /\ settings.tls \in TlsModes \cup {Unset}
        /\ settings.timeouts \in {"asked", Unset} /\ settings.ownHttp \in BOOLEAN
    BY <1>2, BuilderAssumption DEF TypeOK, BuilderAssumption
  <2>3. CASE settings.ownHttp
    <3>1. http = Injected
      BY <1>2, <2>3 DEF TransportMatches
    <3> QED BY <2>1, <2>3, <3>1 DEF TransportIsAsAsked, Incompatible
  <2>4. CASE ~settings.ownHttp
    <3>1. http = OwnTransport
      BY <1>2, <2>4 DEF TransportMatches
    <3>2. http # Injected
      BY <1>2, <3>1, TransportMade, BuilderAssumption DEF TypeOK, BuilderAssumption
    <3>3. Unset \notin TlsModes \cup {"asked"}
      BY BuilderAssumption DEF BuilderAssumption
    <3>4. (http.timeouts = "asked") = (settings.timeouts = "asked")
      BY <2>2, <3>1, <3>3 DEF OwnTransport, OrElse
    <3> DEFINE mode == OrElse(settings.tls, "platform")
    <3>5. http.roots = Trusted(mode) /\ (http.verifies <=> mode # "unverified")
      BY <3>1 DEF OwnTransport
    <3>6. /\ settings.tls # Unset => mode = settings.tls
          /\ settings.tls = Unset => mode = "platform"
      BY DEF OrElse
    <3>7. mode \in TlsModes
      BY <2>2, <3>6 DEF TlsModes
    <3> HIDE DEF mode
    <3>8. Believes("nobody") <=> mode = "unverified"
      BY <3>5, <3>7 DEF Believes, Trusted, Roots, TlsModes
    <3>9. mode = "pinned" => Believes("custom") /\ ~Believes("platform")
      BY <3>5 DEF Believes, Trusted
    <3>10. mode = "merged" => Believes("custom") /\ Believes("platform")
      BY <3>5 DEF Believes, Trusted, Roots
    <3>11. mode = "platform" => Believes("platform") /\ ~Believes("custom")
      BY <3>5 DEF Believes, Trusted
    <3>12. settings.tls = "unverified" <=> mode = "unverified"
      BY <2>2, <3>3, <3>6 DEF TlsModes
    <3>13. settings.tls \in {"platform", Unset} => mode = "platform"
      BY <3>6
    <3>14. /\ settings.tls = "pinned" => mode = "pinned"
           /\ settings.tls = "merged" => mode = "merged"
      BY <3>3, <3>6 DEF TlsModes
    <3> QED
      BY <3>2, <3>4, <3>8, <3>9, <3>10, <3>11, <3>12, <3>13, <3>14
         DEF TransportIsAsAsked
  <2> QED BY <2>2, <2>3, <2>4
<1> QED BY <1>1, <1>2, StepTransport, TypeCorrect, PTL DEF Spec

\* A client whose credentials come from one tier, with no half pair ignored in
\* the builder or in the environment (resolve_credentials and from_parts).
THEOREM CredentialsAreWhole == Spec => []PairsAreWhole
<1>1. BuildInv => PairsAreWhole
  BY DEF BuildInv, PairsTaken, PairsAreWhole, Works
<1> QED BY BuildChecked, <1>1, PTL

\* No client with token auth for plain http to another machine leaves build.
THEOREM TokensAreSafe == Spec => []TokensStayPrivate
<1>1. BuildInv => TokensStayPrivate
  BY DEF BuildInv, TokenChecked, TokensStayPrivate, Works, TokenAllowed
<1> QED BY BuildChecked, <1>1, PTL

\* Without a username, what build accepted can be signed (base_headers).
THEOREM HmacIsUsable == Spec => []HmacSigns
<1>1. BuildInv => HmacSigns
  BY DEF BuildInv, KeyChecked, HmacSigns, Works
<1> QED BY BuildChecked, <1>1, PTL

-----------------------------------------------------------------------------
(* The keys of a server that was found in client.conf.  Where credentials  *)
(* were taken, base and creds are what the inputs make of them.            *)

Resolved ==
  /\ pc \notin {"options", "resolve", "failed"} =>
       base = BaseUrl(Server, settings.scheme)
  /\ pc \in {"token", "headers", "built", "signed", "panicked"} =>
       creds = ResolveCredentials

\* Every step keeps what resolution found.
LEMMA StepResolved == Resolved /\ [Next]_vars => Resolved'
<1> SUFFICES ASSUME Resolved, [Next]_vars PROVE Resolved'
  OBVIOUS
<1>1. inputs' = inputs
  BY DEF Next, CheckOptions, Resolve, TakeCredentials, CheckToken, MakeClient,
     FirstSignature, Fail, Continue, vars
<1>2. settings' = settings /\ conf' = conf /\ env' = env /\ Server' = Server
  BY <1>1 DEF inputs, Server
<1>3. ASSUME base' = base
      PROVE  ResolveCredentials' = ResolveCredentials
  BY <1>2, <1>3 DEF ResolveCredentials, TierPairs, EnvPair, NonEmpty, ConfPair,
     LookupNames, PairsNamed
<1>4. CASE CheckOptions
  BY <1>4 DEF CheckOptions, Fail, Continue, Resolved
<1>5. CASE Resolve
  BY <1>2, <1>5 DEF Resolve, Fail, Continue, Resolved
<1>6. CASE TakeCredentials
  BY <1>2, <1>3, <1>6 DEF TakeCredentials, Fail, Continue, Resolved
<1>7. CASE CheckToken
  BY <1>2, <1>3, <1>7 DEF CheckToken, Fail, Continue, Resolved
<1>8. CASE MakeClient
  BY <1>2, <1>3, <1>8 DEF MakeClient, Fail, Continue, Resolved
<1>9. CASE FirstSignature
  BY <1>2, <1>3, <1>9 DEF FirstSignature, Continue, Resolved
<1>10. CASE UNCHANGED vars
  BY <1>2, <1>3, <1>10 DEF vars, Resolved
<1> QED BY <1>4, <1>5, <1>6, <1>7, <1>8, <1>9, <1>10 DEF Next

\* A URL has the parts it was parsed from.
LEMMA ParsedParts ==
  ASSUME NEW scheme, NEW host, NEW port
  PROVE  /\ Parsed(scheme, host, port).scheme = scheme
         /\ Parsed(scheme, host, port).host = host
         /\ port # DefaultPort(scheme) => Parsed(scheme, host, port).port = port
BY DEF Parsed, Name

\* The indices of three members.
LEMMA Triple ==
  ASSUME NEW a, NEW b, NEW c PROVE DOMAIN <<a, b, c>> = 1..3
OBVIOUS

\* No scheme, under a name: the SMT backend cannot take the empty string.
NoScheme == ""

\* The header of the first section is among the names that are looked for.
LEMMA OwnNameLookedFor ==
  ASSUME NEW name \in Names, ~Misread(name), base = BaseUrl(name, NoScheme),
         name.port # DefaultPort(base.scheme)
  PROVE  /\ name.scheme = NoScheme => LookupNames(base)[1] = name
         /\ name.scheme # NoScheme => LookupNames(base)[2] = name
<1>1. name = Name(name.scheme, name.host, name.port)
  BY DEF Names, Name
<1> DEFINE own == Parsed(name.scheme, name.host, name.port)
<1>2. /\ name.scheme = NoScheme => Authority(name) = name
      /\ name.scheme # NoScheme => Authority(name) = own
  BY DEF Authority, Misread, NoScheme
<1>3. /\ name.scheme = NoScheme =>
           base = Parsed(DefaultScheme(name), name.host, name.port)
      /\ name.scheme # NoScheme /\ own.scheme # NoScheme =>
           base = Parsed(own.scheme, own.host, own.port)
  BY <1>2 DEF BaseUrl, NoScheme
<1>4. /\ LookupNames(base)[1] = Name(NoScheme, base.host, base.port)
      /\ LookupNames(base)[2] = base
  BY DEF LookupNames, NoScheme
<1>5. CASE name.scheme = NoScheme
  <2>1. base = Parsed(DefaultScheme(name), name.host, name.port)
    BY <1>3, <1>5
  <2>2. base.scheme = DefaultScheme(name) /\ base.host = name.host
    BY <2>1, ParsedParts
  <2>3. base.port = name.port
    BY <2>1, <2>2, ParsedParts
  <2> QED BY <1>1, <1>4, <1>5, <2>2, <2>3
<1>6. CASE name.scheme # NoScheme
  <2>1. own.scheme = name.scheme /\ own.host = name.host
    BY ParsedParts
  <2>2. base = Parsed(own.scheme, own.host, own.port)
    BY <1>3, <1>6, <2>1
  <2>3. base.scheme = name.scheme
    BY <2>1, <2>2, ParsedParts
  <2>4. own = name
    BY <1>1, <2>3 DEF Parsed
  <2>5. base = name
    BY <1>1, <2>2, <2>3, <2>4 DEF Parsed
  <2> QED BY <1>4, <1>6, <2>5
<1> QED BY <1>5, <1>6

\* A section with both halves under a name that is looked for is a pair found.
LEMMA PairFound ==
  ASSUME conf \in Seq(SectionsOf), conf # <<>>, Complete(conf[1]), NEW n \in 1..3,
         LookupNames(base)[n] = conf[1].name
  PROVE  /\ Complete(ConfPair)
         /\ (\A k \in 1..(n - 1) : PairsNamed(LookupNames(base)[k]) = {}) =>
              ConfPair.key = conf[1].key /\ ConfPair.secret = conf[1].secret
<1> DEFINE names == LookupNames(base)
           hits == {k \in DOMAIN names : PairsNamed(names[k]) # {}}
           first == Min(hits)
           section == Min(PairsNamed(names[first]))
<1>1. DOMAIN names = 1..3
  BY Triple DEF LookupNames
<1>2. DOMAIN conf \subseteq Nat \ {0} /\ 1 \in DOMAIN conf
  OBVIOUS
<1>3. 1 \in PairsNamed(names[n])
  BY <1>2 DEF PairsNamed
<1>4. hits \in SUBSET Nat /\ n \in hits
  BY <1>1, <1>3
<1>5. \A S \in SUBSET Nat : S # {} => Min(S) \in S /\ \A k \in S : Min(S) <= k
  <2>1. SUFFICES ASSUME NEW S \in SUBSET Nat, S # {}
                 PROVE  Min(S) \in S /\ \A k \in S : Min(S) <= k
    OBVIOUS
  <2>2. \E x \in S : \A y \in S : x <= y
    BY <2>1, LeastOf
  <2> QED BY <2>2 DEF Min
<1>6. first \in hits /\ first <= n
  BY <1>4, <1>5
<1>7. PairsNamed(names[first]) \in SUBSET Nat /\ PairsNamed(names[first]) # {}
  BY <1>2, <1>6 DEF PairsNamed
<1>8. section \in PairsNamed(names[first])
  BY <1>5, <1>7
<1>9. Complete(conf[section])
  BY <1>8 DEF PairsNamed
<1>10. ConfPair = PairOf(conf[section])
  BY <1>4 DEF ConfPair
<1>11. Complete(ConfPair)
  BY <1>9, <1>10 DEF PairOf, Complete
<1>12. ASSUME \A k \in 1..(n - 1) : PairsNamed(names[k]) = {} PROVE section = 1
  <2>1. first = n
    <3>1. PairsNamed(names[first]) # {} /\ first \in 1..3
      BY <1>1, <1>6
    <3>2. first \notin 1..(n - 1)
      BY <1>12, <3>1
    <3> HIDE DEF first
    <3> QED BY <1>6, <3>1, <3>2
  <2>2. section <= 1 /\ section \in Nat \ {0}
    BY <1>2, <1>3, <1>5, <1>7, <1>8, <1>12, <2>1 DEF PairsNamed
  <2> QED BY <2>2
<1> QED BY <1>10, <1>11, <1>12 DEF PairOf

\* A default server with keys of its own is built with them.
LEMMA OwnKeysFound ==
  ASSUME TypeOK, Resolved
  PROVE  DefaultServerHasItsKeys
<1> DEFINE own == conf[1]
           rivals == PairsNamed(Name(NoScheme, own.name.host, own.name.port))
<1> SUFFICES ASSUME Works, settings.server = Unset, settings.scheme = NoScheme,
                    settings.pair = NoPair, EnvPair = NoPair,
                    conf # <<>>, Complete(own), ~Misread(own.name),
                    own.name.port # DefaultPort(base.scheme)
             PROVE  /\ creds.key[1] = "conf"
                    /\ own.name.scheme = NoScheme \/ rivals = {} =>
                         creds.key[2] = own.key /\ creds.secret[2] = own.secret
  BY DEF DefaultServerHasItsKeys, NoScheme
<1>1. conf \in Seq(SectionsOf)
  BY BuilderAssumption DEF TypeOK, BuilderAssumption
<1>2. own.name \in Names
  <2>1. 1 \in DOMAIN conf
    BY <1>1
  <2>2. own \in SectionsOf
    BY <1>1, <2>1
  <2> QED BY <2>2 DEF SectionsOf
<1>3. base = BaseUrl(own.name, NoScheme) /\ creds = ResolveCredentials
  BY DEF Resolved, Works, Server
<1>4. /\ own.name.scheme = NoScheme => LookupNames(base)[1] = own.name
      /\ own.name.scheme # NoScheme => LookupNames(base)[2] = own.name
  BY <1>2, <1>3, OwnNameLookedFor
<1>5. /\ Complete(ConfPair)
      /\ own.name.scheme = NoScheme \/ rivals = {} =>
           ConfPair.key = own.key /\ ConfPair.secret = own.secret
  <2>1. CASE own.name.scheme = NoScheme
    <3>1. LookupNames(base)[1] = own.name /\ 1 \in 1..3 /\ 1..(1 - 1) = {}
      BY <1>4, <2>1
    <3> QED BY <1>1, <3>1, PairFound
  <2>2. CASE own.name.scheme # NoScheme
    <3>1. LookupNames(base)[2] = own.name /\ 2 \in 1..3 /\ 1..(2 - 1) = {1}
      BY <1>4, <2>2
    <3>2. base = own.name
      BY <3>1 DEF LookupNames
    <3>3. LookupNames(base)[1] = Name(NoScheme, own.name.host, own.name.port)
      BY <3>2 DEF LookupNames, NoScheme
    <3>4. rivals = {} => \A k \in 1..(2 - 1) : PairsNamed(LookupNames(base)[k]) = {}
      BY <3>1, <3>3
    <3> HIDE DEF rivals
    <3> QED BY <1>1, <2>2, <3>1, <3>4, PairFound
  <2> QED BY <2>1, <2>2
<1> DEFINE complete == {i \in DOMAIN TierPairs : Complete(TierPairs[i].pair)}
<1>6. ~Complete(NoPair)
  BY DEF Complete, NoPair
<1>7. DOMAIN TierPairs = 1..3
  BY Triple DEF TierPairs
<1>8. TierPairs[1].pair = NoPair /\ TierPairs[2].pair = NoPair
      /\ TierPairs[3].pair = ConfPair
  BY DEF TierPairs
<1>9. complete = {3}
  BY <1>5, <1>6, <1>7, <1>8
<1>10. Min({3}) = 3
  BY DEF Min
<1>11. creds = From(TierPairs[3])
  BY <1>3, <1>9, <1>10 DEF ResolveCredentials
<1>12. creds = [key |-> <<"conf", ConfPair.key>>, secret |-> <<"conf", ConfPair.secret>>]
  BY <1>11 DEF From, TierPairs
<1> QED BY <1>5, <1>12

\* Where the caller names no server and neither builder nor environment has a
\* pair, the client has the keys of the first section, if it has both halves, its
\* header does not begin with "http" before a port (see builder_httpd) and has not
\* the default port of its scheme; of a section with a scheme in its header that is
\* so where no section has both halves for the same host and port without one
\* (resolve, netloc and lookup_credentials).
THEOREM DefaultServerIsKeyed == Spec => []DefaultServerHasItsKeys
<1>1. Init => Resolved
  BY DEF Init, Resolved
<1>2. TypeOK /\ Resolved => DefaultServerHasItsKeys
  BY OwnKeysFound
<1> QED BY <1>1, <1>2, StepResolved, TypeCorrect, PTL DEF Spec

==============================================================================
