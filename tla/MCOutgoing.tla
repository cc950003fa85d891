----------------------------- MODULE MCOutgoing -----------------------------
(* Paths and queries for TLC.                                              *)
EXTENDS Outgoing

MCBaseOrigin == [scheme |-> "https", host |-> <<"host">>]
MCBasePath == << <<"openqa">> >>

Call(ref, query, body) == [ref |-> ref, query |-> query, body |-> body]

\* What a path may begin with: slashes, blanks, schemes, authorities.
Fronts ==
  {<<>>, <<"/">>, <<"\\">>, <<"/", "/">>, <<"/", "\\">>, <<"/", "tab", "/">>,
   <<" ", "/">>, <<"/", " ", "/">>, <<"/", " ", "/", "/">>, <<"/", "/", "/">>,
   <<"api", "https:">>}
  \cup {slash \o <<scheme>> \o slashes :
          slash \in {<<>>, <<"/">>}, scheme \in SchemeTokens,
          slashes \in {<<>>, <<"/">>, <<"/", "/">>}}
Authorities ==
  {<<>>, <<"host", "/">>, <<"user@", "host", "/">>, <<"other", "/">>,
   <<"ruoqa-guard.invalid", "/">>}
Tails ==
  BoundedSeq({"openqa", "api", "/", ".", "%2e"}, 3)
  \cup {<<"openqa">> \o t : t \in BoundedSeq({"/", ".", "api"}, 3)}

PathCalls ==
  {Call(front \o authority \o tail, NoQuery, "none") :
     front \in Fronts, authority \in Authorities, tail \in Tails}

Jobs == <<"/", "api">>

\* & = + % 2 6 b B ~ and a blank: escapes of each other, whole and cut off.
QueryBytes == {38, 61, 43, 37, 50, 54, 98, 126, 32}
QueryCalls ==
  {Call(Jobs, query, "none") : query \in BoundedSeq(QueryBytes, 3) \cap QueryTexts}
  \cup {Call(Jobs, <<97, 61>> \o query, body) :
          query \in BoundedSeq({37, 50, 54, 66}, 4), body \in {"json", "form"}}

\* A body that is no JSON, with a path that is good and with one that is not.
BodyCalls ==
  {Call(ref, NoQuery, "unserializable") : ref \in {Jobs, <<"https:">> \o Jobs}}

MCCalls == PathCalls \cup QueryCalls \cup BodyCalls

MCCallerSets ==
  {{"authorization"}, {"content-type", "user-agent"},
   {"x-api-key", "x-api-hash", "authorization"}}

MCCallerUrls ==
  {UrlOf([scheme |-> "https", host |-> <<h>>], path) :
     h \in {"host", "other"}, path \in {<< <<"openqa">>, <<"api">> >>, << <<"api">> >>}}

=============================================================================
