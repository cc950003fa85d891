---------------------------- MODULE RequestPath ----------------------------
(***************************************************************************)
(* Client::join of src/src/client.rs: the path a caller names, resolved    *)
(* against the base URL, and the guards on the result.                     *)
(*                                                                         *)
(* The path is text, cut into the tokens URL resolution tells apart: the   *)
(* two separators, a tab (removed wherever it stands), a blank (trimmed in *)
(* front), "." and its escape, "user@", "http:" and "https:", and words,   *)
(* which are anything else.  A segment is a sequence of tokens, so ".." is *)
(* <<".", ".">>.  An origin is a scheme and a host.  Resolution itself is  *)
(* that of the URL standard, which the url crate follows.                  *)
(***************************************************************************)
EXTENDS Redirect, SequencesExt

Separators == {"/", "\\"}
Blanks == {" ", "tab"}
Dots == {".", "%2e"}
SchemeTokens == {"http:", "https:"}
Marks == Separators \cup Blanks \cup Dots \cup SchemeTokens \cup {"user@"}

SchemeName(token) == IF token = "https:" THEN "https" ELSE "http"

-----------------------------------------------------------------------------
(* URL resolution.                                                         *)

\* Blanks in front are trimmed, tabs removed anywhere.
Trimmed(ref) ==
  LET first == SelectInSeq(ref, LAMBDA t : t \notin Blanks)
  IN IF first = 0 THEN <<>> ELSE SubSeq(ref, first, Len(ref))
Tabless(ref) ==
  FlattenSeq([i \in DOMAIN ref |-> IF ref[i] = "tab" THEN <<>> ELSE <<ref[i]>>])
Cleaned(ref) == Tabless(Trimmed(ref))

\* How many separators a reference begins with, and what follows them.
Slashes(ref) ==
  LET first == SelectInSeq(ref, LAMBDA t : t \notin Separators)
  IN IF first = 0 THEN Len(ref) ELSE first - 1
AfterSlashes(ref) == SubSeq(ref, Slashes(ref) + 1, Len(ref))

\* A scheme ends at the first colon, if letters and dots only precede it.
SchemeEnd(ref) ==
  LET colon == SelectInSeq(ref, LAMBDA t : t \in SchemeTokens)
  IN IF \A i \in 1..(colon - 1) : ref[i] \notin Marks \ {"."} /\ ref[1] # "."
     THEN colon ELSE 0
HasScheme(ref) == SchemeEnd(ref) > 0
AfterScheme(ref) == SubSeq(ref, SchemeEnd(ref) + 1, Len(ref))

\* A separator begins a segment, any other token joins the last one.
AddToken(segments, t) ==
  IF t \in Separators THEN Append(segments, <<>>)
  ELSE Append(Front(segments), Append(Last(segments), t))
Segments(text) ==
  LET upTo[i \in 0..Len(text)] ==
        IF i = 0 THEN << <<>> >> ELSE AddToken(upTo[i - 1], text[i])
  IN upTo[Len(text)]

IsDot(segment) == Len(segment) = 1 /\ segment[1] \in Dots
IsDotDot(segment) ==
  Len(segment) = 2 /\ segment[1] \in Dots /\ segment[2] \in Dots

\* Dot segments are walked; one at the end leaves an empty segment.
Enter(path, segment) ==
  IF IsDot(segment) THEN path
  ELSE IF ~IsDotDot(segment) THEN Append(path, segment)
  ELSE IF path = <<>> THEN path ELSE Front(path)
Walk(start, segments) ==
  LET upTo[i \in 0..Len(segments)] ==
        IF i = 0 THEN start ELSE Enter(upTo[i - 1], segments[i])
      walked == upTo[Len(segments)]
      last == Last(segments)
  IN IF IsDot(last) \/ IsDotDot(last) THEN Append(walked, <<>>) ELSE walked

\* The path of a parsed URL: no segment is one or two dots, escaped or not.
Walked(path) ==
  /\ path \in Seq(Seq(STRING))
  /\ \A i \in DOMAIN path :
       Len(path[i]) \in {1, 2} => \E k \in DOMAIN path[i] : path[i][k] \notin Dots

Unparsable == [unparsable |-> TRUE]
UrlOf(origin, path) ==
  [origin |-> origin, userinfo |-> FALSE, path |-> path, web |-> TRUE]

\* host, with userinfo before it, then an absolute path; no host, no URL.
FromAuthority(scheme, text) ==
  LET stop == SelectInSeq(text, LAMBDA t : t \in Separators)
      authority == IF stop = 0 THEN text ELSE SubSeq(text, 1, stop - 1)
      path == IF stop = 0 THEN <<>> ELSE SubSeq(text, stop + 1, Len(text))
      at == SelectLastInSeq(authority, LAMBDA t : t = "user@")
      host == SubSeq(authority, at + 1, Len(authority))
  IN IF host = <<>> THEN Unparsable
     ELSE [origin |-> [scheme |-> scheme, host |-> host],
           userinfo |-> at > 0, path |-> Walk(<<>>, Segments(path)),
           web |-> TRUE]

\* A reference without a scheme, or with that of the base and less than two
\* separators after it.
Relative(base, ref) ==
  CASE ref = <<>> -> UrlOf(base.origin, Append(base.path, <<>>))
    [] ref # <<>> /\ Slashes(ref) = 0 ->
         UrlOf(base.origin, Walk(base.path, Segments(ref)))
    [] Slashes(ref) = 1 ->
         UrlOf(base.origin, Walk(<<>>, Segments(Tail(ref))))
    [] Slashes(ref) >= 2 -> FromAuthority(base.origin.scheme, AfterSlashes(ref))

\* A URL of another scheme, whatever its host.
Opaque ==
  [origin |-> [scheme |-> "other", host |-> <<>>],
   userinfo |-> FALSE, path |-> <<>>, web |-> FALSE]

Resolve(base, text) ==
  LET ref == Cleaned(text)
      rest == AfterScheme(ref)
      scheme == SchemeName(ref[SchemeEnd(ref)])
  IN CASE ~HasScheme(ref) -> Relative(base, ref)
       [] SchemeEnd(ref) > 1 -> Opaque
       [] SchemeEnd(ref) = 1 ->
            IF scheme = base.origin.scheme /\ Slashes(rest) < 2
            THEN Relative(base, rest)
            ELSE FromAuthority(scheme, AfterSlashes(rest))

-----------------------------------------------------------------------------
(* Client::join.                                                           *)

Base == [origin |-> BaseOrigin, path |-> BasePath]

\* RELATIVE_GUARD: a base that is no server, to see what a path itself adds.
RelativeGuard ==
  [origin |-> [scheme |-> "https", host |-> <<"ruoqa-guard.invalid">>],
   path |-> <<>>]

\* One leading slash means "relative to the base URL".
StripSlash(ref) == IF ref # <<>> /\ ref[1] = "/" THEN Tail(ref) ELSE ref

\* Variant: only the result is looked at, not the path that led to it.
AnyReference(ref) == "ok"

\* What the unstripped path contributes by itself.
OnGuard(url) ==
  IF url = Unparsable THEN "InvalidPath"
  ELSE IF url.origin # RelativeGuard.origin THEN "UnsupportedRequestUrl"
  ELSE "ok"
Contributes(ref) == OnGuard(Resolve(RelativeGuard, ref))

\* Variant: the path is appended to the base path as it is.
JoinByAppending(ref) ==
  [verdict |-> Contributes(ref),
   url |-> UrlOf(BaseOrigin, BasePath \o Segments(Cleaned(StripSlash(ref))))]

Verdict(ref, url) ==
  IF url = Unparsable THEN "InvalidPath"
  ELSE IF GuardRequestUrl(url) # "ok" THEN GuardRequestUrl(url)
  ELSE Contributes(ref)
Joined(ref, url) == [verdict |-> Verdict(ref, url), url |-> url]
Join(ref) == Joined(ref, Resolve(Base, StripSlash(ref)))

=============================================================================
