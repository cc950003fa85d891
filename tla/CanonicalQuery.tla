--------------------------- MODULE CanonicalQuery ---------------------------
(***************************************************************************)
(* canonical_query of src/src/auth.rs: a query as it is written, to the    *)
(* query that openQA's server makes of it before it verifies a signature.  *)
(* A query is a sequence of bytes, as in the code, so that what is decoded *)
(* and encoded again is decoded and encoded here.                          *)
(***************************************************************************)
EXTENDS Integers, Sequences, SequencesExt

Byte == 0..255
Space == 32
Percent == 37
Ampersand == 38
Plus == 43
Equals == 61
Digits == 48..57
Upper == 65..90
Lower == 97..122

\* hex_val, and the digits that {:02X} writes.
HexDigits == Digits \cup 65..70 \cup 97..102
HexVal(b) ==
  CASE b \in Digits -> b - 48
    [] b \in Upper  -> b - 55
    [] b \in Lower  -> b - 87
HexDigit(n) == IF n < 10 THEN 48 + n ELSE 55 + n
Escaped(b) == <<Percent, HexDigit(b \div 16), HexDigit(b % 16)>>

-----------------------------------------------------------------------------
\* Variant: an escape that ends the text is not one.
EscapeInside(raw, i) ==
  /\ raw[i] = Percent /\ i + 2 < Len(raw)
  /\ raw[i + 1] \in HexDigits /\ raw[i + 2] \in HexDigits

\* A percent sign and two hex digits; any other percent sign is itself.
Escape(raw, i) ==
  /\ raw[i] = Percent /\ i + 2 <= Len(raw)
  /\ raw[i + 1] \in HexDigits /\ raw[i + 2] \in HexDigits

\* encode_canonical, its first half: the bytes from position i on.
Decoded(raw) ==
  LET from[i \in 1..(Len(raw) + 1)] ==
        CASE i > Len(raw) -> <<>>
          [] i <= Len(raw) /\ raw[i] = Plus -> <<Space>> \o from[i + 1]
          [] i <= Len(raw) /\ Escape(raw, i) ->
               <<HexVal(raw[i + 1]) * 16 + HexVal(raw[i + 2])>> \o from[i + 3]
          [] OTHER -> <<raw[i]>> \o from[i + 1]
  IN from[1]

Unreserved == Digits \cup Upper \cup Lower \cup {42, 45, 46, 95}   \* * - . _

\* Variant: the tilde is left alone, as RFC 3986 would.
EncodedKeepingTilde(b) ==
  CASE b = Space -> <<Plus>>
    [] b \in Unreserved \cup {126} -> <<b>>
    [] OTHER -> Escaped(b)

\* encode_canonical, its second half, for one byte.
Encoded(b) ==
  CASE b = Space -> <<Plus>>
    [] b \in Unreserved -> <<b>>
    [] OTHER -> Escaped(b)

EncodeCanonical(raw) ==
  LET bytes == Decoded(raw)
  IN FlattenSeq([i \in DOMAIN bytes |-> Encoded(bytes[i])])

\* split('&'): an ampersand begins a piece, any other byte joins the last one.
Split(query) ==
  LET upTo[i \in 0..Len(query)] ==
        IF i = 0 THEN << <<>> >>
        ELSE LET before == upTo[i - 1]
             IN IF query[i] = Ampersand THEN Append(before, <<>>)
                ELSE Append(Front(before), Append(Last(before), query[i]))
  IN upTo[Len(query)]

\* Empty pieces are dropped.
Kept(pieces) ==
  FlattenSeq([i \in DOMAIN pieces |-> IF pieces[i] = <<>> THEN <<>> ELSE <<pieces[i]>>])
Pieces(query) == Kept(Split(query))

\* A piece is split at its first '='; a bare name has an empty value.
CanonicalPiece(piece) ==
  LET at == SelectInSeq(piece, LAMBDA b : b = Equals)
      name == IF at = 0 THEN piece ELSE SubSeq(piece, 1, at - 1)
      value == IF at = 0 THEN <<>> ELSE SubSeq(piece, at + 1, Len(piece))
  IN EncodeCanonical(name) \o <<Equals>> \o EncodeCanonical(value)

JoinPieces(pieces) ==
  LET upTo[i \in 0..Len(pieces)] ==
        IF i = 0 THEN <<>>
        ELSE LET out == upTo[i - 1]
             IN IF out = <<>> THEN pieces[i] ELSE out \o <<Ampersand>> \o pieces[i]
  IN upTo[Len(pieces)]

CanonicalQuery(query) ==
  LET pieces == Pieces(query)
  IN JoinPieces([i \in DOMAIN pieces |-> CanonicalPiece(pieces[i])])

-----------------------------------------------------------------------------
(* The server (Mojo::Parameters), and the url crate's own escaping.  These *)
(* are written from the positions of a query and share nothing with the    *)
(* definitions above but the bytes, as src/tests/signing_wire.rs does it.  *)

\* Percent signs are no hex digits, so escapes never overlap.
EscapeAt(raw, i) ==
  /\ i \in 1..(Len(raw) - 2)
  /\ raw[i] = Percent /\ {raw[i + 1], raw[i + 2]} \subseteq HexDigits

DecodedAt(raw, i) ==
  CASE EscapeAt(raw, i) -> <<16 * HexVal(raw[i + 1]) + HexVal(raw[i + 2])>>
    [] EscapeAt(raw, i - 1) \/ EscapeAt(raw, i - 2) -> <<>>
    [] OTHER -> <<IF raw[i] = Plus THEN Space ELSE raw[i]>>
ServerDecoded(raw) == FlattenSeq([i \in DOMAIN raw |-> DecodedAt(raw, i)])

ServerByte(b) ==
  IF b \in 48..57 \cup 65..90 \cup 97..122 \cup {42, 45, 46, 95} THEN <<b>>
  ELSE IF b = Space THEN <<Plus>> ELSE Escaped(b)
ServerEncoded(raw) == FlattenSeq([i \in DOMAIN raw |-> ServerByte(raw[i])])

\* Where a stretch between ampersands starts, and where it ends.
StartsAt(query, i) ==
  query[i] # Ampersand /\ (i = 1 \/ query[i - 1] = Ampersand)
EndOf(query, i) ==
  CHOOSE j \in i..Len(query) :
    /\ \A k \in i..j : query[k] # Ampersand
    /\ j = Len(query) \/ query[j + 1] = Ampersand

ServerPieces(query) ==
  FlattenSeq([i \in DOMAIN query |->
    IF StartsAt(query, i) THEN <<SubSeq(query, i, EndOf(query, i))>> ELSE <<>>])

\* A name goes up to the first '=', a value from there to the end.
NameLength(piece) ==
  CHOOSE n \in 0..Len(piece) :
    /\ \A k \in 1..n : piece[k] # Equals
    /\ n = Len(piece) \/ piece[n + 1] = Equals
ServerPair(piece) ==
  LET n == NameLength(piece)
  IN <<ServerDecoded(SubSeq(piece, 1, n)),
       ServerDecoded(SubSeq(piece, n + 2, Len(piece)))>>

\* The names and values a query carries, in order.
ServerPairs(query) ==
  LET pieces == ServerPieces(query)
  IN [i \in DOMAIN pieces |-> ServerPair(pieces[i])]

\* The query the server hashes.
Written(pair) ==
  ServerEncoded(pair[1]) \o <<Equals>> \o ServerEncoded(pair[2])
ServerQuery(query) ==
  LET pairs == ServerPairs(query)
  IN FlattenSeq([i \in DOMAIN pairs |->
       (IF i = 1 THEN <<>> ELSE <<Ampersand>>) \o Written(pairs[i])])

\* A query as it stands in a path: Url::join has removed tabs and line ends,
\* controls and spaces at the end, and the fragment.
QueryTexts ==
  {q \in Seq(Byte \ {9, 10, 13, 35}) : q = <<>> \/ q[Len(q)] > Space}

\* It escapes what may not stand in a query: controls and space, quotes, angle
\* brackets, and every byte beyond ASCII.
ParsedByte(b) ==
  IF b \in 0..32 \cup {34, 39, 60, 62} \cup 127..255 THEN Escaped(b) ELSE <<b>>
ParsedQuery(text) == FlattenSeq([i \in DOMAIN text |-> ParsedByte(text[i])])

=============================================================================
