--------------------------- MODULE OutgoingProofs ----------------------------
(* What leaves a client, for every base URL, path, query, header and URL a *)
(* caller may name: that the canonical query is the one the server makes   *)
(* of the request it gets, and carries what the caller wrote; that a path  *)
(* has no dots left when the guards look at it, and means what it says;    *)
(* and that what is sent is the guarded request with the right headers.    *)
EXTENDS Outgoing, Induction

-----------------------------------------------------------------------------
(* Decoding and encoding.                                                  *)

\* Hex digits and their values.
LEMMA HexTyped ==
  /\ \A b \in HexDigits : HexVal(b) \in 0..15 /\ b \in Byte
  /\ \A n \in 0..15 : HexDigit(n) \in HexDigits /\ HexVal(HexDigit(n)) = n
BY DEF HexDigits, HexVal, HexDigit, Digits, Upper, Lower, Byte

\* The three bytes of an escape, and what its digits stand for.
LEMMA EscapedParts ==
  ASSUME NEW b \in Byte
  PROVE  /\ Escaped(b) = <<Percent, HexDigit(b \div 16), HexDigit(b % 16)>>
         /\ HexDigit(b \div 16) \in HexDigits /\ HexDigit(b % 16) \in HexDigits
         /\ 16 * HexVal(HexDigit(b \div 16)) + HexVal(HexDigit(b % 16)) = b
         /\ Escaped(b) \in Seq(Byte)
<1>1. b \div 16 \in 0..15 /\ b % 16 \in 0..15 /\ 16 * (b \div 16) + (b % 16) = b
  BY DEF Byte
<1>2. Percent \in Byte
  BY DEF Percent, Byte
<1>3. HexDigit(b \div 16) \in Byte /\ HexDigit(b % 16) \in Byte
  BY <1>1, HexTyped
<1> QED BY <1>1, <1>2, <1>3, HexTyped DEF Escaped

\* Each position decodes to bytes.
LEMMA DecodedAtTyped ==
  ASSUME NEW raw \in Seq(Byte), NEW i \in DOMAIN raw
  PROVE  DecodedAt(raw, i) \in Seq(Byte)
<1>1. CASE EscapeAt(raw, i)
  <2>1. HexVal(raw[i + 1]) \in 0..15 /\ HexVal(raw[i + 2]) \in 0..15
    BY <1>1, HexTyped DEF EscapeAt
  <2>2. \A x, y \in 0..15 : 16 * x + y \in Byte
    BY DEF Byte
  <2>3. 16 * HexVal(raw[i + 1]) + HexVal(raw[i + 2]) \in Byte
    BY <2>1, <2>2
  <2> QED BY <1>1, <2>3 DEF DecodedAt
<1>2. CASE ~EscapeAt(raw, i) /\ (EscapeAt(raw, i - 1) \/ EscapeAt(raw, i - 2))
  BY <1>2 DEF DecodedAt
<1>3. CASE ~EscapeAt(raw, i) /\ ~EscapeAt(raw, i - 1) /\ ~EscapeAt(raw, i - 2)
  <2>1. raw[i] \in Byte
    OBVIOUS
  <2>2. Space \in Byte
    BY DEF Space, Byte
  <2> QED BY <1>3, <2>1, <2>2 DEF DecodedAt
<1> QED BY <1>1, <1>2, <1>3

\* Each byte is parsed to bytes.
LEMMA ParsedByteTyped == \A b \in Byte : ParsedByte(b) \in Seq(Byte)
BY EscapedParts DEF ParsedByte

\* No escape reaches from the first text into the second.
Apart(c, u) == ~EscapeAt(c \o u, Len(c)) /\ ~EscapeAt(c \o u, Len(c) - 1)

\* Where no escape reaches across, the escapes of two texts are those of
\* each.
LEMMA EscapesApart ==
  ASSUME NEW c \in Seq(Byte), NEW u \in Seq(Byte), Apart(c, u)
  PROVE  /\ \A i \in 1..Len(c) : EscapeAt(c \o u, i) <=> EscapeAt(c, i)
         /\ \A i \in Int : i > 0 => (EscapeAt(c \o u, Len(c) + i) <=> EscapeAt(u, i))
         /\ \A i \in Int : i <= 0 => ~EscapeAt(c, i) /\ ~EscapeAt(u, i)
         /\ \A i \in Int : i <= 0 => ~EscapeAt(c \o u, i)
         /\ \A i \in {-1, 0} : ~EscapeAt(c \o u, Len(c) + i)
<1>1. /\ c \o u \in Seq(Byte) /\ Len(c \o u) = Len(c) + Len(u)
      /\ Len(c) \in Nat /\ Len(u) \in Nat
      /\ \A i \in 1..Len(c) : (c \o u)[i] = c[i]
      /\ \A i \in 1..Len(u) : (c \o u)[Len(c) + i] = u[i]
  OBVIOUS
<1> DEFINE q == c \o u
<1> HIDE DEF q
<1>2. ASSUME NEW i \in 1..Len(c) PROVE EscapeAt(q, i) <=> EscapeAt(c, i)
  <2>1. CASE i + 2 <= Len(c)
    <3>1. i \in 1..(Len(q) - 2) /\ i \in 1..(Len(c) - 2)
          /\ i + 1 \in 1..Len(c) /\ i + 2 \in 1..Len(c)
      BY <1>1, <2>1 DEF q
    <3> QED BY <1>1, <3>1 DEF EscapeAt, q
  <2>2. CASE i + 2 > Len(c)
    <3>1. i = Len(c) \/ i = Len(c) - 1
      BY <1>1, <2>2
    <3>2. ~EscapeAt(c, i)
      BY <1>1, <2>2 DEF EscapeAt
    <3> QED BY <3>1, <3>2 DEF Apart, q
  <2> QED BY <1>1, <2>1, <2>2
<1>3. ASSUME NEW i \in Int, i > 0 PROVE EscapeAt(q, Len(c) + i) <=> EscapeAt(u, i)
  <2>1. CASE i + 2 <= Len(u)
    <3>1. Len(c) + i \in 1..(Len(q) - 2) /\ i \in 1..(Len(u) - 2)
          /\ i \in 1..Len(u) /\ i + 1 \in 1..Len(u) /\ i + 2 \in 1..Len(u)
          /\ Len(c) + i + 1 = Len(c) + (i + 1) /\ Len(c) + i + 2 = Len(c) + (i + 2)
      BY <1>1, <1>3, <2>1 DEF q
    <3> QED BY <1>1, <3>1 DEF EscapeAt, q
  <2>2. CASE i + 2 > Len(u)
    BY <1>1, <2>2 DEF EscapeAt, q
  <2> QED BY <1>1, <2>1, <2>2
<1>4. ASSUME NEW i \in Int, i <= 0 PROVE ~EscapeAt(c, i) /\ ~EscapeAt(u, i) /\ ~EscapeAt(q, i)
  BY <1>1, <1>4 DEF EscapeAt
<1>5. \A i \in {-1, 0} : ~EscapeAt(q, Len(c) + i)
  BY <1>1 DEF Apart, q
<1> QED BY <1>2, <1>3, <1>4, <1>5 DEF q

\* The three cases of a position.
LEMMA DecodedCases ==
  ASSUME NEW raw, NEW i \in Int
  PROVE  /\ EscapeAt(raw, i) =>
              DecodedAt(raw, i) = <<16 * HexVal(raw[i + 1]) + HexVal(raw[i + 2])>>
         /\ ~EscapeAt(raw, i) /\ (EscapeAt(raw, i - 1) \/ EscapeAt(raw, i - 2)) =>
              DecodedAt(raw, i) = <<>>
         /\ ~EscapeAt(raw, i) /\ ~EscapeAt(raw, i - 1) /\ ~EscapeAt(raw, i - 2) =>
              DecodedAt(raw, i) = <<IF raw[i] = Plus THEN Space ELSE raw[i]>>
<1>1. CASE EscapeAt(raw, i)
  <2>1. raw[i] \notin HexDigits
    BY <1>1 DEF EscapeAt, HexDigits, Digits, Percent
  <2>2. (i - 1) + 1 = i /\ (i - 2) + 2 = i
    OBVIOUS
  <2>3. ~EscapeAt(raw, i - 1) /\ ~EscapeAt(raw, i - 2)
    BY <2>1, <2>2 DEF EscapeAt
  <2> QED BY <1>1, <2>3 DEF DecodedAt
<1>2. CASE ~EscapeAt(raw, i) /\ (EscapeAt(raw, i - 1) \/ EscapeAt(raw, i - 2))
  BY <1>2 DEF DecodedAt
<1>3. CASE ~EscapeAt(raw, i) /\ ~EscapeAt(raw, i - 1) /\ ~EscapeAt(raw, i - 2)
  BY <1>3 DEF DecodedAt
<1> QED BY <1>1, <1>2, <1>3

\* Two positions, each of a text, that decode to the same.
Alike(v, i, w, j) ==
  /\ EscapeAt(v, i) <=> EscapeAt(w, j)
  /\ EscapeAt(v, i - 1) <=> EscapeAt(w, j - 1)
  /\ EscapeAt(v, i - 2) <=> EscapeAt(w, j - 2)
  /\ v[i] = w[j]
  /\ EscapeAt(w, j) => v[i + 1] = w[j + 1] /\ v[i + 2] = w[j + 2]

\* A byte is decoded alike in two texts that read alike around it.
LEMMA DecodedAlike ==
  ASSUME NEW v, NEW w, NEW i \in Int, NEW j \in Int, Alike(v, i, w, j)
  PROVE  DecodedAt(v, i) = DecodedAt(w, j)
<1> USE DEF Alike
<1>1. CASE EscapeAt(w, j)
  BY <1>1, DecodedCases
<1>2. CASE ~EscapeAt(w, j) /\ (EscapeAt(w, j - 1) \/ EscapeAt(w, j - 2))
  BY <1>2, DecodedCases
<1>3. CASE ~EscapeAt(w, j) /\ ~EscapeAt(w, j - 1) /\ ~EscapeAt(w, j - 2)
  BY <1>3, DecodedCases
<1> QED BY <1>1, <1>2, <1>3

\* Texts that no escape connects are decoded one after the other.
LEMMA DecodedApart ==
  ASSUME NEW c \in Seq(Byte), NEW u \in Seq(Byte), Apart(c, u)
  PROVE  ServerDecoded(c \o u) = ServerDecoded(c) \o ServerDecoded(u)
<1> DEFINE q == c \o u
           n == Len(c)
           m == Len(u)
<1>1. /\ q \in Seq(Byte) /\ Len(q) = n + m /\ n \in Nat /\ m \in Nat
      /\ DOMAIN c = 1..n /\ DOMAIN u = 1..m /\ DOMAIN q = 1..(n + m)
      /\ \A i \in 1..n : q[i] = c[i]
      /\ \A i \in 1..m : q[n + i] = u[i]
  OBVIOUS
<1>2. /\ \A i \in 1..n : EscapeAt(q, i) <=> EscapeAt(c, i)
      /\ \A i \in Int : i > 0 => (EscapeAt(q, n + i) <=> EscapeAt(u, i))
      /\ \A i \in Int : i <= 0 => ~EscapeAt(c, i) /\ ~EscapeAt(u, i)
      /\ \A i \in Int : i <= 0 => ~EscapeAt(q, i)
      /\ \A i \in {-1, 0} : ~EscapeAt(q, n + i)
  BY EscapesApart
<1>3. \A i \in 1..n : EscapeAt(c, i) => i + 1 \in 1..n /\ i + 2 \in 1..n
  BY <1>1 DEF EscapeAt
<1>4. \A i \in 1..m : EscapeAt(u, i) => i + 1 \in 1..m /\ i + 2 \in 1..m
  BY <1>1 DEF EscapeAt
<1> HIDE DEF q, n, m
<1>5. ASSUME NEW i \in 1..n PROVE DecodedAt(q, i) = DecodedAt(c, i)
  <2>1. \A k \in {i, i - 1, i - 2} : k \in Int /\ (k \in 1..n \/ k <= 0)
    BY <1>1
  <2>2. \A k \in {i, i - 1, i - 2} : EscapeAt(q, k) <=> EscapeAt(c, k)
    BY <1>2, <2>1
  <2>3. q[i] = c[i]
    BY <1>1
  <2>4. EscapeAt(c, i) => q[i + 1] = c[i + 1] /\ q[i + 2] = c[i + 2]
    BY <1>1, <1>3
  <2>5. i \in Int
    BY <1>1
  <2>6. Alike(q, i, c, i)
    BY <2>2, <2>3, <2>4 DEF Alike
  <2> QED BY <2>5, <2>6, DecodedAlike
<1>6. ASSUME NEW i \in 1..m PROVE DecodedAt(q, n + i) = DecodedAt(u, i)
  <2>1. (n + i) - 1 = n + (i - 1) /\ (n + i) - 2 = n + (i - 2)
        /\ i \in Int /\ i - 1 \in Int /\ i - 2 \in Int /\ n + i \in Int
        /\ n + i + 1 = n + (i + 1) /\ n + i + 2 = n + (i + 2)
    BY <1>1
  <2>2. EscapeAt(q, n + i) <=> EscapeAt(u, i)
    BY <1>2, <2>1
  <2>3. EscapeAt(q, (n + i) - 1) <=> EscapeAt(u, i - 1)
    <3>1. CASE i = 1
      <4>1. i - 1 = 0 /\ 0 \in {-1, 0} /\ 0 \in Int
        BY <3>1
      <4> QED BY <1>2, <2>1, <4>1
    <3>2. CASE i > 1
      BY <1>2, <2>1, <3>2
    <3> QED BY <3>1, <3>2
  <2>4. EscapeAt(q, (n + i) - 2) <=> EscapeAt(u, i - 2)
    <3>1. CASE i \in {1, 2}
      <4>1. i - 2 \in {-1, 0} /\ i - 2 <= 0
        BY <3>1
      <4> QED BY <1>2, <2>1, <4>1
    <3>2. CASE i > 2
      BY <1>2, <2>1, <3>2
    <3> QED BY <3>1, <3>2
  <2>5. q[n + i] = u[i]
    BY <1>1
  <2>6. EscapeAt(u, i) => q[(n + i) + 1] = u[i + 1] /\ q[(n + i) + 2] = u[i + 2]
    BY <1>1, <1>4, <2>1
  <2>7. Alike(q, n + i, u, i)
    BY <2>1, <2>2, <2>3, <2>4, <2>5, <2>6 DEF Alike
  <2> QED BY <2>1, <2>7, DecodedAlike
<1> DEFINE f == [i \in 1..n |-> DecodedAt(c, i)]
           g == [i \in 1..m |-> DecodedAt(u, i)]
           h == [i \in 1..(n + m) |-> DecodedAt(q, i)]
<1>7. f \in [1..n -> Seq(Byte)] /\ g \in [1..m -> Seq(Byte)]
      /\ h \in [1..(n + m) -> Seq(Byte)]
  BY <1>1, DecodedAtTyped
<1>8. (\A i \in 1..n : h[i] = f[i]) /\ (\A i \in 1..m : h[n + i] = g[i])
  BY <1>1, <1>5, <1>6
<1>9. ServerDecoded(c) = FlattenSeq(f) /\ ServerDecoded(u) = FlattenSeq(g)
      /\ ServerDecoded(q) = FlattenSeq(h)
  BY <1>1 DEF ServerDecoded
<1> HIDE DEF f, g, h
<1>10. FlattenSeq(h) = FlattenSeq(f) \o FlattenSeq(g)
  <2>1. Joins(Byte, n, m, f, g, h)
    BY <1>1, <1>7, <1>8 DEF Joins
  <2> QED BY <2>1, FlattenParts
<1> QED BY <1>9, <1>10 DEF q

\* Nothing decodes to nothing.
LEMMA DecodedEmpty == ServerDecoded(<<>>) = <<>>
<1>1. [i \in DOMAIN <<>> |-> DecodedAt(<<>>, i)] = <<>>
  OBVIOUS
<1> QED BY <1>1, FlattenEmpty DEF ServerDecoded

\* A text of bytes decodes to bytes.
LEMMA DecodedTyped ==
  ASSUME NEW raw \in Seq(Byte)
  PROVE  ServerDecoded(raw) \in Seq(Byte)
<1> DEFINE f == [i \in DOMAIN raw |-> DecodedAt(raw, i)]
<1>1. f \in [1..Len(raw) -> Seq(Byte)] /\ Len(raw) \in Nat
  BY DecodedAtTyped
<1> HIDE DEF f
<1>2. f \in Seq(Seq(Byte))
  BY <1>1, MapIsSeq
<1>3. FlattenSeq(f) \in Seq(Byte)
  BY <1>2, FlattenTyped
<1> QED BY <1>3 DEF ServerDecoded, f

\* A single byte is no escape.
LEMMA DecodedByte ==
  ASSUME NEW b \in Byte
  PROVE  ServerDecoded(<<b>>) = <<IF b = Plus THEN Space ELSE b>>
<1> DEFINE c == <<b>>
           d == <<IF b = Plus THEN Space ELSE b>>
<1>1. d \in Seq(Byte)
  BY DEF Space, Byte
<1>2. \A i \in Int : ~EscapeAt(c, i)
  BY DEF EscapeAt
<1>3. DecodedAt(c, 1) = d
  <2>1. c[1] = b
    OBVIOUS
  <2>2. ~EscapeAt(c, 1) /\ ~EscapeAt(c, 1 - 1) /\ ~EscapeAt(c, 1 - 2)
    BY <1>2
  <2> QED BY <2>1, <2>2, DecodedCases
<1>4. [i \in DOMAIN c |-> DecodedAt(c, i)] = <<d>>
  <2>1. DOMAIN c = 1..1
    OBVIOUS
  <2>2. \A i \in 1..1 : i = 1
    OBVIOUS
  <2> HIDE DEF c, d
  <2>3. [i \in 1..1 |-> DecodedAt(c, i)] = [i \in 1..1 |-> d]
    BY <1>3, <2>2
  <2>4. [i \in 1..1 |-> d] = <<d>>
    OBVIOUS
  <2> QED BY <2>1, <2>3, <2>4
<1> HIDE DEF c, d
<1>5. FlattenSeq(<<d>>) = d
  BY <1>1, FlattenOne
<1>6. ServerDecoded(c) = d
  BY <1>4, <1>5 DEF ServerDecoded
<1> QED BY <1>6 DEF c, d

\* An escape decodes to the byte its digits stand for.
LEMMA DecodedEscape ==
  ASSUME NEW x \in HexDigits, NEW y \in HexDigits
  PROVE  ServerDecoded(<<Percent, x, y>>) = <<16 * HexVal(x) + HexVal(y)>>
<1> DEFINE c == <<Percent, x, y>>
           d == <<16 * HexVal(x) + HexVal(y)>>
<1>1. d \in Seq(Byte)
  <2>1. \A a, b \in 0..15 : 16 * a + b \in Byte
    BY DEF Byte
  <2>2. 16 * HexVal(x) + HexVal(y) \in Byte
    BY <2>1, HexTyped
  <2> QED BY <2>2
<1>2. /\ EscapeAt(c, 1)
      /\ \A i \in Int : i # 1 => ~EscapeAt(c, i)
      /\ c[1] = Percent /\ c[2] = x /\ c[3] = y /\ DOMAIN c = 1..3 /\ c \in Seq(Byte)
  BY HexTyped DEF EscapeAt, Byte, Percent
<1> HIDE DEF c
<1>3. DecodedAt(c, 1) = d /\ DecodedAt(c, 2) = <<>> /\ DecodedAt(c, 3) = <<>>
  <2>1. DecodedAt(c, 1) = <<16 * HexVal(c[1 + 1]) + HexVal(c[1 + 2])>>
    BY <1>2, DecodedCases
  <2>2. ~EscapeAt(c, 2) /\ EscapeAt(c, 2 - 1) /\ ~EscapeAt(c, 3) /\ EscapeAt(c, 3 - 2)
    BY <1>2
  <2> QED BY <1>2, <2>1, <2>2, DecodedCases
<1> HIDE DEF d
<1>4. [i \in DOMAIN c |-> DecodedAt(c, i)] = <<d, <<>>, <<>>>>
  <2>1. \A i \in 1..3 : i = 1 \/ i = 2 \/ i = 3
    OBVIOUS
  <2> DEFINE t == <<d, <<>>, <<>>>>
             u == [i \in 1..3 |-> DecodedAt(c, i)]
  <2>2. t = [i \in 1..3 |-> t[i]] /\ t[1] = d /\ t[2] = <<>> /\ t[3] = <<>>
    OBVIOUS
  <2> HIDE DEF t
  <2>3. \A i \in 1..3 : DecodedAt(c, i) = t[i]
    BY <1>3, <2>1, <2>2
  <2>4. u = [i \in 1..3 |-> t[i]]
    BY <2>3
  <2>5. [i \in DOMAIN c |-> DecodedAt(c, i)] = u
    BY <1>2
  <2>6. u = t
    BY <2>2, <2>4
  <2> QED BY <2>5, <2>6 DEF t
<1>5. FlattenSeq(<<d, <<>>, <<>>>>) = d
  <2>1. <<d>> \in Seq(Seq(Byte)) /\ <<>> \in Seq(Byte) /\ <<d, <<>>>> \in Seq(Seq(Byte))
    BY <1>1
  <2>2. Append(<<d>>, <<>>) = <<d, <<>>>> /\ Append(<<d, <<>>>>, <<>>) = <<d, <<>>, <<>>>>
    BY AppendTuple
  <2>3. FlattenSeq(<<d>>) = d
    BY <1>1, FlattenOne
  <2>4. d \o <<>> = d
    BY <1>1
  <2>5. FlattenSeq(<<d, <<>>>>) = d
    BY <2>1, <2>2, <2>3, <2>4, FlattenAppend
  <2> QED BY <2>1, <2>2, <2>4, <2>5, FlattenAppend
<1>6. ServerDecoded(c) = d
  BY <1>4, <1>5 DEF ServerDecoded
<1> QED BY <1>6 DEF c, d

\* The first byte, where no escape stands.
LEMMA DecodedFirst ==
  ASSUME NEW raw \in Seq(Byte), raw # <<>>, ~EscapeAt(raw, 1)
  PROVE  ServerDecoded(raw)
           = <<IF raw[1] = Plus THEN Space ELSE raw[1]>> \o ServerDecoded(Tail(raw))
<1> DEFINE c == <<raw[1]>>
           u == Tail(raw)
<1>1. raw[1] \in Byte /\ c \in Seq(Byte) /\ u \in Seq(Byte) /\ Len(c) = 1
  OBVIOUS
<1>2. raw = c \o u
  OBVIOUS
<1> HIDE DEF c, u
<1>3. Apart(c, u)
  <2>1. ~EscapeAt(c \o u, 0)
    BY DEF EscapeAt
  <2> QED BY <1>1, <1>2, <2>1 DEF Apart
<1>4. ServerDecoded(raw) = ServerDecoded(c) \o ServerDecoded(u)
  BY <1>1, <1>2, <1>3, DecodedApart
<1>5. ServerDecoded(c) = <<IF raw[1] = Plus THEN Space ELSE raw[1]>>
  BY <1>1, DecodedByte DEF c
<1> QED BY <1>4, <1>5 DEF u

\* An escape that the text begins with.
LEMMA DecodedFirstEscape ==
  ASSUME NEW x \in HexDigits, NEW y \in HexDigits, NEW u \in Seq(Byte)
  PROVE  ServerDecoded(<<Percent, x, y>> \o u)
           = <<16 * HexVal(x) + HexVal(y)>> \o ServerDecoded(u)
<1> DEFINE c == <<Percent, x, y>>
<1>1. c \in Seq(Byte) /\ Len(c) = 3 /\ c[2] = x /\ c[3] = y
  BY HexTyped DEF Percent, Byte
<1>2. x # Percent /\ y # Percent
  BY DEF HexDigits, Digits, Percent
<1>3. ServerDecoded(c) = <<16 * HexVal(x) + HexVal(y)>>
  BY DecodedEscape
<1> HIDE DEF c
<1>4. (c \o u)[2] = x /\ (c \o u)[3] = y
  <2>1. \A i \in 1..Len(c) : (c \o u)[i] = c[i]
    BY <1>1, Concats
  <2>2. 2 \in 1..Len(c) /\ 3 \in 1..Len(c)
    BY <1>1
  <2> QED BY <1>1, <2>1, <2>2
<1>5. Apart(c, u)
  BY <1>1, <1>2, <1>4 DEF Apart, EscapeAt
<1>6. ServerDecoded(c \o u) = ServerDecoded(c) \o ServerDecoded(u)
  BY <1>1, <1>5, DecodedApart
<1> QED BY <1>3, <1>6 DEF c

\* A text that begins with an escape, cut behind it.
LEMMA EscapeAndRest ==
  ASSUME NEW raw \in Seq(Byte), EscapeAt(raw, 1)
  PROVE  /\ raw[2] \in HexDigits /\ raw[3] \in HexDigits
         /\ SubSeq(raw, 4, Len(raw)) \in Seq(Byte)
         /\ Len(SubSeq(raw, 4, Len(raw))) = Len(raw) - 3
         /\ raw = <<Percent, raw[2], raw[3]>> \o SubSeq(raw, 4, Len(raw))
<1> DEFINE u == SubSeq(raw, 4, Len(raw))
<1>1. /\ Len(raw) >= 3 /\ raw[1] = Percent /\ raw[2] \in HexDigits /\ raw[3] \in HexDigits
      /\ Len(raw) \in Nat
  BY DEF EscapeAt
<1>2. u \in Seq(Byte) /\ Len(u) = Len(raw) - 3 /\ \A i \in 1..Len(u) : u[i] = raw[i + 3]
  <2>1. 4 \in 1..(Len(raw) + 1) /\ Len(raw) - 4 + 1 = Len(raw) - 3
    BY <1>1
  <2>2. \A i \in 1..(Len(raw) - 3) : 4 + i - 1 = i + 3
    BY <1>1
  <2> QED BY <2>1, <2>2, Suffix
<1> DEFINE c == <<Percent, raw[2], raw[3]>>
<1>3. c \in Seq(Byte) /\ Len(c) = 3 /\ c[1] = Percent /\ c[2] = raw[2] /\ c[3] = raw[3]
  BY <1>1, HexTyped DEF Percent, Byte
<1> HIDE DEF c, u
<1>4. raw = c \o u
  <2>1. /\ c \o u \in Seq(Byte) /\ Len(c \o u) = Len(raw)
        /\ \A i \in 1..3 : (c \o u)[i] = c[i]
        /\ \A i \in 1..Len(u) : (c \o u)[3 + i] = u[i]
    <3>0. c \in Seq(Byte) /\ u \in Seq(Byte)
      BY <1>2, <1>3
    <3>1. /\ c \o u \in Seq(Byte) /\ Len(c \o u) = Len(c) + Len(u)
          /\ \A i \in 1..Len(c) : (c \o u)[i] = c[i]
          /\ \A i \in 1..Len(u) : (c \o u)[Len(c) + i] = u[i]
      BY <3>0, Concats
    <3> QED BY <1>1, <1>2, <1>3, <3>1
  <2>2. ASSUME NEW i \in 1..Len(raw) PROVE (c \o u)[i] = raw[i]
    <3>1. CASE i \in 1..3
      <4>1. i = 1 \/ i = 2 \/ i = 3
        BY <3>1
      <4> QED BY <1>1, <1>3, <2>1, <3>1, <4>1
    <3>2. CASE i > 3
      <4>1. i - 3 \in 1..Len(u) /\ 3 + (i - 3) = i /\ (i - 3) + 3 = i
        BY <1>1, <1>2, <3>2
      <4>2. u[i - 3] = raw[(i - 3) + 3]
        BY <1>2, <4>1
      <4>3. (c \o u)[3 + (i - 3)] = u[i - 3]
        BY <2>1, <4>1
      <4>4. (c \o u)[i] = u[i - 3] /\ u[i - 3] = raw[i]
        BY <4>1, <4>2, <4>3
      <4> QED BY <4>4
    <3>3. i \in Nat /\ (i \in 1..3 \/ i > 3)
      BY <1>1
    <3> QED BY <3>1, <3>2, <3>3
  <2> DEFINE cu == c \o u
  <2> HIDE DEF cu
  <2>3. cu \in Seq(Byte) /\ Len(cu) = Len(raw) /\ \A i \in 1..Len(raw) : cu[i] = raw[i]
    BY <2>1, <2>2 DEF cu
  <2>4. raw = cu
    BY <2>3, SeqEqual
  <2> QED BY <2>4 DEF cu
<1> QED BY <1>1, <1>2, <1>4 DEF c, u

\* An escape in front is decoded, and the rest after it.
LEMMA DecodedSkips ==
  ASSUME NEW raw \in Seq(Byte), EscapeAt(raw, 1)
  PROVE  ServerDecoded(raw)
           = <<16 * HexVal(raw[2]) + HexVal(raw[3])>> \o ServerDecoded(SubSeq(raw, 4, Len(raw)))
<1> DEFINE x == raw[2]
           y == raw[3]
           u == SubSeq(raw, 4, Len(raw))
<1>1. x \in HexDigits /\ y \in HexDigits /\ u \in Seq(Byte) /\ raw = <<Percent, x, y>> \o u
  BY EscapeAndRest
<1> HIDE DEF x, y, u
<1>2. ServerDecoded(<<Percent, x, y>> \o u) = <<16 * HexVal(x) + HexVal(y)>> \o ServerDecoded(u)
  BY <1>1, DecodedFirstEscape
<1>3. ServerDecoded(raw) = <<16 * HexVal(x) + HexVal(y)>> \o ServerDecoded(u)
  BY <1>1, <1>2
<1> QED BY <1>3 DEF x, y, u

\* One step of Decoded, from what the bytes after this one and after the
\* escape give.
DecodeStep(raw, i, afterOne, afterEscape) ==
  CASE i > Len(raw) -> <<>>
    [] i <= Len(raw) /\ raw[i] = Plus -> <<Space>> \o afterOne
    [] i <= Len(raw) /\ Escape(raw, i) ->
         <<HexVal(raw[i + 1]) * 16 + HexVal(raw[i + 2])>> \o afterEscape
    [] OTHER -> <<raw[i]>> \o afterOne

Rest(raw, i) == ServerDecoded(SubSeq(raw, i, Len(raw)))

\* What is decoded from position i on is the decoding of the rest of the text.
LEMMA DecodedFrom ==
  ASSUME NEW raw \in Seq(Byte), NEW i \in 1..(Len(raw) + 1)
  PROVE  Rest(raw, i) = DecodeStep(raw, i, Rest(raw, i + 1), Rest(raw, i + 3))
<1> USE DEF DecodeStep, Rest
<1> DEFINE suffix(k) == SubSeq(raw, k, Len(raw))
           s == suffix(i)
           N == Len(raw)
<1>1. N \in Nat /\ i \in 1..(N + 1) /\ DOMAIN raw = 1..N
  OBVIOUS
<1>2. s \in Seq(Byte) /\ Len(s) = N - i + 1 /\ \A k \in 1..(N - i + 1) : s[k] = raw[i + k - 1]
  BY Suffix
<1>3. CASE i > N
  <2>1. s = <<>>
    BY <1>1, <1>2, <1>3, EmptySeq
  <2>2. ServerDecoded(s) = <<>>
    BY <2>1, DecodedEmpty
  <2> QED BY <1>3, <2>2
<1>4. CASE i <= N
  <2>1. s # <<>> /\ s[1] = raw[i] /\ 1 \in 1..(N - i + 1)
    <3>1. 1 \in 1..(N - i + 1) /\ i + 1 - 1 = i
      BY <1>1, <1>4
    <3>2. s[1] = raw[i + 1 - 1]
      BY <1>2, <3>1
    <3>3. s[1] = raw[i]
      BY <3>1, <3>2
    <3>4. s # <<>>
      <4>1. Len(s) # 0
        BY <1>1, <1>2, <1>4
      <4> HIDE DEF s
      <4> QED BY <4>1
    <3> QED BY <3>1, <3>3, <3>4
  <2>2. Tail(s) = suffix(i + 1)
    <3>1. /\ Tail(s) \in Seq(Byte) /\ Len(Tail(s)) = N - i
          /\ \A k \in 1..(N - i) : Tail(s)[k] = s[k + 1]
      BY <1>1, <1>2, <2>1, HeadTailProperties
    <3>2. /\ suffix(i + 1) \in Seq(Byte) /\ Len(suffix(i + 1)) = N - i
          /\ \A k \in 1..(N - i) : suffix(i + 1)[k] = raw[i + k]
      <4>1. i + 1 \in 1..(N + 1) /\ N - (i + 1) + 1 = N - i
        BY <1>1, <1>4
      <4>2. \A k \in 1..(N - i) : i + 1 + k - 1 = i + k
        BY <1>1
      <4>3. /\ suffix(i + 1) \in Seq(Byte) /\ Len(suffix(i + 1)) = N - (i + 1) + 1
            /\ \A k \in 1..(N - (i + 1) + 1) : suffix(i + 1)[k] = raw[i + 1 + k - 1]
        BY <4>1, Suffix
      <4> HIDE DEF suffix
      <4> QED BY <4>1, <4>2, <4>3
    <3>3. \A k \in 1..(N - i) : k + 1 \in 1..(N - i + 1) /\ i + (k + 1) - 1 = i + k
      BY <1>1
    <3>4. \A k \in 1..(N - i) : Tail(s)[k] = suffix(i + 1)[k]
      BY <1>2, <3>1, <3>2, <3>3
    <3> DEFINE t == Tail(s)
               v == suffix(i + 1)
    <3>5. t \in Seq(Byte) /\ v \in Seq(Byte) /\ Len(t) = Len(v) /\ \A k \in 1..Len(v) : t[k] = v[k]
      BY <3>1, <3>2, <3>4
    <3> HIDE DEF t, v
    <3>6. t = v
      BY <3>5, SeqEqual
    <3> QED BY <3>6 DEF t, v
  <2>3. EscapeAt(s, 1) <=> Escape(raw, i)
    <3>1. CASE i + 2 <= N
      <4>1. /\ 2 \in 1..(N - i + 1) /\ 3 \in 1..(N - i + 1)
            /\ i + 2 - 1 = i + 1 /\ i + 3 - 1 = i + 2 /\ 1 \in 1..(Len(s) - 2)
        BY <1>1, <1>2, <3>1
      <4>2. s[2] = raw[i + 1] /\ s[3] = raw[i + 2]
        BY <1>2, <4>1
      <4> QED BY <1>1, <2>1, <3>1, <4>1, <4>2 DEF EscapeAt, Escape
    <3>2. CASE i + 2 > N
      <4>1. ~(1 \in 1..(Len(s) - 2))
        BY <1>1, <1>2, <3>2
      <4> QED BY <1>1, <3>2, <4>1 DEF EscapeAt, Escape
    <3> QED BY <1>1, <3>1, <3>2
  <2>4. CASE Escape(raw, i)
    <3>1. i + 2 <= N /\ raw[i] # Plus
      BY <2>4 DEF Escape, Percent, Plus
    <3>2. /\ 2 \in 1..(N - i + 1) /\ 3 \in 1..(N - i + 1)
          /\ i + 2 - 1 = i + 1 /\ i + 3 - 1 = i + 2
      BY <1>1, <3>1
    <3>3. s[2] = raw[i + 1] /\ s[3] = raw[i + 2]
      BY <1>2, <3>2
    <3>4. SubSeq(s, 4, Len(s)) = suffix(i + 3)
      <4> DEFINE v == suffix(i + 3)
                 t == SubSeq(s, 4, Len(s))
      <4>1. /\ v \in Seq(Byte) /\ Len(v) = N - i - 2
            /\ \A k \in 1..(N - i - 2) : v[k] = raw[i + 2 + k]
        <5>1. i + 3 \in 1..(N + 1) /\ N - (i + 3) + 1 = N - i - 2
          BY <1>1, <3>1
        <5>2. \A k \in 1..(N - i - 2) : i + 3 + k - 1 = i + 2 + k
          BY <1>1
        <5>3. /\ v \in Seq(Byte) /\ Len(v) = N - (i + 3) + 1
              /\ \A k \in 1..(N - (i + 3) + 1) : v[k] = raw[i + 3 + k - 1]
          BY <5>1, Suffix
        <5> HIDE DEF v
        <5> QED BY <5>1, <5>2, <5>3
      <4>2. /\ t \in Seq(Byte) /\ Len(t) = N - i - 2
            /\ \A k \in 1..(N - i - 2) : t[k] = s[k + 3]
        <5>1. 4 \in 1..(Len(s) + 1) /\ Len(s) - 4 + 1 = N - i - 2
          BY <1>1, <1>2, <3>1
        <5>2. \A k \in 1..(N - i - 2) : 4 + k - 1 = k + 3
          BY <1>1
        <5>3. /\ t \in Seq(Byte) /\ Len(t) = Len(s) - 4 + 1
              /\ \A k \in 1..(Len(s) - 4 + 1) : t[k] = s[4 + k - 1]
          BY <1>2, <5>1, Suffix
        <5> HIDE DEF t, s
        <5> QED BY <5>1, <5>2, <5>3
      <4>3. \A k \in 1..(N - i - 2) : k + 3 \in 1..(N - i + 1) /\ i + (k + 3) - 1 = i + 2 + k
        BY <1>1
      <4>4. t \in Seq(Byte) /\ v \in Seq(Byte) /\ Len(t) = Len(v) /\ \A k \in 1..Len(v) : t[k] = v[k]
        BY <1>2, <4>1, <4>2, <4>3
      <4> HIDE DEF t, v
      <4>5. t = v
        BY <4>4, SeqEqual
      <4> QED BY <4>5 DEF t, v
    <3>5. ServerDecoded(s) = <<16 * HexVal(raw[i + 1]) + HexVal(raw[i + 2])>> \o ServerDecoded(suffix(i + 3))
      BY <1>2, <2>3, <2>4, <3>3, <3>4, DecodedSkips
    <3>6. 16 * HexVal(raw[i + 1]) + HexVal(raw[i + 2]) = HexVal(raw[i + 1]) * 16 + HexVal(raw[i + 2])
      <4>1. HexVal(raw[i + 1]) \in 0..15 /\ HexVal(raw[i + 2]) \in 0..15
        BY <2>4, HexTyped DEF Escape
      <4>2. \A x, y \in 0..15 : 16 * x + y = x * 16 + y
        OBVIOUS
      <4> QED BY <4>1, <4>2
    <3> QED BY <1>1, <1>4, <2>4, <3>1, <3>5, <3>6
  <2>5. CASE ~Escape(raw, i)
    <3>1. ServerDecoded(s)
            = <<IF raw[i] = Plus THEN Space ELSE raw[i]>> \o ServerDecoded(suffix(i + 1))
      BY <1>2, <2>1, <2>2, <2>3, <2>5, DecodedFirst
    <3>2. CASE raw[i] = Plus
      BY <1>1, <1>4, <2>5, <3>1, <3>2
    <3>3. CASE raw[i] # Plus
      BY <1>1, <1>4, <2>5, <3>1, <3>3
    <3> QED BY <3>2, <3>3
  <2> QED BY <2>4, <2>5
<1> QED BY <1>1, <1>3, <1>4

\* The code's scan from the left (encode_canonical) decodes what the
\* positions say.
LEMMA DecodedIsServerDecoded ==
  ASSUME NEW raw \in Seq(Byte)
  PROVE  Decoded(raw) = ServerDecoded(raw)
<1> DEFINE N == Len(raw)
           Is(g) == g = [i \in 1..(N + 1) |->
                          CASE i > N -> <<>>
                            [] i <= N /\ raw[i] = Plus -> <<Space>> \o g[i + 1]
                            [] i <= N /\ Escape(raw, i) ->
                                 <<HexVal(raw[i + 1]) * 16 + HexVal(raw[i + 2])>> \o g[i + 3]
                            [] OTHER -> <<raw[i]>> \o g[i + 1]]
           from == CHOOSE g : Is(g)
           w == [i \in 1..(N + 1) |-> Rest(raw, i)]
<1>1. Decoded(raw) = from[1]
  BY DEF Decoded
<1>2. N \in Nat /\ DOMAIN raw = 1..N
  OBVIOUS
<1>3. \A g : Is(g) <=> g = [i \in 1..(N + 1) |-> DecodeStep(raw, i, g[i + 1], g[i + 3])]
  BY DEF DecodeStep
<1> HIDE DEF Is
<1>4. Is(w)
  <2>1. ASSUME NEW i \in 1..(N + 1)
        PROVE  Rest(raw, i) = DecodeStep(raw, i, w[i + 1], w[i + 3])
    <3>1. Rest(raw, i) = DecodeStep(raw, i, Rest(raw, i + 1), Rest(raw, i + 3))
      BY DecodedFrom
    <3>2. i <= N => w[i + 1] = Rest(raw, i + 1)
      BY <1>2
    <3>3. i <= N /\ Escape(raw, i) => w[i + 3] = Rest(raw, i + 3)
      BY <1>2 DEF Escape
    <3> HIDE DEF w
    <3>4. CASE i > N
      BY <1>2, <3>1, <3>4 DEF DecodeStep
    <3>5. CASE i <= N /\ Escape(raw, i)
      <4>1. w[i + 1] = Rest(raw, i + 1) /\ w[i + 3] = Rest(raw, i + 3)
        BY <3>2, <3>3, <3>5
      <4> QED BY <3>1, <4>1
    <3>6. CASE i <= N /\ ~Escape(raw, i)
      BY <1>2, <3>1, <3>2, <3>6 DEF DecodeStep
    <3> QED BY <1>2, <3>4, <3>5, <3>6
  <2>2. w = [i \in 1..(N + 1) |-> DecodeStep(raw, i, w[i + 1], w[i + 3])]
    BY <2>1
  <2> HIDE DEF w
  <2> QED BY <1>3, <2>2
<1>5. from = [i \in 1..(N + 1) |-> DecodeStep(raw, i, from[i + 1], from[i + 3])]
  <2>1. Is(from)
    BY <1>4
  <2> HIDE DEF from
  <2> QED BY <1>3, <2>1
<1> HIDE DEF from, w
<1> DEFINE A == {k \in Nat : k <= N => from[N + 1 - k] = Rest(raw, N + 1 - k)}
<1>6. ASSUME NEW k \in Nat, \A j \in 0..(k - 1) : j \in A
      PROVE  k \in A
  <2>1. SUFFICES ASSUME k <= N PROVE from[N + 1 - k] = Rest(raw, N + 1 - k)
    OBVIOUS
  <2> DEFINE i == N + 1 - k
  <2>2. i \in 1..(N + 1) /\ i \in Nat /\ k = N + 1 - i
    BY <1>2, <2>1
  <2>3. from[i] = DecodeStep(raw, i, from[i + 1], from[i + 3])
    BY <1>5, <2>2
  <2>4. ASSUME NEW d \in 1..3, i + d <= N + 1
        PROVE  from[i + d] = Rest(raw, i + d)
    <3>1. k - d \in 0..(k - 1) /\ k - d <= N /\ k - d \in Nat /\ N + 1 - (k - d) = i + d
      BY <1>2, <2>1, <2>2, <2>4
    <3>2. k - d \in A
      BY <1>6, <3>1
    <3> QED BY <3>1, <3>2
  <2>5. Rest(raw, i) = DecodeStep(raw, i, Rest(raw, i + 1), Rest(raw, i + 3))
    BY <2>2, DecodedFrom
  <2>6. i <= N => from[i + 1] = Rest(raw, i + 1)
    BY <1>2, <2>2, <2>4
  <2>7. i <= N /\ Escape(raw, i) => from[i + 3] = Rest(raw, i + 3)
    BY <1>2, <2>2, <2>4 DEF Escape
  <2> HIDE DEF i
  <2>8. CASE i > N
    BY <1>2, <2>3, <2>5, <2>8 DEF DecodeStep, i
  <2>9. CASE i <= N /\ Escape(raw, i)
    <3>1. from[i + 1] = Rest(raw, i + 1) /\ from[i + 3] = Rest(raw, i + 3)
      BY <2>6, <2>7, <2>9
    <3> QED BY <2>3, <2>5, <3>1 DEF i
  <2>10. CASE i <= N /\ ~Escape(raw, i)
    BY <1>2, <2>3, <2>5, <2>6, <2>10 DEF DecodeStep, i
  <2> QED BY <1>2, <2>2, <2>8, <2>9, <2>10
<1>7. Nat \subseteq A
  <2> HIDE DEF A
  <2> QED BY <1>6, StrongInduction
<1>8. from[1] = Rest(raw, 1)
  BY <1>2, <1>7
<1>9. Rest(raw, 1) = ServerDecoded(raw)
  BY SubSeqFull DEF Rest
<1> QED BY <1>1, <1>8, <1>9

\* Bytes that separate nothing.
Safe == Byte \ {Ampersand, Equals}

\* What the server writes for a byte needs no escape.
LEMMA ServerByteSafe == \A b \in Byte : ServerByte(b) \in Seq(Safe)
<1>1. \A x \in HexDigits : x \in Safe
  BY HexTyped DEF Safe, HexDigits, Digits, Ampersand, Equals
<1>2. Percent \in Safe /\ Plus \in Safe
  BY DEF Safe, Percent, Plus, Byte, Ampersand, Equals
<1>3. \A b \in 48..57 \cup 65..90 \cup 97..122 \cup {42, 45, 46, 95} : b \in Safe
  BY DEF Safe, Byte, Ampersand, Equals
<1>4. ASSUME NEW b \in Byte PROVE Escaped(b) \in Seq(Safe)
  <2> DEFINE x == HexDigit(b \div 16)
             y == HexDigit(b % 16)
  <2>1. Escaped(b) = <<Percent, x, y>> /\ x \in HexDigits /\ y \in HexDigits
    BY EscapedParts
  <2> HIDE DEF x, y
  <2>2. Percent \in Safe /\ x \in Safe /\ y \in Safe
    BY <1>1, <1>2, <2>1
  <2> QED BY <2>1, <2>2
<1>5. ASSUME NEW b \in Byte PROVE ServerByte(b) \in Seq(Safe)
  <2>1. CASE b \in 48..57 \cup 65..90 \cup 97..122 \cup {42, 45, 46, 95}
    <3>1. b \in Safe
      BY <1>3, <2>1
    <3>2. ServerByte(b) = <<b>>
      BY <2>1 DEF ServerByte
    <3> QED BY <3>1, <3>2
  <2>2. CASE b \notin 48..57 \cup 65..90 \cup 97..122 \cup {42, 45, 46, 95}
    BY <1>2, <1>4, <2>2 DEF ServerByte
  <2> QED BY <2>1, <2>2
<1> QED BY <1>5

\* The client writes each byte as the server does.
LEMMA EncodedByteLikeServer == \A b \in Byte : Encoded(b) = ServerByte(b)
BY DEF Encoded, ServerByte, Unreserved, Digits, Upper, Lower, Space

\* Encoding distributes over concatenation, and writes safe bytes only.
LEMMA ServerEncodedLaws ==
  /\ \A s \in Seq(Byte) : ServerEncoded(s) \in Seq(Safe)
  /\ ServerEncoded(<<>>) = <<>>
  /\ \A b \in Byte : ServerEncoded(<<b>>) = ServerByte(b)
  /\ \A s, t \in Seq(Byte) : ServerEncoded(s \o t) = ServerEncoded(s) \o ServerEncoded(t)
<1> DEFINE g == [b \in Byte |-> ServerByte(b)]
<1>1. g \in [Byte -> Seq(Safe)] /\ \A b \in Byte : g[b] = ServerByte(b)
  BY ServerByteSafe
<1> HIDE DEF g
<1>2. ASSUME NEW s \in Seq(Byte) PROVE ServerEncoded(s) = Mapped(g, s)
  <2>1. \A i \in DOMAIN s : ServerByte(s[i]) = g[s[i]]
    BY <1>1
  <2>2. [i \in DOMAIN s |-> ServerByte(s[i])] = [i \in DOMAIN s |-> g[s[i]]]
    BY <2>1
  <2> QED BY <2>2 DEF ServerEncoded, Mapped
<1>3. <<>> \in Seq(Byte) /\ (\A b \in Byte : <<b>> \in Seq(Byte))
      /\ \A s, t \in Seq(Byte) : s \o t \in Seq(Byte)
  OBVIOUS
<1>4. /\ \A s \in Seq(Byte) : Mapped(g, s) \in Seq(Safe)
      /\ Mapped(g, <<>>) = <<>>
      /\ \A a \in Byte : Mapped(g, <<a>>) = g[a]
      /\ \A s, t \in Seq(Byte) : Mapped(g, s \o t) = Mapped(g, s) \o Mapped(g, t)
  BY <1>1, MappedLaws
<1> QED BY <1>1, <1>2, <1>3, <1>4

\* encode_canonical decodes and encodes as the server does.
LEMMA EncodeLikeServer ==
  ASSUME NEW raw \in Seq(Byte)
  PROVE  EncodeCanonical(raw) = ServerEncoded(ServerDecoded(raw))
<1> DEFINE bytes == ServerDecoded(raw)
<1>1. bytes \in Seq(Byte) /\ Decoded(raw) = bytes
  BY DecodedTyped, DecodedIsServerDecoded
<1> HIDE DEF bytes
<1>2. [i \in DOMAIN bytes |-> Encoded(bytes[i])] = [i \in DOMAIN bytes |-> ServerByte(bytes[i])]
  BY <1>1, EncodedByteLikeServer
<1>3. EncodeCanonical(raw) = FlattenSeq([i \in DOMAIN bytes |-> Encoded(bytes[i])])
  BY <1>1 DEF EncodeCanonical
<1>4. ServerEncoded(bytes) = FlattenSeq([i \in DOMAIN bytes |-> ServerByte(bytes[i])])
  BY DEF ServerEncoded
<1> QED BY <1>2, <1>3, <1>4 DEF bytes

\* Decoding takes back what encoding a byte wrote.
LEMMA DecodedWritten ==
  ASSUME NEW b \in Byte, NEW u \in Seq(Byte)
  PROVE  ServerDecoded(Escaped(b) \o u) = <<b>> \o ServerDecoded(u)
<1> DEFINE x == HexDigit(b \div 16)
           y == HexDigit(b % 16)
<1>1. Escaped(b) = <<Percent, x, y>> /\ x \in HexDigits /\ y \in HexDigits
      /\ 16 * HexVal(x) + HexVal(y) = b
  BY EscapedParts
<1> HIDE DEF x, y
<1>2. x \in HexDigits /\ y \in HexDigits
  BY <1>1
<1>3. ServerDecoded(<<Percent, x, y>> \o u)
        = <<16 * HexVal(x) + HexVal(y)>> \o ServerDecoded(u)
  BY <1>2, DecodedFirstEscape
<1>4. <<16 * HexVal(x) + HexVal(y)>> = <<b>>
  BY <1>1
<1>5. <<16 * HexVal(x) + HexVal(y)>> \o ServerDecoded(u) = <<b>> \o ServerDecoded(u)
  BY <1>4
<1>6. Escaped(b) \o u = <<Percent, x, y>> \o u
  BY <1>1
<1> QED BY <1>3, <1>5, <1>6

\* A byte in front that begins no escape is decoded alone.
LEMMA DecodedPlain ==
  ASSUME NEW b \in Byte, NEW u \in Seq(Byte), ~EscapeAt(<<b>> \o u, 1)
  PROVE  ServerDecoded(<<b>> \o u) = <<IF b = Plus THEN Space ELSE b>> \o ServerDecoded(u)
<1> DEFINE raw == <<b>> \o u
<1>1. raw \in Seq(Byte) /\ raw # <<>> /\ raw[1] = b /\ Tail(raw) = u
  OBVIOUS
<1> HIDE DEF raw
<1>2. ~EscapeAt(raw, 1)
  BY DEF raw
<1> QED BY <1>1, <1>2, DecodedFirst DEF raw

\* What the server wrote for a byte decodes to it, whatever follows.
LEMMA DecodedServerByte ==
  ASSUME NEW b \in Byte, NEW u \in Seq(Byte)
  PROVE  ServerDecoded(ServerByte(b) \o u) = <<b>> \o ServerDecoded(u)
<1>1. ASSUME NEW c \in Byte, c # Percent
      PROVE  ServerDecoded(<<c>> \o u) = <<IF c = Plus THEN Space ELSE c>> \o ServerDecoded(u)
  <2>1. (<<c>> \o u)[1] = c
    OBVIOUS
  <2>2. ~EscapeAt(<<c>> \o u, 1)
    BY <1>1, <2>1 DEF EscapeAt
  <2> QED BY <2>2, DecodedPlain
<1>2. CASE b \in 48..57 \cup 65..90 \cup 97..122 \cup {42, 45, 46, 95}
  <2>1. ServerByte(b) = <<b>> /\ b # Percent /\ b # Plus
    BY <1>2 DEF ServerByte, Percent, Plus
  <2> QED BY <1>1, <2>1
<1>3. CASE b = Space
  <2>1. ServerByte(b) = <<Plus>> /\ Plus # Percent /\ Plus \in Byte
    BY <1>3 DEF ServerByte, Percent, Plus, Space, Byte
  <2> QED BY <1>1, <1>3, <2>1
<1>4. CASE b \notin 48..57 \cup 65..90 \cup 97..122 \cup {42, 45, 46, 95} /\ b # Space
  <2>1. ServerByte(b) = Escaped(b)
    BY <1>4 DEF ServerByte
  <2> QED BY <2>1, DecodedWritten
<1> QED BY <1>2, <1>3, <1>4

\* Decoding takes back what encoding a text wrote.
LEMMA DecodedEncoded ==
  ASSUME NEW s \in Seq(Byte)
  PROVE  ServerDecoded(ServerEncoded(s)) = s
<1> DEFINE A == {n \in Nat : \A t \in Seq(Byte) : Len(t) = n => ServerDecoded(ServerEncoded(t)) = t}
<1>1. 0 \in A
  <2>1. \A t \in Seq(Byte) : Len(t) = 0 => t = <<>>
    OBVIOUS
  <2>2. ServerDecoded(ServerEncoded(<<>>)) = <<>>
    BY ServerEncodedLaws, DecodedEmpty
  <2> QED BY <2>1, <2>2
<1>2. ASSUME NEW n \in Nat, n \in A PROVE n + 1 \in A
  <2>1. SUFFICES ASSUME NEW t \in Seq(Byte), Len(t) = n + 1
                 PROVE  ServerDecoded(ServerEncoded(t)) = t
    OBVIOUS
  <2> DEFINE b == t[1]
             u == Tail(t)
  <2>2. t # <<>>
    BY <2>1
  <2>3. t = <<b>> \o u /\ b \in Byte /\ u \in Seq(Byte) /\ Len(u) = n
    BY <2>1, <2>2, FirstAndRest
  <2> HIDE DEF b, u
  <2>4. ServerEncoded(t) = ServerByte(b) \o ServerEncoded(u)
    <3>1. <<b>> \in Seq(Byte)
      BY <2>3
    <3> QED BY <2>3, <3>1, ServerEncodedLaws
  <2>5. ServerEncoded(u) \in Seq(Byte)
    <3>1. ServerEncoded(u) \in Seq(Safe)
      BY <2>3, ServerEncodedLaws
    <3> QED BY <3>1 DEF Safe
  <2>6. ServerDecoded(ServerEncoded(u)) = u
    BY <1>2, <2>3
  <2> QED BY <2>3, <2>4, <2>5, <2>6, DecodedServerByte
<1>3. Nat \subseteq A
  <2> HIDE DEF A
  <2> QED BY <1>1, <1>2, SetInduction
<1> QED BY <1>3

-----------------------------------------------------------------------------
(* What the url crate escapes, the server reads as it was.                 *)

\* A query is parsed byte by byte, to bytes.
LEMMA ParsedLaws ==
  /\ \A s \in Seq(Byte) : ParsedQuery(s) \in Seq(Byte)
  /\ ParsedQuery(<<>>) = <<>>
  /\ \A b \in Byte : ParsedQuery(<<b>>) = ParsedByte(b)
  /\ \A s, t \in Seq(Byte) : ParsedQuery(s \o t) = ParsedQuery(s) \o ParsedQuery(t)
<1> DEFINE T == Byte
           g == [b \in Byte |-> ParsedByte(b)]
<1>1. g \in [Byte -> Seq(T)] /\ \A b \in Byte : g[b] = ParsedByte(b)
  BY ParsedByteTyped
<1> HIDE DEF g, T
<1>8. /\ \A s \in Seq(Byte) : Mapped(g, s) \in Seq(T)
      /\ Mapped(g, <<>>) = <<>>
      /\ \A a \in Byte : Mapped(g, <<a>>) = g[a]
      /\ \A s, t \in Seq(Byte) : Mapped(g, s \o t) = Mapped(g, s) \o Mapped(g, t)
  BY <1>1, MappedLaws
<1>2. ASSUME NEW s \in Seq(Byte) PROVE ParsedQuery(s) = Mapped(g, s)
  <2>1. \A i \in DOMAIN s : ParsedByte(s[i]) = g[s[i]]
    BY <1>1
  <2>2. [i \in DOMAIN s |-> ParsedByte(s[i])] = [i \in DOMAIN s |-> g[s[i]]]
    BY <2>1
  <2> QED BY <2>2 DEF ParsedQuery, Mapped
<1>3. <<>> \in Seq(Byte) /\ (\A b \in Byte : <<b>> \in Seq(Byte))
      /\ \A s, t \in Seq(Byte) : s \o t \in Seq(Byte)
  OBVIOUS
<1>4. ASSUME NEW s \in Seq(Byte) PROVE ParsedQuery(s) \in Seq(Byte)
  BY <1>2, <1>8 DEF T
<1>5. ParsedQuery(<<>>) = <<>>
  BY <1>1, <1>2, <1>3, <1>8
<1>6. ASSUME NEW b \in Byte PROVE ParsedQuery(<<b>>) = ParsedByte(b)
  BY <1>1, <1>2, <1>3, <1>8
<1>7. ASSUME NEW s \in Seq(Byte), NEW t \in Seq(Byte)
      PROVE  ParsedQuery(s \o t) = ParsedQuery(s) \o ParsedQuery(t)
  <2>1. Mapped(g, s \o t) = Mapped(g, s) \o Mapped(g, t)
    BY <1>8
  <2> QED BY <1>2, <1>3, <2>1
<1> QED BY <1>4, <1>5, <1>6, <1>7

\* The first byte of a query, and the rest of it.
LEMMA ParsedRest ==
  ASSUME NEW b \in Byte, NEW u \in Seq(Byte)
  PROVE  ParsedQuery(<<b>> \o u) = ParsedByte(b) \o ParsedQuery(u)
<1>1. <<b>> \in Seq(Byte)
  OBVIOUS
<1> QED BY <1>1, ParsedLaws

\* A hex digit in the parsed query stood there before, and what followed it
\* still does.
LEMMA ParsedDigit ==
  ASSUME NEW s \in Seq(Byte), Len(ParsedQuery(s)) >= 1, ParsedQuery(s)[1] \in HexDigits
  PROVE  /\ Len(s) >= 1 /\ s[1] = ParsedQuery(s)[1]
         /\ ParsedQuery(s) = <<s[1]>> \o ParsedQuery(Tail(s))
<1>1. s # <<>>
  BY ParsedLaws
<1> DEFINE b == s[1]
           u == Tail(s)
<1>2. s = <<b>> \o u /\ b \in Byte /\ u \in Seq(Byte) /\ Len(s) >= 1
  BY <1>1, FirstAndRest
<1> HIDE DEF b, u
<1>3. ParsedQuery(s) = ParsedByte(b) \o ParsedQuery(u) /\ ParsedQuery(u) \in Seq(Byte)
  BY <1>2, ParsedRest, ParsedLaws
<1>4. ParsedByte(b) = <<b>>
  <2>1. SUFFICES ASSUME ParsedByte(b) = Escaped(b) PROVE FALSE
    BY DEF ParsedByte
  <2> DEFINE x == HexDigit(b \div 16)
             y == HexDigit(b % 16)
  <2>2. Escaped(b) = <<Percent, x, y>> /\ x \in HexDigits /\ y \in HexDigits
    BY <1>2, EscapedParts
  <2> HIDE DEF x, y
  <2> DEFINE e == Escaped(b)
             p == ParsedQuery(u)
  <2>3. e \in Seq(Byte) /\ Len(e) = 3 /\ e[1] = Percent
    <3>1. e \in Seq(Byte)
      BY <1>2, EscapedParts
    <3>2. Len(e) = 3 /\ e[1] = Percent
      BY <2>2
    <3> QED BY <3>1, <3>2
  <2>4. (e \o p)[1] = e[1]
    <3>1. 1 \in 1..Len(e)
      BY <2>3
    <3> HIDE DEF e, p
    <3> QED BY <1>3, <2>3, <3>1, Concats DEF p
  <2>5. ParsedQuery(s)[1] = Percent
    BY <1>3, <2>1, <2>3, <2>4
  <2> QED BY <2>5 DEF HexDigits, Digits, Percent
<1>5. ParsedQuery(s) = <<b>> \o ParsedQuery(u)
  BY <1>3, <1>4
<1>6. ParsedQuery(s)[1] = b
  <2> DEFINE p == ParsedQuery(u)
  <2>1. p \in Seq(Byte)
    BY <1>3
  <2> HIDE DEF p
  <2>2. (<<b>> \o p)[1] = b
    BY <1>2, <2>1
  <2> QED BY <1>5, <2>2 DEF p
<1> QED BY <1>2, <1>5, <1>6 DEF b, u

\* Parsing makes no escape of a percent sign that was none.
LEMMA ParsedNoEscape ==
  ASSUME NEW u \in Seq(Byte), EscapeAt(<<Percent>> \o ParsedQuery(u), 1)
  PROVE  EscapeAt(<<Percent>> \o u, 1)
<1> DEFINE p == ParsedQuery(u)
           q == <<Percent>> \o p
<1>1. p \in Seq(Byte) /\ <<Percent>> \in Seq(Byte)
  BY ParsedLaws DEF Percent, Byte
<1>2. Len(q) = 1 + Len(p) /\ Len(p) \in Nat /\ \A i \in 1..Len(p) : q[1 + i] = p[i]
  <2> HIDE DEF p
  <2>1. Len(<<Percent>>) = 1
    OBVIOUS
  <2> DEFINE c == <<Percent>>
  <2>2. c \in Seq(Byte) /\ p \in Seq(Byte) /\ Len(c) = 1
    BY <1>1, <2>1
  <2> HIDE DEF c
  <2>3. /\ Len(c \o p) = Len(c) + Len(p) /\ Len(p) \in Nat
        /\ \A i \in 1..Len(p) : (c \o p)[Len(c) + i] = p[i]
    <3>1. c \in Seq(Byte) /\ p \in Seq(Byte)
      BY <2>2
    <3> QED BY <3>1, Concats
  <2>4. /\ Len(c \o p) = 1 + Len(p) /\ Len(p) \in Nat
        /\ \A i \in 1..Len(p) : (c \o p)[1 + i] = p[i]
    BY <2>2, <2>3
  <2> QED BY <2>4 DEF c
<1>3. EscapeAt(q, 1)
  OBVIOUS
<1> HIDE DEF p, q
<1>4. Len(q) >= 3 /\ q[2] \in HexDigits /\ q[3] \in HexDigits
  <2>1. 1 \in 1..(Len(q) - 2) /\ {q[1 + 1], q[1 + 2]} \subseteq HexDigits
    BY <1>3 DEF EscapeAt
  <2> QED BY <1>2, <2>1
<1>5. Len(p) >= 2 /\ p[1] \in HexDigits /\ p[2] \in HexDigits
  <2>1. 1 \in 1..Len(p) /\ 2 \in 1..Len(p) /\ 1 + 1 = 2 /\ 1 + 2 = 3
    BY <1>2, <1>4
  <2> QED BY <1>2, <1>4, <2>1
<1>6. Len(u) >= 1 /\ u[1] = p[1] /\ p = <<u[1]>> \o ParsedQuery(Tail(u))
  BY <1>5, ParsedDigit DEF p
<1> DEFINE v == Tail(u)
           w == ParsedQuery(v)
<1>7. v \in Seq(Byte) /\ Len(v) = Len(u) - 1 /\ (Len(v) >= 1 => v[1] = u[2]) /\ u[1] \in Byte
  BY <1>6
<1>8. w \in Seq(Byte)
  <2> HIDE DEF v
  <2> QED BY <1>7, ParsedLaws
<1> HIDE DEF v, w
<1>9. Len(p) = 1 + Len(w) /\ Len(w) \in Nat /\ p[2] = w[1]
  <2>1. <<u[1]>> \in Seq(Byte) /\ Len(<<u[1]>>) = 1
    BY <1>7
  <2>2. p = <<u[1]>> \o w
    BY <1>6 DEF v, w
  <2>3. Len(p) = 1 + Len(w) /\ Len(w) \in Nat /\ \A i \in 1..Len(w) : p[1 + i] = w[i]
    BY <1>8, <2>1, <2>2, Concats
  <2>4. 1 \in 1..Len(w) /\ 1 + 1 = 2
    BY <1>5, <2>3
  <2> QED BY <2>3, <2>4
<1>10. Len(v) >= 1 /\ v[1] = w[1]
  <2>1. Len(w) >= 1 /\ w[1] \in HexDigits
    BY <1>5, <1>9
  <2> QED BY <1>7, <2>1, ParsedDigit DEF w
<1> DEFINE r == <<Percent>> \o u
<1>11. Len(r) = 1 + Len(u) /\ Len(u) \in Nat /\ (\A i \in 1..Len(u) : r[1 + i] = u[i])
       /\ r[1] = Percent
  <2>1. Len(<<Percent>>) = 1 /\ <<Percent>>[1] = Percent
    OBVIOUS
  <2> QED BY <1>1, <2>1, Concats
<1>12. r[2] = u[1] /\ r[3] = u[2] /\ Len(r) >= 3
  <2>1. 1 \in 1..Len(u) /\ 2 \in 1..Len(u) /\ 1 + 1 = 2 /\ 1 + 2 = 3
    BY <1>7, <1>10, <1>11
  <2> QED BY <1>11, <2>1
<1> HIDE DEF r
<1>13. EscapeAt(r, 1)
  <2>1. 1 \in 1..(Len(r) - 2) /\ 1 + 1 = 2 /\ 1 + 2 = 3
    BY <1>11, <1>12
  <2>2. u[1] \in HexDigits /\ u[2] \in HexDigits
    BY <1>5, <1>6, <1>7, <1>9, <1>10
  <2> QED BY <1>11, <1>12, <2>1, <2>2 DEF EscapeAt
<1> QED BY <1>13 DEF r

\* Hex digits and percent signs are not escaped.
LEMMA HexDigitsStay == \A b \in HexDigits \cup {Percent} : b \in Byte /\ ParsedByte(b) = <<b>>
BY DEF HexDigits, Digits, Percent, ParsedByte, Byte

\* An escape is not escaped again.
LEMMA EscapeStays ==
  ASSUME NEW x \in HexDigits, NEW y \in HexDigits
  PROVE  <<Percent, x, y>> \in Seq(Byte) /\ ParsedQuery(<<Percent, x, y>>) = <<Percent, x, y>>
<1>1. /\ Percent \in Byte /\ ParsedByte(Percent) = <<Percent>>
      /\ x \in Byte /\ ParsedByte(x) = <<x>>
      /\ y \in Byte /\ ParsedByte(y) = <<y>>
  BY HexDigitsStay
<1> DEFINE a == <<Percent>>
           b == <<x>>
           c == <<y>>
<1>2. /\ a \in Seq(Byte) /\ b \in Seq(Byte) /\ c \in Seq(Byte)
      /\ ParsedQuery(a) = a /\ ParsedQuery(b) = b /\ ParsedQuery(c) = c
  BY <1>1, ParsedLaws
<1>3. (a \o b) \o c = <<Percent, x, y>>
  BY <1>1, ConcatTuple
<1> HIDE DEF a, b, c
<1>4. a \o b \in Seq(Byte) /\ ParsedQuery(a \o b) = a \o b
  BY <1>2, Concats, ParsedLaws
<1> DEFINE ab == a \o b
<1> HIDE DEF ab
<1>5. ab \in Seq(Byte) /\ ParsedQuery(ab) = ab
  BY <1>4 DEF ab
<1>6. ab \o c \in Seq(Byte)
  BY <1>2, <1>5, Concats
<1>7. ParsedQuery(ab \o c) = ParsedQuery(ab) \o ParsedQuery(c)
  BY <1>2, <1>5, ParsedLaws
<1> QED BY <1>2, <1>3, <1>5, <1>6, <1>7 DEF ab

\* Parsing a query as a URL does leaves what it decodes to.
LEMMA DecodedParsed ==
  ASSUME NEW s \in Seq(Byte)
  PROVE  ServerDecoded(ParsedQuery(s)) = ServerDecoded(s)
<1> DEFINE A == {n \in Nat : \A t \in Seq(Byte) :
                   Len(t) = n => ServerDecoded(ParsedQuery(t)) = ServerDecoded(t)}
<1>1. ASSUME NEW n \in Nat, \A m \in 0..(n - 1) : m \in A
      PROVE  n \in A
  <2>1. SUFFICES ASSUME NEW t \in Seq(Byte), Len(t) = n
                 PROVE  ServerDecoded(ParsedQuery(t)) = ServerDecoded(t)
    OBVIOUS
  <2>2. ASSUME NEW u \in Seq(Byte), Len(u) < n
        PROVE  ServerDecoded(ParsedQuery(u)) = ServerDecoded(u)
    <3>1. Len(u) \in 0..(n - 1)
      BY <2>2
    <3> QED BY <1>1, <3>1
  <2>3. CASE t = <<>>
    BY <2>3, ParsedLaws
  <2>4. CASE EscapeAt(t, 1)
    <3>1. PICK x \in HexDigits, y \in HexDigits, u \in Seq(Byte) :
            t = <<Percent, x, y>> \o u /\ Len(u) = Len(t) - 3
      <4> DEFINE v == SubSeq(t, 4, Len(t))
      <4>1. /\ t[2] \in HexDigits /\ t[3] \in HexDigits /\ v \in Seq(Byte)
            /\ Len(v) = Len(t) - 3 /\ t = <<Percent, t[2], t[3]>> \o v
        BY <2>4, EscapeAndRest
      <4> HIDE DEF v
      <4> QED BY <4>1
    <3>2. Len(u) < n
      BY <2>1, <3>1
    <3>8. ParsedQuery(u) \in Seq(Byte)
      BY ParsedLaws
    <3>9. ParsedQuery(t) = <<Percent, x, y>> \o ParsedQuery(u)
      <4> DEFINE c == <<Percent, x, y>>
      <4>1. c \in Seq(Byte) /\ ParsedQuery(c) = c /\ t = c \o u
        BY <3>1, EscapeStays
      <4> HIDE DEF c
      <4>2. ParsedQuery(c \o u) = ParsedQuery(c) \o ParsedQuery(u)
        BY <4>1, ParsedLaws
      <4> QED BY <4>1, <4>2 DEF c
    <3>10. ServerDecoded(<<Percent, x, y>> \o ParsedQuery(u))
             = <<16 * HexVal(x) + HexVal(y)>> \o ServerDecoded(ParsedQuery(u))
      BY <3>8, DecodedFirstEscape
    <3>11. ServerDecoded(<<Percent, x, y>> \o u)
             = <<16 * HexVal(x) + HexVal(y)>> \o ServerDecoded(u)
      BY DecodedFirstEscape
    <3> QED BY <2>2, <3>1, <3>2, <3>9, <3>10, <3>11
  <2>5. CASE t # <<>> /\ ~EscapeAt(t, 1)
    <3> DEFINE b == t[1]
               u == Tail(t)
    <3>1. t = <<b>> \o u /\ b \in Byte /\ u \in Seq(Byte) /\ Len(u) < n
      BY <2>1, <2>5, FirstAndRest
    <3> HIDE DEF b, u
    <3>2. ServerDecoded(t) = <<IF b = Plus THEN Space ELSE b>> \o ServerDecoded(u)
      BY <2>5, <3>1, DecodedPlain
    <3>3. ParsedQuery(t) = ParsedByte(b) \o ParsedQuery(u) /\ ParsedQuery(u) \in Seq(Byte)
      BY <3>1, ParsedRest, ParsedLaws
    <3>4. ServerDecoded(ParsedQuery(u)) = ServerDecoded(u)
      BY <2>2, <3>1
    <3>5. CASE ParsedByte(b) = Escaped(b) /\ b # Plus
      <4>1. ServerDecoded(Escaped(b) \o ParsedQuery(u)) = <<b>> \o ServerDecoded(ParsedQuery(u))
        BY <3>1, <3>3, DecodedWritten
      <4> QED BY <3>2, <3>3, <3>4, <3>5, <4>1
    <3>6. CASE ParsedByte(b) = <<b>>
      <4>1. ~EscapeAt(<<b>> \o ParsedQuery(u), 1)
        <5>1. CASE b = Percent
          BY <2>5, <3>1, <5>1, ParsedNoEscape
        <5>2. CASE b # Percent
          <6>1. (<<b>> \o ParsedQuery(u))[1] = b
            BY <3>1, <3>3
          <6> QED BY <5>2, <6>1 DEF EscapeAt
        <5> QED BY <5>1, <5>2
      <4>2. ServerDecoded(<<b>> \o ParsedQuery(u))
              = <<IF b = Plus THEN Space ELSE b>> \o ServerDecoded(ParsedQuery(u))
        BY <3>1, <3>3, <4>1, DecodedPlain
      <4> QED BY <3>2, <3>3, <3>4, <3>6, <4>2
    <3>7. ParsedByte(b) = <<b>> \/ (ParsedByte(b) = Escaped(b) /\ b # Plus)
      <4>1. CASE b \in 0..32 \cup {34, 39, 60, 62} \cup 127..255
        BY <4>1 DEF ParsedByte, Plus
      <4>2. CASE b \notin 0..32 \cup {34, 39, 60, 62} \cup 127..255
        BY <4>2 DEF ParsedByte
      <4> QED BY <4>1, <4>2
    <3> QED BY <3>5, <3>6, <3>7
  <2> QED BY <2>3, <2>4, <2>5
<1>2. Nat \subseteq A
  <2> HIDE DEF A
  <2> QED BY <1>1, StrongInduction
<1> QED BY <1>2

-----------------------------------------------------------------------------
(* Pieces: the code splits at ampersands, the server looks for stretches.  *)

\* What an ampersand does not split.
Plain == Byte \ {Ampersand}

\* A piece, if it is one.
One(p) == IF p = <<>> THEN <<>> ELSE <<p>>

\* Every query is one piece, or a query, an ampersand and a last piece.
LEMMA LastAmpersand ==
  ASSUME NEW q \in Seq(Byte), q \notin Seq(Plain)
  PROVE  \E x \in Seq(Byte), p \in Seq(Plain) :
           q = (x \o <<Ampersand>>) \o p /\ Len(x) < Len(q)
<1> DEFINE N == Len(q)
           T == {n \in Nat : n < N /\ q[N - n] = Ampersand}
<1>1. N \in Nat /\ \A i \in 1..N : q[i] \in Byte
  OBVIOUS
<1>2. T # {}
  <2>1. SUFFICES ASSUME \A i \in 1..N : q[i] # Ampersand PROVE FALSE
    <3>1. \A i \in 1..N : N - i \in Nat /\ N - i < N /\ N - (N - i) = i
      BY <1>1
    <3> QED BY <3>1
  <2>2. \A i \in 1..N : q[i] \in Plain
    BY <1>1, <2>1 DEF Plain
  <2>3. q \in Seq(Plain)
    BY <2>2
  <2> QED BY <2>3
<1>3. PICK n \in T : \A m \in T : n <= m
  <2>1. T \in SUBSET Nat
    OBVIOUS
  <2> HIDE DEF T
  <2> QED BY <1>2, <2>1, LeastOf
<1> DEFINE k == N - n
           x == SubSeq(q, 1, k - 1)
           p == SubSeq(q, k + 1, N)
<1>4. k \in 1..N /\ q[k] = Ampersand /\ n \in Nat /\ n = N - k
  BY <1>1, <1>3
<1>5. \A i \in (k + 1)..N : q[i] # Ampersand
  <2>1. SUFFICES ASSUME NEW i \in (k + 1)..N, q[i] = Ampersand PROVE FALSE
    OBVIOUS
  <2>2. N - i \in Nat /\ N - i < N /\ N - (N - i) = i /\ N - i < n
    BY <1>1, <1>4, <2>1
  <2>3. N - i \in T
    BY <2>1, <2>2
  <2> HIDE DEF k, T
  <2> QED BY <1>3, <1>4, <2>2, <2>3
<1> HIDE DEF k, T
<1>6. x \in Seq(Byte) /\ Len(x) = k - 1
  BY <1>1, <1>4
<1>7. p \in Seq(Plain)
  <2>1. \A i \in (k + 1)..N : q[i] \in Plain
    BY <1>1, <1>4, <1>5 DEF Plain
  <2>2. k + 1 \in Int /\ N \in Int
    BY <1>1, <1>4
  <2> HIDE DEF N
  <2> QED BY <2>1, <2>2, SubSeqProperties
<1>8. q = (x \o <<Ampersand>>) \o p
  <2>1. x \o <<Ampersand>> = SubSeq(q, 1, k)
    BY <1>1, <1>4, SubSeqRecursiveSecond
  <2>2. SubSeq(q, 1, k) \o p = SubSeq(q, 1, N)
    BY <1>1, <1>4, ConcatAdjacentSubSeq
  <2>3. SubSeq(q, 1, N) = q
    BY SubSeqFull
  <2> QED BY <2>1, <2>2, <2>3
<1>9. Len(x) < Len(q)
  BY <1>1, <1>4, <1>6
<1> HIDE DEF x, p
<1> QED BY <1>6, <1>7, <1>8, <1>9

\* Induction over the pieces of a query.
LEMMA QueryInduction ==
  ASSUME NEW A, \A p \in Seq(Plain) : p \in A,
         \A x \in Seq(Byte), p \in Seq(Plain) : x \in A => (x \o <<Ampersand>>) \o p \in A
  PROVE  \A q \in Seq(Byte) : q \in A
<1> DEFINE B == {n \in Nat : \A q \in Seq(Byte) : Len(q) = n => q \in A}
<1>1. ASSUME NEW n \in Nat, \A m \in 0..(n - 1) : m \in B
      PROVE  n \in B
  <2>1. SUFFICES ASSUME NEW q \in Seq(Byte), Len(q) = n, q \notin Seq(Plain) PROVE q \in A
    OBVIOUS
  <2>2. PICK x \in Seq(Byte), p \in Seq(Plain) :
          q = (x \o <<Ampersand>>) \o p /\ Len(x) < Len(q)
    BY <2>1, LastAmpersand
  <2>3. Len(x) \in 0..(n - 1)
    BY <2>1, <2>2
  <2>4. x \in A
    BY <1>1, <2>3
  <2> QED BY <2>2, <2>4
<1>2. Nat \subseteq B
  <2> HIDE DEF B
  <2> QED BY <1>1, StrongInduction
<1> QED BY <1>2

\* The stretch between ampersands that j ends.
Ends(q, i, j) ==
  /\ j \in i..Len(q)
  /\ \A k \in i..j : q[k] # Ampersand
  /\ j = Len(q) \/ q[j + 1] = Ampersand

\* A stretch has one end.
LEMMA EndsOnce ==
  ASSUME NEW q \in Seq(Byte), NEW i \in 1..Len(q), NEW j, NEW k, Ends(q, i, j), Ends(q, i, k)
  PROVE  j = k
<1>1. ASSUME NEW a, NEW b, Ends(q, i, a), Ends(q, i, b), a < b PROVE FALSE
  <2>1. a \in Int /\ b \in Int /\ a + 1 \in i..b /\ a < Len(q)
    BY <1>1 DEF Ends
  <2> QED BY <1>1, <2>1 DEF Ends
<1>2. j \in Int /\ k \in Int
  BY DEF Ends
<1>3. ~(j < k) /\ ~(k < j)
  BY <1>1
<1> QED BY <1>2, <1>3

\* EndOf finds the end of a stretch.
LEMMA EndOfEnds ==
  ASSUME NEW q \in Seq(Byte), NEW i \in 1..Len(q), q[i] # Ampersand
  PROVE  /\ Ends(q, i, EndOf(q, i))
         /\ \A j : Ends(q, i, j) => EndOf(q, i) = j
<1> DEFINE N == Len(q)
           T == {j \in i..N : j = N \/ q[j + 1] = Ampersand}
<1>1. N \in Nat /\ i \in 1..N
  OBVIOUS
<1>2. T \in SUBSET Nat /\ T # {}
  <2>1. N \in T
    BY <1>1
  <2>2. \A j \in i..N : j \in Nat
    BY <1>1
  <2> QED BY <2>1, <2>2
<1>3. PICK j \in T : \A k \in T : j <= k
  <2> HIDE DEF T
  <2> QED BY <1>2, LeastOf
<1>4. \A k \in i..j : q[k] # Ampersand
  <2>1. SUFFICES ASSUME NEW k \in i..j, q[k] = Ampersand PROVE FALSE
    OBVIOUS
  <2>2. k # i /\ k \in Nat /\ k - 1 \in i..N /\ (k - 1) + 1 = k /\ k - 1 < j /\ k - 1 \in Nat
    BY <1>1, <1>3, <2>1
  <2>3. k - 1 \in T
    BY <2>1, <2>2
  <2>4. j \in Nat
    BY <1>2, <1>3
  <2> HIDE DEF T
  <2>5. j <= k - 1
    BY <1>3, <2>3
  <2> QED BY <2>2, <2>4, <2>5
<1>5. Ends(q, i, j) /\ j \in i..Len(q)
  BY <1>3, <1>4 DEF Ends
<1>6. EndOf(q, i) = CHOOSE e \in i..Len(q) : Ends(q, i, e)
  BY DEF EndOf, Ends
<1> HIDE DEF T, N
<1>7. Ends(q, i, EndOf(q, i))
  BY <1>5, <1>6
<1> QED BY <1>7, EndsOnce

\* An ampersand ends a stretch as the end of the query does.
LEMMA EndBeforeAmpersand ==
  ASSUME NEW x \in Seq(Byte), NEW y \in Seq(Byte), NEW i \in 1..Len(x), x[i] # Ampersand
  PROVE  LET q == (x \o <<Ampersand>>) \o y
         IN  StartsAt(q, i) => SubSeq(q, i, EndOf(q, i)) = SubSeq(x, i, EndOf(x, i))
<1> DEFINE q == (x \o <<Ampersand>>) \o y
           n == Len(x)
           e == EndOf(x, i)
<1>1. /\ q \in Seq(Byte) /\ Len(q) = n + 1 + Len(y) /\ n \in Nat /\ Len(y) \in Nat
      /\ \A k \in 1..n : q[k] = x[k]
      /\ q[n + 1] = Ampersand
  BY DEF Ampersand, Byte
<1> HIDE DEF q, n
<1>2. Ends(x, i, e)
  BY EndOfEnds
<1> HIDE DEF e
<1>3. e \in i..n /\ i \in 1..n
  BY <1>2 DEF Ends, n
<1>4. Ends(q, i, e)
  <2>1. e \in i..Len(q)
    BY <1>1, <1>3
  <2>2. \A k \in i..e : q[k] # Ampersand
    <3>1. \A k \in i..e : k \in 1..n
      BY <1>1, <1>3
    <3> QED BY <1>1, <1>2, <3>1 DEF Ends
  <2>3. q[e + 1] = Ampersand
    <3>1. CASE e = n
      BY <1>1, <3>1
    <3>2. CASE e # n
      <4>1. e + 1 \in 1..n /\ x[e + 1] = Ampersand
        BY <1>1, <1>2, <1>3, <3>2 DEF Ends, n
      <4> QED BY <1>1, <4>1
    <3> QED BY <3>1, <3>2
  <2> QED BY <2>1, <2>2, <2>3 DEF Ends
<1>5. q[i] # Ampersand /\ i \in 1..Len(q)
  BY <1>1, <1>3 DEF n
<1>6. EndOf(q, i) = e
  BY <1>1, <1>4, <1>5, EndOfEnds
<1>7. SubSeq(q, i, e) = SubSeq(x, i, e)
  <2> DEFINE s == SubSeq(q, i, e)
             t == SubSeq(x, i, e)
  <2>1. (\A k \in i..e : q[k] \in Byte) /\ (\A k \in i..e : x[k] \in Byte) /\ i \in Int /\ e \in Int
    BY <1>1, <1>3 DEF n
  <2>2. s \in Seq(Byte) /\ Len(s) = e - i + 1 /\ \A k \in 1..(e - i + 1) : s[k] = q[i + k - 1]
    BY <1>3, <2>1, SubSeqProperties
  <2>3. t \in Seq(Byte) /\ Len(t) = e - i + 1 /\ \A k \in 1..(e - i + 1) : t[k] = x[i + k - 1]
    BY <1>3, <2>1, SubSeqProperties
  <2>4. ASSUME NEW k \in 1..(e - i + 1) PROVE i + k - 1 \in 1..n
    <3>1. k \in Int /\ i \in Int /\ e \in Int /\ n \in Int
      BY <1>1, <1>3
    <3>2. 1 <= k /\ k <= e - i + 1 /\ 1 <= i /\ e <= n
      BY <1>1, <1>3
    <3> QED BY <3>1, <3>2
  <2> HIDE DEF s, t
  <2>5. \A k \in 1..(e - i + 1) : s[k] = t[k]
    BY <1>1, <2>2, <2>3, <2>4
  <2>6. s = t
    BY <2>2, <2>3, <2>5, SeqEqual
  <2> QED BY <2>6 DEF s, t
<1> QED BY <1>6, <1>7 DEF e, q

\* Where there is no ampersand, the stretch is the whole query.
LEMMA EndOfPlain ==
  ASSUME NEW p \in Seq(Plain), p # <<>>
  PROVE  EndOf(p, 1) = Len(p)
<1>1. p \in Seq(Byte) /\ Len(p) \in Nat \ {0} /\ \A k \in 1..Len(p) : p[k] # Ampersand
  BY DEF Plain
<1>2. Ends(p, 1, Len(p))
  BY <1>1 DEF Ends
<1> QED BY <1>1, <1>2, EndOfEnds

\* The piece that starts at a position.
PieceAt(q, i) == IF StartsAt(q, i) THEN <<SubSeq(q, i, EndOf(q, i))>> ELSE <<>>

\* A piece is text.
LEMMA PieceAtTyped ==
  ASSUME NEW q \in Seq(Byte), NEW i \in 1..Len(q)
  PROVE  PieceAt(q, i) \in Seq(Seq(Byte))
<1>1. CASE StartsAt(q, i)
  <2> DEFINE e == EndOf(q, i)
  <2>1. Ends(q, i, e)
    BY <1>1, EndOfEnds DEF StartsAt
  <2> HIDE DEF e
  <2>2. e \in i..Len(q) /\ i \in 1..Len(q) /\ Len(q) \in Nat
    BY <2>1 DEF Ends
  <2>3. SubSeq(q, i, e) \in Seq(Byte)
    BY <2>2
  <2> QED BY <1>1, <2>3 DEF PieceAt, e
<1>2. CASE ~StartsAt(q, i)
  BY <1>2 DEF PieceAt
<1> QED BY <1>1, <1>2

\* A query without ampersands is one piece.
LEMMA ServerPiecesOfPlain ==
  ASSUME NEW p \in Seq(Plain)
  PROVE  ServerPieces(p) = One(p)
<1> DEFINE m == Len(p)
           k == 1
<1>1. p \in Seq(Byte) /\ m \in Nat /\ DOMAIN p = 1..m /\ \A i \in 1..m : p[i] # Ampersand
  BY DEF Plain
<1>2. ASSUME NEW i \in 1..m PROVE PieceAt(p, i) = IF i = 1 THEN <<p>> ELSE <<>>
  <2>1. CASE i = 1
    <3>1. StartsAt(p, i) /\ p # <<>>
      BY <1>1, <2>1 DEF StartsAt
    <3>2. EndOf(p, i) = Len(p)
      BY <2>1, <3>1, EndOfPlain
    <3>3. SubSeq(p, i, EndOf(p, i)) = p
      BY <1>1, <2>1, <3>2, SubSeqFull
    <3> QED BY <2>1, <3>1, <3>3 DEF PieceAt
  <2>2. CASE i # 1
    <3>1. i - 1 \in 1..m
      BY <1>1, <2>2
    <3>2. ~StartsAt(p, i)
      BY <1>1, <2>2, <3>1 DEF StartsAt
    <3> QED BY <2>2, <3>2 DEF PieceAt
  <2> QED BY <2>1, <2>2
<1>3. [i \in DOMAIN p |-> PieceAt(p, i)] = Sparse(m, 1, <<p>>)
  BY <1>1, <1>2 DEF Sparse
<1>4. ServerPieces(p) = FlattenSeq(Sparse(m, 1, <<p>>))
  BY <1>3 DEF ServerPieces, PieceAt
<1>5. <<p>> \in Seq(Seq(Byte))
  BY <1>1
<1>6. FlattenSeq(Sparse(m, 1, <<p>>)) = IF 1 \in 1..m THEN <<p>> ELSE <<>>
  BY <1>1, <1>5, FlattenSparse
<1>7. 1 \in 1..m <=> p # <<>>
  BY <1>1
<1> QED BY <1>4, <1>6, <1>7 DEF One

\* Behind an ampersand, the one piece starts right after it.
LEMMA PiecesAfterAmpersand ==
  ASSUME NEW x \in Seq(Byte), NEW p \in Seq(Plain), NEW k \in 1..(Len(p) + 1)
  PROVE  PieceAt((x \o <<Ampersand>>) \o p, Len(x) + k) = IF k = 2 THEN <<p>> ELSE <<>>
<1> DEFINE q == (x \o <<Ampersand>>) \o p
           n == Len(x)
           m == Len(p)
<1>1. p \in Seq(Byte) /\ \A i \in 1..m : p[i] # Ampersand
  BY DEF Plain
<1>2. /\ q \in Seq(Byte) /\ Len(q) = n + 1 + m /\ n \in Nat /\ m \in Nat
      /\ q[n + 1] = Ampersand
      /\ \A i \in 1..m : q[n + 1 + i] = p[i]
  BY <1>1 DEF Ampersand, Byte
<1> HIDE DEF q, n, m
<1>3. CASE k = 1
  <2>1. ~StartsAt(q, n + k)
    BY <1>2, <1>3 DEF StartsAt
  <2> QED BY <1>3, <2>1 DEF PieceAt, q, n
<1>4. CASE k = 2
  <2>1. m >= 1 /\ n + k = n + 1 + 1 /\ (n + k) - 1 = n + 1 /\ n + k \in 1..Len(q)
    BY <1>2, <1>4 DEF m
  <2>2. q[n + k] # Ampersand
    BY <1>1, <1>2, <2>1
  <2>3. StartsAt(q, n + k)
    BY <1>2, <2>1, <2>2 DEF StartsAt
  <2>4. Ends(q, n + k, Len(q))
    <3>1. ASSUME NEW i \in (n + k)..Len(q) PROVE q[i] # Ampersand
      <4>1. i - (n + 1) \in 1..m /\ n + 1 + (i - (n + 1)) = i
        <5>1. i \in (n + 2)..(n + 1 + m) /\ n \in Nat /\ m \in Nat
          BY <1>2, <1>4
        <5> QED BY <5>1
      <4> QED BY <1>1, <1>2, <4>1
    <3>2. Len(q) \in (n + k)..Len(q)
      BY <2>1
    <3> QED BY <3>1, <3>2 DEF Ends
  <2>5. EndOf(q, n + k) = Len(q)
    BY <1>2, <2>1, <2>2, <2>4, EndOfEnds
  <2>6. SubSeq(q, n + k, Len(q)) = p
    <3> DEFINE s == SubSeq(q, n + k, Len(q))
    <3>1. n + k \in 1..(Len(q) + 1) /\ Len(q) - (n + k) + 1 = m
      BY <1>2, <1>4, <2>1
    <3>2. s \in Seq(Byte) /\ Len(s) = m /\ \A i \in 1..m : s[i] = q[n + k + i - 1]
      BY <1>2, <3>1, Suffix
    <3>3. \A i \in 1..m : n + k + i - 1 = n + 1 + i
      BY <1>2, <1>4
    <3> HIDE DEF s
    <3>4. \A i \in 1..m : s[i] = p[i]
      BY <1>2, <3>2, <3>3
    <3>5. Len(p) = m
      BY DEF m
    <3>6. s = p
      BY <1>1, <3>2, <3>4, <3>5, SeqEqual
    <3> QED BY <3>6 DEF s
  <2> QED BY <1>4, <2>3, <2>5, <2>6 DEF PieceAt, q, n
<1>5. CASE k > 2
  <2>1. (n + k) - 1 = n + 1 + (k - 2) /\ k - 2 \in 1..m /\ n + k # 1
    BY <1>2, <1>5 DEF m
  <2>2. q[(n + k) - 1] # Ampersand
    BY <1>1, <1>2, <2>1
  <2>3. ~StartsAt(q, n + k)
    BY <2>1, <2>2 DEF StartsAt
  <2> QED BY <1>5, <2>3 DEF PieceAt, q, n
<1>6. k = 1 \/ k = 2 \/ k > 2
  BY <1>2 DEF m
<1> QED BY <1>3, <1>4, <1>5, <1>6

\* A piece is text, or none.
LEMMA OneTyped == \A p \in Seq(Byte) : One(p) \in Seq(Seq(Byte))
BY DEF One

\* A last piece is the last of the server's pieces.
LEMMA ServerPiecesOfMore ==
  ASSUME NEW x \in Seq(Byte), NEW p \in Seq(Plain)
  PROVE  ServerPieces((x \o <<Ampersand>>) \o p) = ServerPieces(x) \o One(p)
<1> DEFINE q == (x \o <<Ampersand>>) \o p
           n == Len(x)
           m == Len(p) + 1
           f == [i \in 1..n |-> PieceAt(x, i)]
           g == Sparse(m, 2, <<p>>)
           h == [i \in 1..(n + m) |-> PieceAt(q, i)]
<1>1. p \in Seq(Byte) /\ <<p>> \in Seq(Seq(Byte))
  BY DEF Plain
<1>2. /\ q \in Seq(Byte) /\ Len(q) = n + m /\ n \in Nat /\ m \in Nat
      /\ DOMAIN q = 1..(n + m) /\ DOMAIN x = 1..n
      /\ \A i \in 1..n : q[i] = x[i]
      /\ q[n + 1] = Ampersand
  BY <1>1 DEF Ampersand, Byte
<1>3. ASSUME NEW i \in 1..n PROVE PieceAt(q, i) = PieceAt(x, i)
  <2>1. StartsAt(q, i) <=> StartsAt(x, i)
    <3>1. i = 1 \/ i - 1 \in 1..n
      BY <1>2
    <3> HIDE DEF q
    <3> QED BY <1>2, <3>1 DEF StartsAt
  <2>2. CASE ~StartsAt(x, i)
    BY <2>1, <2>2 DEF PieceAt
  <2>3. CASE StartsAt(x, i)
    <3>1. x[i] # Ampersand
      BY <2>3 DEF StartsAt
    <3>2. SubSeq(q, i, EndOf(q, i)) = SubSeq(x, i, EndOf(x, i))
      BY <1>1, <2>1, <2>3, <3>1, EndBeforeAmpersand
    <3> QED BY <2>1, <2>3, <3>2 DEF PieceAt
  <2> QED BY <2>2, <2>3
<1>4. ASSUME NEW k \in 1..m PROVE PieceAt(q, n + k) = g[k]
  <2>1. PieceAt(q, n + k) = IF k = 2 THEN <<p>> ELSE <<>>
    BY PiecesAfterAmpersand
  <2> QED BY <2>1 DEF Sparse
<1>5. f \in [1..n -> Seq(Seq(Byte))]
  BY PieceAtTyped
<1>6. h \in [1..(n + m) -> Seq(Seq(Byte))]
  <2>1. \A i \in 1..(n + m) : PieceAt(q, i) \in Seq(Seq(Byte))
    BY <1>2, PieceAtTyped
  <2> HIDE DEF q
  <2> QED BY <2>1
<1>7. g \in [1..m -> Seq(Seq(Byte))]
  BY <1>1 DEF Sparse
<1>8. ServerPieces(q) = FlattenSeq(h) /\ ServerPieces(x) = FlattenSeq(f)
  BY <1>2 DEF ServerPieces, PieceAt
<1>9. (\A i \in 1..n : h[i] = f[i]) /\ (\A i \in 1..m : h[n + i] = g[i])
  <2>1. \A i \in 1..n : i \in 1..(n + m)
    BY <1>2
  <2>2. \A i \in 1..m : n + i \in 1..(n + m)
    BY <1>2
  <2> HIDE DEF q, g, m, n
  <2> QED BY <1>3, <1>4, <2>1, <2>2
<1>10. FlattenSeq(g) = One(p)
  <2>1. FlattenSeq(g) = IF 2 \in 1..m THEN <<p>> ELSE <<>>
    <3> DEFINE d == <<p>>
               S == Seq(Byte)
    <3>1. d \in Seq(S) /\ m \in Nat /\ 2 \in Nat
      BY <1>1, <1>2
    <3> HIDE DEF d, S, m
    <3>2. FlattenSeq(Sparse(m, 2, d)) = IF 2 \in 1..m THEN d ELSE <<>>
      BY <3>1, FlattenSparse
    <3> QED BY <3>2 DEF d
  <2>2. 2 \in 1..m <=> p # <<>>
    BY <1>1
  <2> QED BY <2>1, <2>2 DEF One
<1> HIDE DEF q, n, m, f, g, h
<1>11. Joins(Seq(Byte), n, m, f, g, h)
  BY <1>2, <1>5, <1>6, <1>7, <1>9 DEF Joins
<1>12. FlattenSeq(h) = FlattenSeq(f) \o FlattenSeq(g)
  BY <1>11, FlattenParts
<1> QED BY <1>8, <1>10, <1>12 DEF q

\* One byte more of a query that is being split.
SplitStep(before, b) ==
  IF b = Ampersand THEN Append(before, <<>>)
  ELSE Append(Front(before), Append(Last(before), b))

\* What split gives: at least one piece.
PartsOf == {s \in Seq(Seq(Byte)) : s # <<>>}

\* A step of split leaves at least one piece.
LEMMA SplitStepTyped ==
  ASSUME NEW s \in PartsOf, NEW b \in Byte
  PROVE  SplitStep(s, b) \in PartsOf
<1>1. s \in Seq(Seq(Byte)) /\ Len(s) \in Nat \ {0}
  BY DEF PartsOf
<1>2. Front(s) \in Seq(Seq(Byte)) /\ Last(s) \in Seq(Byte)
  BY <1>1 DEF Front, Last
<1>3. Append(Last(s), b) \in Seq(Byte) /\ <<>> \in Seq(Byte)
  BY <1>2
<1>4. ASSUME NEW t \in Seq(Seq(Byte)), NEW v \in Seq(Byte) PROVE Append(t, v) \in PartsOf
  <2>1. Append(t, v) \in Seq(Seq(Byte)) /\ Append(t, v) # <<>>
    BY AppendProperties
  <2> QED BY <2>1 DEF PartsOf
<1> QED BY <1>1, <1>2, <1>3, <1>4 DEF SplitStep

\* The steps of split.
SplitSteps(f, q) == f[0] = << <<>> >> /\ \A k \in 1..Len(q) : f[k] = SplitStep(f[k - 1], q[k])

\* Split is what these steps lead to.
LEMMA SplitBySteps ==
  ASSUME NEW q \in Seq(Byte)
  PROVE  \E f \in [0..Len(q) -> PartsOf] : SplitSteps(f, q) /\ Split(q) = f[Len(q)]
<1> DEFINE N == Len(q)
           next == [k \in 0..(N - 1) |-> [s \in PartsOf |-> SplitStep(s, q[k + 1])]]
           start == << <<>> >>
<1>1. N \in Nat /\ \A k \in 1..N : q[k] \in Byte
  OBVIOUS
<1>2. start \in PartsOf
  BY DEF PartsOf
<1>3. next \in [0..(N - 1) -> [PartsOf -> PartsOf]]
  <2>1. \A k \in 0..(N - 1) : k + 1 \in 1..N
    BY <1>1
  <2> QED BY <1>1, <2>1, SplitStepTyped
<1>4. \A k \in 0..(N - 1), s \in PartsOf : next[k][s] = SplitStep(s, q[k + 1])
  OBVIOUS
<1> HIDE DEF next, start
<1>5. PICK f \in [0..N -> PartsOf] : Steps(f, start, next, N)
  BY <1>1, <1>2, <1>3, Recursion
<1>6. \A k \in 1..N : f[k] = SplitStep(f[k - 1], q[k])
  <2>1. SUFFICES ASSUME NEW k \in 1..N PROVE f[k] = SplitStep(f[k - 1], q[k])
    OBVIOUS
  <2>2. k - 1 \in 0..(N - 1) /\ k - 1 \in 0..N /\ (k - 1) + 1 = k
    BY <1>1
  <2>3. f[k] = next[k - 1][f[k - 1]]
    BY <1>5, <2>2 DEF Steps
  <2> QED BY <1>4, <2>2, <2>3
<1>7. f[0] = start
  BY <1>5 DEF Steps
<1>8. SplitSteps(f, q)
  BY <1>6, <1>7 DEF SplitSteps, start
<1> DEFINE Is(g) == g = [i \in 0..N |->
                          IF i = 0 THEN << <<>> >>
                          ELSE LET before == g[i - 1]
                               IN IF q[i] = Ampersand THEN Append(before, <<>>)
                                  ELSE Append(Front(before), Append(Last(before), q[i]))]
           upTo == CHOOSE g : Is(g)
<1>9. Split(q) = upTo[N]
  BY DEF Split
<1>10. \A g : Is(g) <=> g = [i \in 0..N |-> IF i = 0 THEN start ELSE SplitStep(g[i - 1], q[i])]
  BY DEF SplitStep, start
<1> HIDE DEF Is
<1>11. Is(f)
  <2>1. \A i \in 0..N : f[i] = IF i = 0 THEN start ELSE SplitStep(f[i - 1], q[i])
    <3>1. \A i \in 0..N : i # 0 => i \in 1..N
      BY <1>1
    <3> QED BY <1>6, <1>7, <3>1
  <2>2. f = [i \in 0..N |-> IF i = 0 THEN start ELSE SplitStep(f[i - 1], q[i])]
    BY <2>1
  <2> QED BY <1>10, <2>2
<1>12. upTo = [i \in 0..N |-> IF i = 0 THEN start ELSE SplitStep(upTo[i - 1], q[i])]
  <2>1. Is(upTo)
    BY <1>11
  <2> HIDE DEF upTo
  <2> QED BY <1>10, <2>1
<1> HIDE DEF upTo
<1> DEFINE A == {n \in Nat : upTo[n] = f[n]}
<1>13. 0 \in A
  BY <1>1, <1>7, <1>12
<1>14. ASSUME NEW n \in Nat, n < N, n \in A PROVE n + 1 \in A
  <2>1. n + 1 \in 0..N /\ n + 1 \in 1..N /\ (n + 1) - 1 = n /\ n + 1 # 0
    BY <1>1, <1>14
  <2>2. upTo[n + 1] = SplitStep(upTo[n], q[n + 1])
    BY <1>12, <2>1
  <2>3. f[n + 1] = SplitStep(f[n], q[n + 1])
    BY <1>6, <2>1
  <2> QED BY <1>14, <2>2, <2>3
<1>15. N \in A
  <2>1. 0..N \subseteq A
    <3> HIDE DEF A, N
    <3> QED BY <1>1, <1>13, <1>14, SetInductionTo
  <2> QED BY <1>1, <2>1
<1> QED BY <1>5, <1>8, <1>9, <1>15

\* The empty query is one empty piece.
LEMMA SplitEmpty == Split(<<>>) = << <<>> >>
<1>1. <<>> \in Seq(Byte) /\ Len(<<>>) = 0
  OBVIOUS
<1>2. PICK f : SplitSteps(f, <<>>) /\ Split(<<>>) = f[0]
  BY <1>1, SplitBySteps
<1> QED BY <1>2 DEF SplitSteps

\* One more byte is one more step.
LEMMA SplitAppend ==
  ASSUME NEW q \in Seq(Byte), NEW b \in Byte
  PROVE  Split(Append(q, b)) = SplitStep(Split(q), b) /\ Split(q) \in PartsOf
<1> DEFINE r == Append(q, b)
           N == Len(q)
<1>1. r \in Seq(Byte) /\ Len(r) = N + 1 /\ N \in Nat /\ r[N + 1] = b /\ \A k \in 1..N : r[k] = q[k]
  OBVIOUS
<1> HIDE DEF r
<1>2. PICK f \in [0..N -> PartsOf] : SplitSteps(f, q) /\ Split(q) = f[N]
  BY SplitBySteps
<1>3. PICK g \in [0..(N + 1) -> PartsOf] : SplitSteps(g, r) /\ Split(r) = g[N + 1]
  BY <1>1, SplitBySteps
<1>4. f[0] = << <<>> >> /\ g[0] = << <<>> >>
  BY <1>2, <1>3 DEF SplitSteps
<1>5. \A k \in 1..N : f[k] = SplitStep(f[k - 1], q[k])
  BY <1>2 DEF SplitSteps
<1>6. \A k \in 1..(N + 1) : g[k] = SplitStep(g[k - 1], r[k])
  BY <1>1, <1>3 DEF SplitSteps
<1> DEFINE A == {n \in Nat : f[n] = g[n]}
<1>7. 0 \in A
  BY <1>4
<1>8. ASSUME NEW n \in Nat, n < N, n \in A PROVE n + 1 \in A
  <2>1. n + 1 \in 1..(N + 1) /\ n + 1 \in 1..N /\ (n + 1) - 1 = n
    BY <1>1, <1>8
  <2>2. f[n + 1] = SplitStep(f[n], q[n + 1])
    BY <1>5, <2>1
  <2>3. g[n + 1] = SplitStep(g[n], r[n + 1])
    BY <1>6, <2>1
  <2> QED BY <1>1, <1>8, <2>1, <2>2, <2>3
<1>9. N \in A
  <2>1. 0..N \subseteq A
    <3> HIDE DEF A, N
    <3> QED BY <1>1, <1>7, <1>8, SetInductionTo
  <2> QED BY <1>1, <2>1
<1>10. N + 1 \in 1..(N + 1) /\ (N + 1) - 1 = N
  BY <1>1
<1>11. g[N + 1] = SplitStep(g[N], b)
  BY <1>1, <1>6, <1>10
<1>12. f[N] \in PartsOf
  BY <1>1, <1>2
<1> QED BY <1>2, <1>3, <1>9, <1>11, <1>12 DEF r

\* A piece without ampersands joins the piece that an ampersand began.
LEMMA SplitGrows ==
  ASSUME NEW y \in Seq(Byte), NEW s \in Seq(Seq(Byte)), Split(y) = Append(s, <<>>),
         NEW p \in Seq(Plain)
  PROVE  Split(y \o p) = Append(s, p)
<1> DEFINE part(n) == SubSeq(p, 1, n)
           A == {n \in Nat : n <= Len(p) => Split(y \o part(n)) = Append(s, part(n))}
<1>1. p \in Seq(Byte) /\ Len(p) \in Nat /\ \A i \in 1..Len(p) : p[i] \in Byte /\ p[i] # Ampersand
  BY DEF Plain
<1>2. 0 \in A
  <2>1. part(0) = <<>> /\ y \o <<>> = y
    OBVIOUS
  <2> HIDE DEF part
  <2> QED BY <2>1
<1>3. ASSUME NEW n \in Nat, n \in A PROVE n + 1 \in A
  <2>1. SUFFICES ASSUME n + 1 <= Len(p)
                 PROVE  Split(y \o part(n + 1)) = Append(s, part(n + 1))
    OBVIOUS
  <2> DEFINE b == p[n + 1]
             u == part(n)
  <2>2. b \in Byte /\ b # Ampersand
    BY <1>1, <2>1
  <2>3. u \in Seq(Byte) /\ part(n + 1) = Append(u, b)
    BY <1>1, <2>1
  <2>4. Split(y \o u) = Append(s, u)
    BY <1>3, <2>1
  <2> HIDE DEF b, u, part
  <2>5. y \o Append(u, b) = Append(y \o u, b) /\ y \o u \in Seq(Byte)
    BY <2>2, <2>3, ConcatAppend
  <2>6. Split(Append(y \o u, b)) = SplitStep(Append(s, u), b)
    BY <2>2, <2>4, <2>5, SplitAppend
  <2>7. Front(Append(s, u)) = s /\ Last(Append(s, u)) = u
    <3> DEFINE t == Append(s, u)
    <3>1. t \in Seq(Seq(Byte)) /\ Len(t) = Len(s) + 1 /\ t[Len(s) + 1] = u
      BY <2>3
    <3>2. SubSeq(t, 1, Len(s)) = s
      BY <2>3
    <3>3. Len(s) + 1 - 1 = Len(s)
      OBVIOUS
    <3> HIDE DEF t
    <3>4. Front(t) = s /\ Last(t) = u
      BY <3>1, <3>2, <3>3 DEF Front, Last
    <3> QED BY <3>4 DEF t
  <2>8. SplitStep(Append(s, u), b) = Append(s, Append(u, b))
    BY <2>2, <2>7 DEF SplitStep
  <2> QED BY <2>3, <2>5, <2>6, <2>8
<1>4. Nat \subseteq A
  <2> HIDE DEF A
  <2> QED BY <1>2, <1>3, SetInduction
<1>5. Len(p) \in A /\ part(Len(p)) = p
  BY <1>1, <1>4, SubSeqFull
<1> HIDE DEF part
<1> QED BY <1>1, <1>5

\* A query without ampersands is not split.
LEMMA SplitOfPlain ==
  ASSUME NEW p \in Seq(Plain)
  PROVE  Split(p) = <<p>>
<1> DEFINE y == <<>>
           s == <<>>
<1>1. y \in Seq(Byte) /\ s \in Seq(Seq(Byte)) /\ Split(y) = Append(s, <<>>) /\ y \o p = p
      /\ Append(s, p) = <<p>>
  BY SplitEmpty
<1> HIDE DEF y, s
<1>2. Split(y \o p) = Append(s, p)
  BY <1>1, SplitGrows
<1> QED BY <1>1, <1>2

\* What follows the last ampersand is the last piece.
LEMMA SplitOfMore ==
  ASSUME NEW x \in Seq(Byte), NEW p \in Seq(Plain)
  PROVE  Split((x \o <<Ampersand>>) \o p) = Append(Split(x), p)
<1> DEFINE y == x \o <<Ampersand>>
           s == Split(x)
<1>1. Ampersand \in Byte
  BY DEF Ampersand, Byte
<1>2. y \in Seq(Byte) /\ y = Append(x, Ampersand)
  BY <1>1
<1>3. Split(y) = Append(s, <<>>)
  BY <1>1, <1>2, SplitAppend DEF SplitStep
<1>4. s \in Seq(Seq(Byte))
  BY <1>1, SplitAppend DEF PartsOf
<1> HIDE DEF y, s
<1>5. Split(y \o p) = Append(s, p)
  BY <1>2, <1>3, <1>4, SplitGrows
<1> QED BY <1>5 DEF y, s

\* Pieces are kept one by one, empty ones dropped.
LEMMA KeptLaws ==
  /\ \A p \in Seq(Byte) : Kept(<<p>>) = One(p)
  /\ \A s \in Seq(Seq(Byte)), p \in Seq(Byte) : Kept(Append(s, p)) = Kept(s) \o One(p)
<1> DEFINE S == Seq(Byte)
           T == Seq(Byte)
           g == [p \in S |-> One(p)]
<1>1. g \in [S -> Seq(T)] /\ \A p \in S : g[p] = One(p)
  BY OneTyped
<1> HIDE DEF g, S, T
<1>2. ASSUME NEW s \in Seq(S) PROVE Kept(s) = Mapped(g, s)
  <2>1. \A i \in DOMAIN s : g[s[i]] = One(s[i])
    BY <1>1
  <2>2. [i \in DOMAIN s |-> IF s[i] = <<>> THEN <<>> ELSE <<s[i]>>] = [i \in DOMAIN s |-> g[s[i]]]
    BY <2>1 DEF One
  <2> QED BY <2>2 DEF Kept, Mapped
<1>3. /\ \A a \in S : Mapped(g, <<a>>) = g[a]
      /\ \A s, t \in Seq(S) : Mapped(g, s \o t) = Mapped(g, s) \o Mapped(g, t)
  BY <1>1, MappedLaws
<1>4. \A p \in S : <<p>> \in Seq(S)
  OBVIOUS
<1>5. ASSUME NEW s \in Seq(S), NEW p \in S PROVE Kept(Append(s, p)) = Kept(s) \o One(p)
  <2>1. Append(s, p) = s \o <<p>> /\ Append(s, p) \in Seq(S)
    OBVIOUS
  <2>2. Mapped(g, s \o <<p>>) = Mapped(g, s) \o Mapped(g, <<p>>)
    BY <1>3, <1>4
  <2> QED BY <1>1, <1>2, <1>3, <2>1, <2>2
<1>6. ASSUME NEW p \in S PROVE Kept(<<p>>) = One(p)
  BY <1>1, <1>2, <1>3, <1>4
<1> QED BY <1>5, <1>6 DEF S

\* The pieces that the client keeps are those that the server finds.
LEMMA PiecesLikeServer == \A q \in Seq(Byte) : Pieces(q) = ServerPieces(q)
<1> DEFINE A == {q \in Seq(Byte) : Pieces(q) = ServerPieces(q)}
<1>1. ASSUME NEW p \in Seq(Plain) PROVE p \in A
  <2>1. p \in Seq(Byte)
    BY DEF Plain
  <2> QED BY <2>1, SplitOfPlain, KeptLaws, ServerPiecesOfPlain DEF Pieces
<1>2. ASSUME NEW x \in Seq(Byte), NEW p \in Seq(Plain), x \in A
      PROVE  (x \o <<Ampersand>>) \o p \in A
  <2> DEFINE q == (x \o <<Ampersand>>) \o p
  <2>1. p \in Seq(Byte)
    BY DEF Plain
  <2>2. q \in Seq(Byte)
    BY <2>1 DEF Ampersand, Byte
  <2>3. Split(q) = Append(Split(x), p)
    BY SplitOfMore
  <2>4. Split(x) \in Seq(Seq(Byte))
    <3>1. Ampersand \in Byte
      BY DEF Ampersand, Byte
    <3> QED BY <3>1, SplitAppend DEF PartsOf
  <2>5. Kept(Append(Split(x), p)) = Kept(Split(x)) \o One(p)
    BY <2>1, <2>4, KeptLaws
  <2>6. ServerPieces(q) = ServerPieces(x) \o One(p)
    BY ServerPiecesOfMore
  <2>7. Kept(Split(x)) = ServerPieces(x)
    BY <1>2 DEF Pieces
  <2> HIDE DEF q
  <2>8. q \in A
    BY <2>2, <2>3, <2>5, <2>6, <2>7 DEF Pieces
  <2> QED BY <2>8 DEF q
<1>3. \A q \in Seq(Byte) : q \in A
  <2> HIDE DEF A
  <2> QED BY <1>1, <1>2, QueryInduction
<1> QED BY <1>3

-----------------------------------------------------------------------------
(* Names and values.                                                       *)

\* What a '=' does not split.
Unsplit == Byte \ {Equals}

\* A piece is a bare name, or a name, the first '=' and a value.
LEMMA PieceForms ==
  ASSUME NEW p \in Seq(Byte), p \notin Seq(Unsplit)
  PROVE  \E a \in Seq(Unsplit), b \in Seq(Byte) : p = (a \o <<Equals>>) \o b
<1> DEFINE N == Len(p)
           T == {i \in 1..N : p[i] = Equals}
<1>1. N \in Nat /\ \A i \in 1..N : p[i] \in Byte
  OBVIOUS
<1>2. T # {}
  <2>1. SUFFICES ASSUME \A i \in 1..N : p[i] # Equals PROVE FALSE
    OBVIOUS
  <2>2. \A i \in 1..N : p[i] \in Unsplit
    BY <1>1, <2>1 DEF Unsplit
  <2>3. p \in Seq(Unsplit)
    BY <2>2
  <2> QED BY <2>3
<1>3. PICK k \in T : \A m \in T : k <= m
  <2>1. T \in SUBSET Nat
    BY <1>1
  <2> HIDE DEF T
  <2> QED BY <1>2, <2>1, LeastOf
<1>4. k \in 1..N /\ p[k] = Equals
  BY <1>3
<1>5. \A i \in 1..(k - 1) : p[i] # Equals
  <2>1. SUFFICES ASSUME NEW i \in 1..(k - 1), p[i] = Equals PROVE FALSE
    OBVIOUS
  <2>2. i \in T /\ i < k /\ i \in Nat /\ k \in Nat
    BY <1>1, <1>4, <2>1
  <2> HIDE DEF T
  <2> QED BY <1>3, <2>2
<1> HIDE DEF T
<1> DEFINE a == SubSeq(p, 1, k - 1)
           b == SubSeq(p, k + 1, N)
<1>6. a \in Seq(Unsplit)
  <2>1. \A i \in 1..(k - 1) : p[i] \in Unsplit
    BY <1>1, <1>4, <1>5 DEF Unsplit
  <2>2. k - 1 \in Int /\ 1 \in Int
    BY <1>1, <1>4
  <2> QED BY <2>1, <2>2, SubSeqProperties
<1>7. b \in Seq(Byte)
  BY <1>1, <1>4
<1>8. p = (a \o <<Equals>>) \o b
  <2>1. a \o <<Equals>> = SubSeq(p, 1, k)
    BY <1>1, <1>4, SubSeqRecursiveSecond
  <2>2. SubSeq(p, 1, k) \o b = SubSeq(p, 1, N)
    BY <1>1, <1>4, ConcatAdjacentSubSeq
  <2>3. SubSeq(p, 1, N) = p
    BY SubSeqFull
  <2> QED BY <2>1, <2>2, <2>3
<1> HIDE DEF a, b
<1> QED BY <1>6, <1>7, <1>8

\* n bytes of a piece are its name.
Names(p, n) ==
  /\ n \in 0..Len(p)
  /\ \A k \in 1..n : p[k] # Equals
  /\ n = Len(p) \/ p[n + 1] = Equals

\* A piece has one name.
LEMMA NameLengthOnce ==
  ASSUME NEW p \in Seq(Byte), NEW n, Names(p, n)
  PROVE  NameLength(p) = n
<1>1. ASSUME NEW i, NEW j, Names(p, i), Names(p, j), i < j PROVE FALSE
  <2>1. i \in Int /\ j \in Int /\ i + 1 \in 1..j /\ i < Len(p)
    BY <1>1 DEF Names
  <2> QED BY <1>1, <2>1 DEF Names
<1>2. NameLength(p) = CHOOSE m \in 0..Len(p) : Names(p, m)
  BY DEF NameLength, Names
<1>3. Names(p, NameLength(p))
  BY <1>2 DEF Names
<1>4. n \in Int /\ NameLength(p) \in Int
  BY <1>3 DEF Names
<1>5. ~(n < NameLength(p)) /\ ~(NameLength(p) < n)
  BY <1>1, <1>3
<1> QED BY <1>4, <1>5

\* A piece without '=' is a name with an empty value, to both sides.
LEMMA BareName ==
  ASSUME NEW a \in Seq(Unsplit)
  PROVE  /\ ServerPair(a) = <<ServerDecoded(a), <<>>>>
         /\ CanonicalPiece(a) = EncodeCanonical(a) \o <<Equals>> \o EncodeCanonical(<<>>)
<1> DEFINE n == Len(a)
<1>1. a \in Seq(Byte) /\ n \in Nat /\ \A k \in 1..n : a[k] # Equals
  BY DEF Unsplit
<1>2. NameLength(a) = n
  <2>1. Names(a, n)
    BY <1>1 DEF Names
  <2> QED BY <1>1, <2>1, NameLengthOnce
<1>3. SubSeq(a, 1, n) = a /\ SubSeq(a, n + 2, Len(a)) = <<>>
  BY <1>1, SubSeqFull, SubSeqEmpty
<1>4. ServerPair(a) = <<ServerDecoded(a), <<>>>>
  BY <1>2, <1>3, DecodedEmpty DEF ServerPair
<1>5. SelectInSeq(a, LAMBDA b : b = Equals) = 0
  BY <1>1 DEF SelectInSeq
<1>6. CanonicalPiece(a) = EncodeCanonical(a) \o <<Equals>> \o EncodeCanonical(<<>>)
  BY <1>5 DEF CanonicalPiece
<1> QED BY <1>4, <1>6

\* The first '=' separates name and value, to both sides.
LEMMA NameAndValue ==
  ASSUME NEW a \in Seq(Unsplit), NEW b \in Seq(Byte)
  PROVE  LET p == (a \o <<Equals>>) \o b
         IN  /\ ServerPair(p) = <<ServerDecoded(a), ServerDecoded(b)>>
             /\ CanonicalPiece(p) = EncodeCanonical(a) \o <<Equals>> \o EncodeCanonical(b)
<1> DEFINE p == (a \o <<Equals>>) \o b
           n == Len(a)
<1>1. a \in Seq(Byte) /\ n \in Nat /\ \A k \in 1..n : a[k] # Equals
  BY DEF Unsplit
<1>2. /\ p \in Seq(Byte) /\ Len(p) = n + 1 + Len(b) /\ Len(b) \in Nat
      /\ p[n + 1] = Equals
      /\ \A k \in 1..n : p[k] = a[k]
  BY <1>1 DEF Equals, Byte
<1>3. SubSeq(p, 1, n) = a /\ SubSeq(p, n + 2, Len(p)) = b
  BY <1>1 DEF Equals, Byte
<1> HIDE DEF p, n
<1>4. NameLength(p) = n
  <2>1. Names(p, n)
    BY <1>1, <1>2 DEF Names
  <2> QED BY <1>2, <2>1, NameLengthOnce
<1>5. ServerPair(p) = <<ServerDecoded(a), ServerDecoded(b)>>
  BY <1>3, <1>4 DEF ServerPair
<1>6. SelectInSeq(p, LAMBDA c : c = Equals) = n + 1
  <2> DEFINE I == {i \in 1..Len(p) : p[i] = Equals}
  <2>1. n + 1 \in I /\ \A i \in I : n + 1 <= i
    BY <1>1, <1>2
  <2>2. Min(I) = n + 1
    BY <1>1, <2>1 DEF Min
  <2>3. I # {}
    BY <2>1
  <2> HIDE DEF I
  <2>4. SelectInSeq(p, LAMBDA c : c = Equals) = IF I # {} THEN Min(I) ELSE 0
    BY DEF SelectInSeq, I
  <2> QED BY <2>2, <2>3, <2>4
<1>7. CanonicalPiece(p) = EncodeCanonical(a) \o <<Equals>> \o EncodeCanonical(b)
  <2>1. n + 1 # 0 /\ (n + 1) - 1 = n /\ (n + 1) + 1 = n + 2
    BY <1>1
  <2>2. CanonicalPiece(p)
          = LET at == n + 1
                name == IF at = 0 THEN p ELSE SubSeq(p, 1, at - 1)
                value == IF at = 0 THEN <<>> ELSE SubSeq(p, at + 1, Len(p))
            IN EncodeCanonical(name) \o <<Equals>> \o EncodeCanonical(value)
    BY <1>6 DEF CanonicalPiece
  <2> QED BY <1>3, <2>1, <2>2
<1> QED BY <1>5, <1>7 DEF p

\* A decoded name and value.
Pair == Seq(Byte) \X Seq(Byte)

\* A piece gives a pair.
LEMMA ServerPairTyped == \A p \in Seq(Byte) : ServerPair(p) \in Pair
<1>1. SUFFICES ASSUME NEW p \in Seq(Byte) PROVE ServerPair(p) \in Pair
  OBVIOUS
<1>2. CASE p \in Seq(Unsplit)
  <2>1. ServerPair(p) = <<ServerDecoded(p), <<>>>>
    BY <1>2, BareName
  <2>2. ServerDecoded(p) \in Seq(Byte) /\ <<>> \in Seq(Byte)
    BY DecodedTyped
  <2>3. \A x, y \in Seq(Byte) : <<x, y>> \in Pair
    BY DEF Pair
  <2> QED BY <2>1, <2>2, <2>3
<1>3. CASE p \notin Seq(Unsplit)
  <2>1. PICK a \in Seq(Unsplit), b \in Seq(Byte) : p = (a \o <<Equals>>) \o b
    BY <1>3, PieceForms
  <2>2. a \in Seq(Byte)
    BY DEF Unsplit
  <2>3. ServerPair(p) = <<ServerDecoded(a), ServerDecoded(b)>>
    BY <2>1, NameAndValue
  <2>4. ServerDecoded(a) \in Seq(Byte) /\ ServerDecoded(b) \in Seq(Byte)
    BY <2>2, DecodedTyped
  <2> QED BY <2>3, <2>4 DEF Pair
<1> QED BY <1>2, <1>3

\* The client writes a piece as the server does.
LEMMA PieceLikeServer ==
  ASSUME NEW p \in Seq(Byte)
  PROVE  CanonicalPiece(p) = Written(ServerPair(p))
<1>1. CASE p \in Seq(Unsplit)
  <2> DEFINE pair == <<ServerDecoded(p), <<>>>>
  <2>1. <<>> \in Seq(Byte)
    OBVIOUS
  <2>2. EncodeCanonical(<<>>) = ServerEncoded(<<>>)
    BY <2>1, EncodeLikeServer, DecodedEmpty
  <2>3. CanonicalPiece(p) = EncodeCanonical(p) \o <<Equals>> \o EncodeCanonical(<<>>)
    BY <1>1, BareName
  <2>4. ServerPair(p) = pair
    BY <1>1, BareName
  <2>5. EncodeCanonical(p) = ServerEncoded(ServerDecoded(p))
    BY EncodeLikeServer
  <2>6. Written(pair) = ServerEncoded(pair[1]) \o <<Equals>> \o ServerEncoded(pair[2])
    BY DEF Written
  <2>7. pair[1] = ServerDecoded(p) /\ pair[2] = <<>>
    OBVIOUS
  <2> QED BY <2>2, <2>3, <2>4, <2>5, <2>6, <2>7
<1>2. CASE p \notin Seq(Unsplit)
  <2>1. PICK a \in Seq(Unsplit), b \in Seq(Byte) : p = (a \o <<Equals>>) \o b
    BY <1>2, PieceForms
  <2>2. a \in Seq(Byte)
    BY DEF Unsplit
  <2>3. /\ ServerPair(p) = <<ServerDecoded(a), ServerDecoded(b)>>
        /\ CanonicalPiece(p) = EncodeCanonical(a) \o <<Equals>> \o EncodeCanonical(b)
    BY <2>1, NameAndValue
  <2>4. EncodeCanonical(a) = ServerEncoded(ServerDecoded(a)) /\ EncodeCanonical(b) = ServerEncoded(ServerDecoded(b))
    BY <2>2, EncodeLikeServer
  <2> DEFINE pair == <<ServerDecoded(a), ServerDecoded(b)>>
  <2>5. Written(pair) = ServerEncoded(pair[1]) \o <<Equals>> \o ServerEncoded(pair[2])
    BY DEF Written
  <2>6. pair[1] = ServerDecoded(a) /\ pair[2] = ServerDecoded(b)
    OBVIOUS
  <2> QED BY <2>3, <2>4, <2>5, <2>6
<1> QED BY <1>1, <1>2

\* A pair is written without ampersands, and never as nothing.
LEMMA WrittenTyped ==
  ASSUME NEW pair \in Pair
  PROVE  Written(pair) \in Seq(Plain) /\ Written(pair) # <<>> /\ Written(pair) \in Seq(Byte)
<1> DEFINE a == ServerEncoded(pair[1])
           b == ServerEncoded(pair[2])
<1>1. a \in Seq(Safe) /\ b \in Seq(Safe)
  BY ServerEncodedLaws DEF Pair
<1>2. Equals \in Plain
  BY DEF Equals, Plain, Byte, Ampersand
<1>3. Safe \subseteq Plain /\ Plain \subseteq Byte
  BY DEF Safe, Plain
<1> HIDE DEF a, b
<1>4. a \in Seq(Plain) /\ b \in Seq(Plain)
  BY <1>1, <1>3
<1> DEFINE w == a \o <<Equals>> \o b
<1>5. w \in Seq(Plain) /\ Len(w) = Len(a) + 1 + Len(b) /\ Len(a) \in Nat /\ Len(b) \in Nat
  BY <1>2, <1>4
<1>6. Written(pair) = w
  BY DEF Written, a, b
<1> HIDE DEF w
<1>7. w # <<>> /\ w \in Seq(Byte)
  BY <1>3, <1>5
<1> QED BY <1>5, <1>6, <1>7

\* Reading what was written gives the pair back.
LEMMA PairOfWritten ==
  ASSUME NEW pair \in Pair
  PROVE  ServerPair(Written(pair)) = pair
<1>1. PICK x \in Seq(Byte), y \in Seq(Byte) : pair = <<x, y>>
  BY DEF Pair
<1> DEFINE a == ServerEncoded(x)
           b == ServerEncoded(y)
<1>2. a \in Seq(Safe) /\ b \in Seq(Safe) /\ ServerDecoded(a) = x /\ ServerDecoded(b) = y
  BY ServerEncodedLaws, DecodedEncoded
<1>3. Written(pair) = a \o <<Equals>> \o b
  BY <1>1 DEF Written
<1> HIDE DEF a, b
<1>4. Safe \subseteq Unsplit /\ Safe \subseteq Byte
  BY DEF Safe, Unsplit
<1>5. a \in Seq(Unsplit) /\ b \in Seq(Byte)
  BY <1>2, <1>4
<1>6. ServerPair((a \o <<Equals>>) \o b) = <<ServerDecoded(a), ServerDecoded(b)>>
  BY <1>5, NameAndValue
<1> QED BY <1>1, <1>2, <1>3, <1>6

-----------------------------------------------------------------------------
(* The pairs of a query.                                                   *)

\* The pairs of some pieces.
PairsOf(pieces) == [i \in DOMAIN pieces |-> ServerPair(pieces[i])]

\* The pair of a piece, if it is one.
OnePair(p) == IF p = <<>> THEN <<>> ELSE <<ServerPair(p)>>

\* The pieces of a query are texts.
LEMMA ServerPiecesTyped == \A q \in Seq(Byte) : ServerPieces(q) \in Seq(Seq(Byte))
<1> DEFINE A == {q \in Seq(Byte) : ServerPieces(q) \in Seq(Seq(Byte))}
<1>1. ASSUME NEW p \in Seq(Plain) PROVE p \in A /\ One(p) \in Seq(Seq(Byte))
  <2>1. p \in Seq(Byte)
    BY DEF Plain
  <2> QED BY <2>1, OneTyped, ServerPiecesOfPlain
<1>2. ASSUME NEW x \in Seq(Byte), NEW p \in Seq(Plain), x \in A
      PROVE  (x \o <<Ampersand>>) \o p \in A
  <2> DEFINE q == (x \o <<Ampersand>>) \o p
  <2>1. p \in Seq(Byte)
    BY DEF Plain
  <2>2. q \in Seq(Byte)
    BY <2>1 DEF Ampersand, Byte
  <2>3. ServerPieces(q) = ServerPieces(x) \o One(p)
    BY ServerPiecesOfMore
  <2>4. ServerPieces(x) \o One(p) \in Seq(Seq(Byte))
    BY <1>1, <1>2
  <2> HIDE DEF q
  <2>5. q \in A
    BY <2>2, <2>3, <2>4
  <2> QED BY <2>5 DEF q
<1>3. \A q \in Seq(Byte) : q \in A
  <2>1. \A p \in Seq(Plain) : p \in A
    BY <1>1
  <2> HIDE DEF A
  <2> QED BY <1>2, <2>1, QueryInduction
<1> QED BY <1>3

\* A query without ampersands carries at most one pair.
LEMMA ServerPairsOfPlain ==
  ASSUME NEW p \in Seq(Plain)
  PROVE  ServerPairs(p) = OnePair(p)
<1>1. ServerPairs(p) = PairsOf(One(p))
  BY ServerPiecesOfPlain DEF ServerPairs, PairsOf
<1>2. CASE p = <<>>
  BY <1>1, <1>2 DEF One, OnePair, PairsOf
<1>3. CASE p # <<>>
  <2> DEFINE f == PairsOf(<<p>>)
             d == ServerPair(p)
  <2>1. f = <<d>>
    BY DEF PairsOf
  <2> QED BY <1>1, <1>3, <2>1 DEF One, OnePair
<1> QED BY <1>2, <1>3

\* A query carries pairs.
LEMMA ServerPairsTyped == \A q \in Seq(Byte) : ServerPairs(q) \in Seq(Pair)
<1>1. SUFFICES ASSUME NEW q \in Seq(Byte) PROVE ServerPairs(q) \in Seq(Pair)
  OBVIOUS
<1> DEFINE s == ServerPieces(q)
           f == [i \in DOMAIN s |-> ServerPair(s[i])]
<1>2. s \in Seq(Seq(Byte))
  BY ServerPiecesTyped
<1> HIDE DEF s
<1>3. f \in [1..Len(s) -> Pair] /\ Len(s) \in Nat
  BY <1>2, ServerPairTyped
<1> HIDE DEF f
<1>4. f \in Seq(Pair)
  BY <1>3, MapIsSeq
<1> QED BY <1>4 DEF f, s, ServerPairs

\* One piece more is one pair more.
LEMMA PairsOfMore ==
  ASSUME NEW s \in Seq(Seq(Byte)), NEW p \in Seq(Byte)
  PROVE  PairsOf(s \o <<p>>) = PairsOf(s) \o <<ServerPair(p)>>
<1> DEFINE n == Len(s)
           d == ServerPair(p)
           t == s \o <<p>>
           u == PairsOf(s)
           v == PairsOf(t)
           w == u \o <<d>>
<1>1. n \in Nat /\ DOMAIN s = 1..n /\ \A i \in 1..n : s[i] \in Seq(Byte)
  OBVIOUS
<1>2. DOMAIN t = 1..(n + 1) /\ (\A i \in 1..n : t[i] = s[i]) /\ t[n + 1] = p
  OBVIOUS
<1>3. d \in Pair
  BY ServerPairTyped
<1> HIDE DEF n, t, d
<1>4. u \in [1..n -> Pair] /\ \A i \in 1..n : u[i] = ServerPair(s[i])
  BY <1>1, ServerPairTyped DEF PairsOf
<1>5. \A i \in 1..(n + 1) : i \in 1..n \/ i = n + 1
  BY <1>1
<1>6. /\ v \in [1..(n + 1) -> Pair] /\ n + 1 \in Nat
      /\ (\A i \in 1..n : v[i] = u[i]) /\ v[n + 1] = d
  <2>1. \A i \in 1..(n + 1) : t[i] \in Seq(Byte)
    BY <1>1, <1>2, <1>5
  <2>2. v \in [1..(n + 1) -> Pair]
    BY <1>2, <2>1, ServerPairTyped DEF PairsOf
  <2>3. \A i \in 1..(n + 1) : v[i] = ServerPair(t[i])
    BY <1>2 DEF PairsOf
  <2>4. n + 1 \in Nat /\ n + 1 \in 1..(n + 1) /\ \A i \in 1..n : i \in 1..(n + 1)
    BY <1>1
  <2> HIDE DEF u, v
  <2> QED BY <1>2, <1>4, <2>2, <2>3, <2>4 DEF d
<1> HIDE DEF u, v
<1>7. u \in Seq(Pair) /\ Len(u) = n /\ v \in Seq(Pair) /\ Len(v) = n + 1
  BY <1>1, <1>4, <1>6, MapIsSeq
<1>8. w \in Seq(Pair) /\ Len(w) = n + 1
  BY <1>3, <1>7
<1>9. (\A i \in 1..n : w[i] = u[i]) /\ w[n + 1] = d
  <2>1. <<d>> \in Seq(Pair) /\ Len(<<d>>) = 1 /\ <<d>>[1] = d
    BY <1>3
  <2>2. (\A i \in 1..Len(u) : w[i] = u[i]) /\ (\A i \in 1..Len(<<d>>) : w[Len(u) + i] = <<d>>[i])
    BY <1>7, <2>1, Concats
  <2> HIDE DEF w
  <2> QED BY <1>7, <2>1, <2>2
<1> HIDE DEF w
<1>10. \A i \in 1..(n + 1) : v[i] = w[i]
  BY <1>5, <1>6, <1>9
<1>11. v = w
  BY <1>7, <1>8, <1>10, SeqEqual
<1> QED BY <1>11 DEF v, w, u, t, d

\* A last piece carries the last pair.
LEMMA ServerPairsOfMore ==
  ASSUME NEW x \in Seq(Byte), NEW p \in Seq(Plain)
  PROVE  ServerPairs((x \o <<Ampersand>>) \o p) = ServerPairs(x) \o OnePair(p)
<1> DEFINE q == (x \o <<Ampersand>>) \o p
           s == ServerPieces(x)
<1>1. p \in Seq(Byte) /\ s \in Seq(Seq(Byte))
  BY ServerPiecesTyped DEF Plain
<1>2. ServerPieces(q) = s \o One(p)
  BY ServerPiecesOfMore
<1>3. ServerPairs(q) = PairsOf(s \o One(p)) /\ ServerPairs(x) = PairsOf(s)
  BY <1>2 DEF ServerPairs, PairsOf
<1>4. PairsOf(s) \in Seq(Pair)
  BY <1>3, ServerPairsTyped
<1> HIDE DEF q, s
<1>5. CASE p = <<>>
  <2>1. s \o <<>> = s /\ PairsOf(s) \o <<>> = PairsOf(s)
    BY <1>1, <1>4
  <2> QED BY <1>3, <1>5, <2>1 DEF One, OnePair, q
<1>6. CASE p # <<>>
  <2>1. PairsOf(s \o <<p>>) = PairsOf(s) \o <<ServerPair(p)>>
    BY <1>1, PairsOfMore
  <2> QED BY <1>3, <1>6, <2>1 DEF One, OnePair, q
<1> QED BY <1>5, <1>6

\* Escaping what a query may not hold writes no separator.
LEMMA ParsedKeeps ==
  ASSUME NEW c \in {Ampersand, Equals}, NEW s \in Seq(Byte \ {c})
  PROVE  ParsedQuery(s) \in Seq(Byte \ {c})
<1> DEFINE Z == Byte \ {c}
           f == [i \in DOMAIN s |-> ParsedByte(s[i])]
<1>1. \A b \in HexDigits \cup {Percent} : b \in Z
  BY HexTyped DEF HexDigits, Digits, Percent, Ampersand, Equals, Byte
<1>2. ASSUME NEW b \in Z PROVE ParsedByte(b) \in Seq(Z)
  <2> DEFINE x == HexDigit(b \div 16)
             y == HexDigit(b % 16)
  <2>1. Escaped(b) = <<Percent, x, y>> /\ x \in HexDigits /\ y \in HexDigits
    BY EscapedParts
  <2> HIDE DEF x, y
  <2>2. Percent \in Z /\ x \in Z /\ y \in Z
    BY <1>1, <2>1
  <2> HIDE DEF Z
  <2>3. Escaped(b) \in Seq(Z) /\ <<b>> \in Seq(Z)
    BY <1>2, <2>1, <2>2
  <2> QED BY <2>3 DEF ParsedByte
<1>3. s \in Seq(Z)
  OBVIOUS
<1> HIDE DEF Z
<1>4. f \in [1..Len(s) -> Seq(Z)] /\ Len(s) \in Nat
  BY <1>2, <1>3
<1> HIDE DEF f
<1>5. f \in Seq(Seq(Z))
  BY <1>4, MapIsSeq
<1>6. FlattenSeq(f) \in Seq(Z)
  BY <1>5, FlattenTyped
<1> QED BY <1>6 DEF Z, f, ParsedQuery

\* The separators are not escaped.
LEMMA ParsedSeparators ==
  ASSUME NEW c \in {Ampersand, Equals}
  PROVE  c \in Byte /\ <<c>> \in Seq(Byte) /\ ParsedQuery(<<c>>) = <<c>>
<1>1. c \in Byte /\ ParsedByte(c) = <<c>>
  BY DEF Ampersand, Equals, Byte, ParsedByte
<1> QED BY <1>1, ParsedLaws

\* So parsing keeps them between what they separate.
LEMMA ParsedAround ==
  ASSUME NEW c \in {Ampersand, Equals}, NEW a \in Seq(Byte), NEW b \in Seq(Byte)
  PROVE  ParsedQuery((a \o <<c>>) \o b) = (ParsedQuery(a) \o <<c>>) \o ParsedQuery(b)
<1> DEFINE d == <<c>>
<1>1. d \in Seq(Byte) /\ ParsedQuery(d) = d
  BY ParsedSeparators
<1> HIDE DEF d
<1>2. a \o d \in Seq(Byte)
  BY <1>1
<1>3. ParsedQuery(a \o d) = ParsedQuery(a) \o ParsedQuery(d)
  BY <1>1, ParsedLaws
<1>4. ParsedQuery((a \o d) \o b) = ParsedQuery(a \o d) \o ParsedQuery(b)
  BY <1>2, ParsedLaws
<1> QED BY <1>1, <1>3, <1>4 DEF d

\* A parsed piece carries the pair it carried.
LEMMA ParsedPair ==
  ASSUME NEW p \in Seq(Byte)
  PROVE  ServerPair(ParsedQuery(p)) = ServerPair(p)
<1>1. CASE p \in Seq(Unsplit)
  <2>1. ParsedQuery(p) \in Seq(Unsplit)
    BY <1>1, ParsedKeeps DEF Unsplit
  <2> QED BY <1>1, <2>1, BareName, DecodedParsed
<1>2. CASE p \notin Seq(Unsplit)
  <2>1. PICK a \in Seq(Unsplit), b \in Seq(Byte) : p = (a \o <<Equals>>) \o b
    BY <1>2, PieceForms
  <2>2. a \in Seq(Byte)
    BY DEF Unsplit
  <2>3. ParsedQuery(a) \in Seq(Unsplit)
    BY ParsedKeeps DEF Unsplit
  <2>4. ParsedQuery(b) \in Seq(Byte)
    BY ParsedLaws
  <2>5. ParsedQuery(p) = (ParsedQuery(a) \o <<Equals>>) \o ParsedQuery(b)
    BY <2>1, <2>2, ParsedAround
  <2>6. ServerPair(p) = <<ServerDecoded(a), ServerDecoded(b)>>
    BY <2>1, NameAndValue
  <2>7. ServerPair(ParsedQuery(p))
          = <<ServerDecoded(ParsedQuery(a)), ServerDecoded(ParsedQuery(b))>>
    BY <2>3, <2>4, <2>5, NameAndValue
  <2> QED BY <2>2, <2>6, <2>7, DecodedParsed
<1> QED BY <1>1, <1>2

\* Also when the piece may be empty.
LEMMA ParsedOnePair ==
  ASSUME NEW p \in Seq(Plain)
  PROVE  ParsedQuery(p) \in Seq(Plain) /\ OnePair(ParsedQuery(p)) = OnePair(p)
<1>1. p \in Seq(Byte)
  BY DEF Plain
<1>2. ParsedQuery(p) \in Seq(Plain)
  BY ParsedKeeps DEF Plain
<1>3. CASE p = <<>>
  BY <1>2, <1>3, ParsedLaws
<1>4. CASE p # <<>>
  <2> DEFINE b == p[1]
             u == Tail(p)
  <2>1. p = <<b>> \o u /\ b \in Byte /\ u \in Seq(Byte)
    BY <1>1, <1>4, FirstAndRest
  <2> HIDE DEF b, u
  <2>2. ParsedQuery(p) = ParsedByte(b) \o ParsedQuery(u) /\ ParsedQuery(u) \in Seq(Byte)
    BY <2>1, ParsedRest, ParsedLaws
  <2>3. ParsedByte(b) \in Seq(Byte) /\ ParsedByte(b) # <<>>
    <3>1. ParsedByte(b) \in Seq(Byte)
      BY <2>1, ParsedByteTyped
    <3>2. Escaped(b) # <<>> /\ <<b>> # <<>>
      BY <2>1, EscapedParts DEF Escaped
    <3> QED BY <3>1, <3>2 DEF ParsedByte
  <2>4. \A s, t \in Seq(Byte) : s # <<>> => s \o t # <<>>
    OBVIOUS
  <2>5. ParsedQuery(p) # <<>>
    BY <2>2, <2>3, <2>4
  <2> QED BY <1>1, <1>2, <1>4, <2>5, ParsedPair DEF OnePair
<1> QED BY <1>3, <1>4

\* What the url crate escapes changes no name and no value.
LEMMA ParsedPairs == \A q \in Seq(Byte) : ServerPairs(ParsedQuery(q)) = ServerPairs(q)
<1> DEFINE A == {q \in Seq(Byte) : ServerPairs(ParsedQuery(q)) = ServerPairs(q)}
<1>1. ASSUME NEW p \in Seq(Plain) PROVE p \in A
  <2>1. p \in Seq(Byte)
    BY DEF Plain
  <2> QED BY <2>1, ParsedOnePair, ServerPairsOfPlain
<1>2. ASSUME NEW x \in Seq(Byte), NEW p \in Seq(Plain), x \in A
      PROVE  (x \o <<Ampersand>>) \o p \in A
  <2> DEFINE q == (x \o <<Ampersand>>) \o p
  <2>1. p \in Seq(Byte)
    BY DEF Plain
  <2>2. q \in Seq(Byte)
    BY <2>1 DEF Ampersand, Byte
  <2>3. ParsedQuery(q) = (ParsedQuery(x) \o <<Ampersand>>) \o ParsedQuery(p)
    BY <2>1, ParsedAround
  <2>4. ServerPairs(q) = ServerPairs(x) \o OnePair(p)
    BY ServerPairsOfMore
  <2>5. ParsedQuery(p) \in Seq(Plain) /\ OnePair(ParsedQuery(p)) = OnePair(p) /\ ParsedQuery(x) \in Seq(Byte)
    BY ParsedOnePair, ParsedLaws
  <2>6. ServerPairs(ParsedQuery(q)) = ServerPairs(ParsedQuery(x)) \o OnePair(p)
    BY <2>3, <2>5, ServerPairsOfMore
  <2> HIDE DEF q
  <2>7. q \in A
    BY <1>2, <2>2, <2>4, <2>6
  <2> QED BY <2>7 DEF q
<1>3. \A q \in Seq(Byte) : q \in A
  <2> HIDE DEF A
  <2> QED BY <1>1, <1>2, QueryInduction
<1> QED BY <1>3

-----------------------------------------------------------------------------
(* The query that is written from pairs.                                   *)

\* A pair, with the ampersand before it.
Lead(pairs, i) == (IF i = 1 THEN <<>> ELSE <<Ampersand>>) \o Written(pairs[i])

\* The query that carries these pairs.
AllWritten(pairs) == FlattenSeq([i \in DOMAIN pairs |-> Lead(pairs, i)])

\* A pair and its ampersand are bytes.
LEMMA LeadTyped ==
  ASSUME NEW pairs \in Seq(Pair), NEW i \in DOMAIN pairs
  PROVE  Lead(pairs, i) \in Seq(Byte)
<1>1. Written(pairs[i]) \in Seq(Byte)
  BY WrittenTyped
<1>2. <<Ampersand>> \in Seq(Byte) /\ <<>> \in Seq(Byte)
  BY DEF Ampersand, Byte
<1> QED BY <1>1, <1>2 DEF Lead

\* The query is of bytes.
LEMMA AllWrittenTyped ==
  ASSUME NEW pairs \in Seq(Pair)
  PROVE  AllWritten(pairs) \in Seq(Byte)
<1> DEFINE f == [i \in DOMAIN pairs |-> Lead(pairs, i)]
<1>1. f \in [1..Len(pairs) -> Seq(Byte)] /\ Len(pairs) \in Nat
  BY LeadTyped
<1> HIDE DEF f
<1>2. f \in Seq(Seq(Byte))
  BY <1>1, MapIsSeq
<1>3. FlattenSeq(f) \in Seq(Byte)
  BY <1>2, FlattenTyped
<1> QED BY <1>3 DEF f, AllWritten

\* No pairs, no query.
LEMMA AllWrittenEmpty == AllWritten(<<>>) = <<>>
<1>1. [i \in DOMAIN <<>> |-> Lead(<<>>, i)] = <<>>
  OBVIOUS
<1> QED BY <1>1, FlattenEmpty DEF AllWritten

\* One pair more is written behind an ampersand, the first without.
LEMMA AllWrittenOfMore ==
  ASSUME NEW pairs \in Seq(Pair), NEW pair \in Pair
  PROVE  AllWritten(Append(pairs, pair))
           = IF pairs = <<>> THEN Written(pair)
             ELSE (AllWritten(pairs) \o <<Ampersand>>) \o Written(pair)
<1> DEFINE n == Len(pairs)
           t == Append(pairs, pair)
           f == [i \in 1..n |-> Lead(pairs, i)]
           h == [i \in 1..(n + 1) |-> Lead(t, i)]
           d == Lead(t, n + 1)
<1>1. /\ n \in Nat /\ t \in Seq(Pair) /\ DOMAIN t = 1..(n + 1) /\ DOMAIN pairs = 1..n
      /\ (\A i \in 1..n : t[i] = pairs[i]) /\ t[n + 1] = pair
      /\ n + 1 \in Nat /\ n + 1 \in 1..(n + 1)
  OBVIOUS
<1>2. f \in [1..n -> Seq(Byte)]
  BY <1>1, LeadTyped
<1>3. h \in [1..(n + 1) -> Seq(Byte)] /\ d \in Seq(Byte)
  BY <1>1, LeadTyped
<1>4. AllWritten(pairs) = FlattenSeq(f) /\ AllWritten(t) = FlattenSeq(h)
  BY <1>1 DEF AllWritten
<1>5. (\A i \in 1..n : h[i] = f[i]) /\ h[n + 1] = d
  BY <1>1 DEF Lead
<1>6. d = (IF n = 0 THEN <<>> ELSE <<Ampersand>>) \o Written(pair)
  <2>1. n + 1 = 1 <=> n = 0
    BY <1>1
  <2>2. t[n + 1] = pair
    BY <1>1
  <2>3. d = (IF n + 1 = 1 THEN <<>> ELSE <<Ampersand>>) \o Written(t[n + 1])
    BY DEF Lead
  <2> HIDE DEF t, n, d
  <2> QED BY <2>1, <2>2, <2>3
<1> HIDE DEF f, h, d, t, n
<1>7. f \in Seq(Seq(Byte)) /\ Len(f) = n /\ h \in Seq(Seq(Byte)) /\ Len(h) = n + 1
  BY <1>1, <1>2, <1>3, MapIsSeq
<1>8. h = Append(f, d)
  <2> DEFINE k == Append(f, d)
  <2>1. k \in Seq(Seq(Byte)) /\ Len(k) = n + 1 /\ (\A i \in 1..n : k[i] = f[i]) /\ k[n + 1] = d
    BY <1>3, <1>7, Appends
  <2> HIDE DEF k
  <2>2. \A i \in 1..(n + 1) : i \in 1..n \/ i = n + 1
    BY <1>1
  <2>3. \A i \in 1..(n + 1) : h[i] = k[i]
    BY <1>5, <2>1, <2>2
  <2>4. h = k
    BY <1>7, <2>1, <2>3, SeqEqual
  <2> QED BY <2>4 DEF k
<1>9. FlattenSeq(h) = FlattenSeq(f) \o d
  BY <1>3, <1>7, <1>8, FlattenAppend
<1> DEFINE w == Written(pair)
           r == AllWritten(pairs)
<1>10. w \in Seq(Byte) /\ r \in Seq(Byte)
  BY WrittenTyped, AllWrittenTyped
<1>11. AllWritten(t) = r \o d
  BY <1>4, <1>9
<1>12. CASE pairs = <<>>
  <2>1. r = <<>> /\ n = 0
    BY <1>12, AllWrittenEmpty DEF n
  <2>2. <<>> \o w = w
    <3> HIDE DEF w
    <3> QED BY <1>10
  <2> QED BY <1>6, <1>11, <1>12, <2>1, <2>2 DEF t
<1>13. CASE pairs # <<>>
  <2>1. n # 0
    BY <1>13 DEF n
  <2> DEFINE a == <<Ampersand>>
  <2>2. d = a \o w /\ a \in Seq(Byte)
    BY <1>6, <2>1 DEF Ampersand, Byte
  <2> HIDE DEF a, w, r
  <2>3. r \o (a \o w) = (r \o a) \o w
    BY <1>10, <2>2, ConcatAssociative
  <2>4. AllWritten(t) = (r \o a) \o w
    BY <1>11, <2>2, <2>3
  <2> QED BY <1>13, <2>4 DEF a, w, r, t
<1> QED BY <1>12, <1>13

\* What is written from pairs reads as those pairs.
LEMMA PairsOfAllWritten ==
  ASSUME NEW pairs \in Seq(Pair)
  PROVE  ServerPairs(AllWritten(pairs)) = pairs
<1> DEFINE part(n) == SubSeq(pairs, 1, n)
           A == {n \in Nat : n <= Len(pairs) => ServerPairs(AllWritten(part(n))) = part(n)}
<1>1. 0 \in A
  <2>1. part(0) = <<>>
    OBVIOUS
  <2>2. <<>> \in Seq(Plain)
    OBVIOUS
  <2>3. ServerPairs(<<>>) = <<>>
    BY <2>2, ServerPairsOfPlain DEF OnePair
  <2> HIDE DEF part
  <2> QED BY <2>1, <2>3, AllWrittenEmpty
<1>2. ASSUME NEW n \in Nat, n \in A PROVE n + 1 \in A
  <2>1. SUFFICES ASSUME n + 1 <= Len(pairs)
                 PROVE  ServerPairs(AllWritten(part(n + 1))) = part(n + 1)
    OBVIOUS
  <2> DEFINE s == part(n)
             d == pairs[n + 1]
             w == Written(d)
             r == AllWritten(s)
  <2>2. s \in Seq(Pair) /\ d \in Pair /\ part(n + 1) = Append(s, d)
    BY <2>1
  <2>3. ServerPairs(r) = s
    BY <1>2, <2>1
  <2> HIDE DEF s, d, part
  <2>4. w \in Seq(Plain) /\ w # <<>> /\ w \in Seq(Byte) /\ ServerPair(w) = d /\ r \in Seq(Byte)
    BY <2>2, WrittenTyped, PairOfWritten, AllWrittenTyped
  <2>5. AllWritten(Append(s, d)) = IF s = <<>> THEN w ELSE (r \o <<Ampersand>>) \o w
    BY <2>2, AllWrittenOfMore
  <2> HIDE DEF w, r
  <2>6. OnePair(w) = <<d>>
    BY <2>4 DEF OnePair
  <2>7. s \o <<d>> = Append(s, d) /\ <<>> \o <<d>> = <<d>>
    BY <2>2
  <2>8. CASE s = <<>>
    <3>1. ServerPairs(w) = <<d>>
      BY <2>4, <2>6, ServerPairsOfPlain
    <3>2. Append(s, d) = <<d>>
      BY <2>7, <2>8
    <3> QED BY <2>2, <2>5, <2>8, <3>1, <3>2
  <2>9. CASE s # <<>>
    <3>1. ServerPairs((r \o <<Ampersand>>) \o w) = s \o <<d>>
      BY <2>3, <2>4, <2>6, ServerPairsOfMore
    <3> QED BY <2>2, <2>5, <2>7, <2>9, <3>1
  <2> QED BY <2>8, <2>9
<1>3. Nat \subseteq A
  <2> HIDE DEF A
  <2> QED BY <1>1, <1>2, SetInduction
<1>4. Len(pairs) \in A /\ part(Len(pairs)) = pairs
  BY <1>3, SubSeqFull
<1> HIDE DEF part
<1> QED BY <1>4

\* The query the server hashes is written from the pairs it read.
LEMMA ServerQueryWritten == \A q : ServerQuery(q) = AllWritten(ServerPairs(q))
BY DEF ServerQuery, AllWritten, Lead

-----------------------------------------------------------------------------
(* The canonical query.                                                    *)

\* The loop that joins the pieces, one piece more.
JoinStep(out, piece) == IF out = <<>> THEN piece ELSE out \o <<Ampersand>> \o piece

\* The client joins its pieces to the same query.
LEMMA JoinedLikeWritten ==
  ASSUME NEW pairs \in Seq(Pair), NEW pieces,
         pieces = [i \in DOMAIN pairs |-> Written(pairs[i])]
  PROVE  JoinPieces(pieces) = AllWritten(pairs)
<1> DEFINE N == Len(pairs)
           part(n) == SubSeq(pairs, 1, n)
           f == [n \in 0..N |-> AllWritten(part(n))]
           Is(g) == g = [i \in 0..N |->
                          IF i = 0 THEN <<>>
                          ELSE LET out == g[i - 1]
                               IN IF out = <<>> THEN pieces[i]
                                  ELSE out \o <<Ampersand>> \o pieces[i]]
           upTo == CHOOSE g : Is(g)
<1>1. N \in Nat /\ DOMAIN pairs = 1..N /\ \A i \in 1..N : pairs[i] \in Pair
  OBVIOUS
<1>2. pieces \in [1..N -> Seq(Byte)] /\ \A i \in 1..N : pieces[i] = Written(pairs[i])
  <2>1. \A i \in 1..N : Written(pairs[i]) \in Seq(Byte)
    BY <1>1, WrittenTyped
  <2> HIDE DEF N
  <2> QED BY <1>1, <2>1
<1>3. Len(pieces) = N
  BY <1>1, <1>2, MapIsSeq
<1>4. JoinPieces(pieces) = upTo[N]
  BY <1>3 DEF JoinPieces
<1>5. \A g : Is(g) <=> g = [i \in 0..N |-> IF i = 0 THEN <<>> ELSE JoinStep(g[i - 1], pieces[i])]
  BY DEF JoinStep
<1> HIDE DEF Is
<1>6. f[0] = <<>>
  <2>1. part(0) = <<>> /\ 0 \in 0..N
    BY <1>1
  <2> HIDE DEF part
  <2> QED BY <2>1, AllWrittenEmpty
<1>7. ASSUME NEW k \in 1..N PROVE f[k] = JoinStep(f[k - 1], pieces[k])
  <2>1. k - 1 \in 0..N /\ k \in 0..N /\ k - 1 \in Nat
    BY <1>1
  <2> DEFINE s == part(k - 1)
             d == pairs[k]
             w == Written(d)
             r == AllWritten(s)
  <2>2. s \in Seq(Pair) /\ d \in Pair /\ part(k) = Append(s, d) /\ Len(s) = k - 1
    BY <1>1
  <2> HIDE DEF s, d, part
  <2>3. f[k] = AllWritten(Append(s, d)) /\ f[k - 1] = r
    BY <2>1, <2>2 DEF s
  <2> HIDE DEF f
  <2>4. AllWritten(Append(s, d)) = IF s = <<>> THEN w ELSE (r \o <<Ampersand>>) \o w
    BY <2>2, AllWrittenOfMore
  <2>5. r = <<>> <=> s = <<>>
    <3>1. CASE s = <<>>
      BY <3>1, AllWrittenEmpty
    <3>2. CASE s # <<>>
      <4>1. ServerPairs(r) = s
        BY <2>2, PairsOfAllWritten
      <4>2. <<>> \in Seq(Plain)
        OBVIOUS
      <4>3. ServerPairs(<<>>) = <<>>
        BY <4>2, ServerPairsOfPlain DEF OnePair
      <4> QED BY <3>2, <4>1, <4>3
    <3> QED BY <3>1, <3>2
  <2>6. pieces[k] = w
    BY <1>2 DEF d
  <2> HIDE DEF w, r
  <2> QED BY <2>3, <2>4, <2>5, <2>6 DEF JoinStep
<1>8. Is(f)
  <2>1. \A i \in 0..N : f[i] = IF i = 0 THEN <<>> ELSE JoinStep(f[i - 1], pieces[i])
    <3>1. \A i \in 0..N : i # 0 => i \in 1..N
      BY <1>1
    <3> HIDE DEF f
    <3> QED BY <1>6, <1>7, <3>1
  <2>2. f = [i \in 0..N |-> f[i]]
    OBVIOUS
  <2> HIDE DEF f
  <2>3. f = [i \in 0..N |-> IF i = 0 THEN <<>> ELSE JoinStep(f[i - 1], pieces[i])]
    BY <2>1, <2>2
  <2> QED BY <1>5, <2>3
<1>9. upTo = [i \in 0..N |-> IF i = 0 THEN <<>> ELSE JoinStep(upTo[i - 1], pieces[i])]
  <2>1. Is(upTo)
    BY <1>8
  <2> HIDE DEF upTo
  <2> QED BY <1>5, <2>1
<1>10. AllWritten(pairs) = f[N]
  <2>1. part(N) = pairs /\ N \in 0..N
    BY <1>1, SubSeqFull
  <2> HIDE DEF part
  <2> QED BY <2>1
<1> HIDE DEF upTo, f
<1> DEFINE A == {n \in Nat : upTo[n] = f[n]}
<1>11. 0 \in A
  BY <1>1, <1>6, <1>9
<1>12. ASSUME NEW n \in Nat, n < N, n \in A PROVE n + 1 \in A
  <2>1. n + 1 \in 0..N /\ n + 1 \in 1..N /\ (n + 1) - 1 = n /\ n + 1 # 0
    BY <1>1, <1>12
  <2>2. upTo[n + 1] = JoinStep(upTo[n], pieces[n + 1])
    BY <1>9, <2>1
  <2>3. f[n + 1] = JoinStep(f[n], pieces[n + 1])
    BY <1>7, <2>1
  <2> QED BY <1>12, <2>2, <2>3
<1>13. N \in A
  <2>1. 0..N \subseteq A
    <3> HIDE DEF A, N
    <3> QED BY <1>1, <1>11, <1>12, SetInductionTo
  <2> QED BY <1>1, <2>1
<1> QED BY <1>4, <1>10, <1>13

\* The client's canonical query is the query that the server hashes.
LEMMA CanonicalLikeServer ==
  ASSUME NEW q \in Seq(Byte)
  PROVE  CanonicalQuery(q) = ServerQuery(q)
<1> DEFINE s == ServerPieces(q)
           pairs == ServerPairs(q)
           pieces == [i \in DOMAIN s |-> CanonicalPiece(s[i])]
<1>1. Pieces(q) = s /\ s \in Seq(Seq(Byte)) /\ pairs \in Seq(Pair)
  BY PiecesLikeServer, ServerPiecesTyped, ServerPairsTyped
<1>2. pairs = [i \in DOMAIN s |-> ServerPair(s[i])]
  BY DEF ServerPairs
<1>3. CanonicalQuery(q) = JoinPieces(pieces)
  BY <1>1 DEF CanonicalQuery
<1> HIDE DEF s, pairs
<1>4. DOMAIN pairs = DOMAIN s /\ \A i \in DOMAIN s : pairs[i] = ServerPair(s[i])
  BY <1>2
<1>5. \A i \in DOMAIN s : CanonicalPiece(s[i]) = Written(pairs[i])
  BY <1>1, <1>4, PieceLikeServer
<1>6. pieces = [i \in DOMAIN pairs |-> Written(pairs[i])]
  BY <1>4, <1>5
<1> HIDE DEF pieces
<1>7. JoinPieces(pieces) = AllWritten(pairs)
  BY <1>1, <1>6, JoinedLikeWritten
<1> QED BY <1>3, <1>7, ServerQueryWritten DEF pairs

\* Read again, the canonical query carries what the query carried.
LEMMA CanonicalKeepsPairs ==
  ASSUME NEW q \in Seq(Byte)
  PROVE  /\ CanonicalQuery(q) \in Seq(Byte)
         /\ ServerPairs(CanonicalQuery(q)) = ServerPairs(q)
<1>1. CanonicalQuery(q) = AllWritten(ServerPairs(q)) /\ ServerPairs(q) \in Seq(Pair)
  BY CanonicalLikeServer, ServerQueryWritten, ServerPairsTyped
<1> QED BY <1>1, AllWrittenTyped, PairsOfAllWritten

-----------------------------------------------------------------------------
(* The inductive invariant.                                                *)

\* A PreparedRequest is one, and only prepare and its caller set its headers.
CallersHeaders == [HeaderNames -> {Absent, "prepare", "caller"}]

IsPrepared(request) ==
  /\ request = [url |-> request.url, query |-> request.query,
                headers |-> request.headers, body |-> request.body]
  /\ request.headers \in CallersHeaders

\* The inductive invariant: what was sent is the prepared request, guarded and
\* signed by sign, and that request is still the same.
SentAsPrepared ==
  /\ mode \in Modes
  /\ Accepted => IsPrepared(prepared)
  /\ Sent => /\ Accepted
             /\ GuardRequestUrl(prepared.url) = "ok"
             /\ wire = Signed(mode, prepared)

-----------------------------------------------------------------------------
(* Headers.                                                                *)

LEMMA InsertSets ==
  ASSUME NEW headers, NEW names, NEW setter, NEW n \in HeaderNames
  PROVE  /\ n \in names => Insert(headers, names, setter)[n] = setter
         /\ n \notin names => Insert(headers, names, setter)[n] = headers[n]
BY DEF Insert

LEMMA InsertIfAbsentSets ==
  ASSUME NEW headers, NEW names, NEW setter, NEW n \in HeaderNames
  PROVE  /\ headers[n] # Absent =>
              InsertIfAbsent(headers, names, setter)[n] = headers[n]
         /\ n \notin names =>
              InsertIfAbsent(headers, names, setter)[n] = headers[n]
         /\ n \in names /\ headers[n] = Absent =>
              InsertIfAbsent(headers, names, setter)[n] = setter
         /\ InsertIfAbsent(headers, names, setter)[n] \in {headers[n], setter}
BY InsertSets DEF InsertIfAbsent

LEMMA InsertTyped ==
  ASSUME NEW headers \in CallersHeaders, NEW names,
         NEW setter \in {"prepare", "caller"}
  PROVE  Insert(headers, names, setter) \in CallersHeaders
BY DEF Insert, CallersHeaders

\* The headers before the base headers are added.
AuthHeaders(request) == Authenticated(mode, request).headers

\* sign keeps the URL, and adds to the headers by the scheme of the client.
LEMMA SignedParts ==
  ASSUME mode \in Modes, NEW request, IsPrepared(request)
  PROVE  /\ Signed(mode, request).url = request.url
         /\ Signed(mode, request).headers =
              WithBaseHeaders(mode, AuthHeaders(request))
         /\ mode = "token" =>
              AuthHeaders(request) =
                InsertIfAbsent(request.headers, {"authorization"}, "token")
         /\ mode = "hmac" =>
              AuthHeaders(request) = Insert(request.headers, HmacHeaders, "hmac")
         /\ mode = "anonymous" => AuthHeaders(request) = request.headers
<1>1. DOMAIN request = {"url", "query", "headers", "body"}
  BY DEF IsPrepared
<1>2. CASE mode = "token"
  BY <1>1, <1>2 DEF Signed, Authenticated, AuthHeaders
<1>3. CASE mode = "hmac"
  BY <1>1, <1>3 DEF Signed, Authenticated, AuthHeaders
<1>4. CASE mode = "anonymous"
  BY <1>1, <1>4 DEF Signed, Authenticated, AuthHeaders
<1> QED BY <1>2, <1>3, <1>4 DEF Modes

-----------------------------------------------------------------------------
(* The invariant and what follows from it.                                 *)

\* Nothing is sent at the start.
LEMMA InitOutgoing == Init => SentAsPrepared
BY DEF Init, SentAsPrepared, Accepted, Sent

\* Every step keeps the invariant: prepare, a caller's edit, and attempts that
\* sign a copy.
LEMMA StepOutgoing == SentAsPrepared /\ [Next]_vars => SentAsPrepared'
<1> SUFFICES ASSUME SentAsPrepared, [Next]_vars PROVE SentAsPrepared'
  OBVIOUS
<1> USE DEF SentAsPrepared
<1>1. CASE Prepare
  <2>1. ~Sent /\ ~Sent' /\ mode' = mode
    BY <1>1 DEF Prepare, MakeRequest, Sent, Accepted
  <2>2. ASSUME NEW url PROVE IsPrepared(PreparedRequest(url))
    <3>1. NoHeaders \in CallersHeaders
      BY DEF NoHeaders, CallersHeaders
    <3>2. Insert(NoHeaders, ContentType(call.body), "prepare") \in CallersHeaders
      BY <3>1, InsertTyped
    <3> QED BY <3>2 DEF PreparedRequest, IsPrepared
  <2>3. Accepted' => \E url : prepared' = PreparedRequest(url)
    BY <1>1 DEF Prepare, MakeRequest, Accepted, Refuse
  <2> QED BY <2>1, <2>2, <2>3
<1>2. ASSUME NEW names, NEW url, Edit(names, url) PROVE SentAsPrepared'
  <2>1. ~Sent' /\ Accepted /\ mode' = mode
    BY <1>2 DEF Edit, Sent, Accepted
  <2>2. DOMAIN prepared = {"url", "query", "headers", "body"}
    BY <2>1 DEF IsPrepared
  <2>3. prepared' = [url |-> url, query |-> prepared.query,
                     headers |-> Insert(prepared.headers, names, "caller"),
                     body |-> prepared.body]
    BY <1>2, <2>1, <2>2 DEF Edit, IsPrepared
  <2>4. Insert(prepared.headers, names, "caller") \in CallersHeaders
    BY <2>1, InsertTyped DEF IsPrepared
  <2>5. IsPrepared(prepared')
    BY <2>3, <2>4 DEF IsPrepared
  <2> QED BY <2>1, <2>5
<1>3. CASE Attempt
  BY <1>3 DEF Attempt, Sent, Accepted
<1>4. CASE RefuseAttempt
  BY <1>4 DEF RefuseAttempt, Refuse, Sent, Accepted
<1>5. CASE UNCHANGED vars
  BY <1>5 DEF vars, Sent, Accepted
<1> QED BY <1>1, <1>2, <1>3, <1>4, <1>5 DEF Next

\* So the invariant always holds.
LEMMA OutgoingSafe == Spec => []SentAsPrepared
BY InitOutgoing, StepOutgoing, PTL DEF Spec

\* The parts of TypeOK that the headers do not depend on.
Staged ==
  /\ mode \in Modes
  /\ call \in Calls
  /\ pc \in {"called", "prepared", "edited", "refused"}
  /\ Accepted => prepared.body \in Bodies \ {"unserializable"}
  /\ pc = "called" => prepared = NoRequest
  /\ outcome \in {"none", "InvalidPath", "UnsupportedRequestUrl",
                  "CrossOriginRequest", "OutsideBaseUrlPath", "Parse"}
  /\ (outcome # "none") = (pc = "refused")
  /\ outcome = "Parse" =>
       ~Serializes(call.body) /\ Join(call.ref).verdict = "ok"

\* They hold from step to step, beside the invariant.
LEMMA StagedStep ==
  Staged /\ SentAsPrepared /\ [Next]_vars => Staged'
<1> SUFFICES ASSUME Staged, SentAsPrepared, [Next]_vars PROVE Staged'
  OBVIOUS
<1> USE DEF Staged
<1>1. CASE Prepare
  <2>1. CASE Join(call.ref).verdict = "ok" /\ Serializes(call.body)
    <3>1. /\ prepared' = PreparedRequest(Join(call.ref).url)
          /\ pc' = "prepared" /\ UNCHANGED <<mode, call, outcome>>
      BY <1>1, <2>1 DEF Prepare, MakeRequest, Refuse
    <3>2. call.body \in Bodies \ {"unserializable"}
      BY <2>1, OutgoingAssumption DEF OutgoingAssumption, Serializes
    <3>3. prepared'.body = call.body
      BY <3>1 DEF PreparedRequest
    <3> QED BY <1>1, <3>1, <3>2, <3>3 DEF Prepare, Accepted
  <2>3. CASE Join(call.ref).verdict = "ok" /\ ~Serializes(call.body)
    <3>1. /\ pc' = "refused" /\ outcome' = "Parse"
          /\ UNCHANGED <<mode, call, prepared>>
      BY <1>1, <2>3 DEF Prepare, MakeRequest, Refuse
    <3> QED BY <2>3, <3>1 DEF Accepted
  <2>2. CASE Join(call.ref).verdict # "ok"
    <3>1. /\ pc' = "refused" /\ outcome' = Join(call.ref).verdict
          /\ UNCHANGED <<mode, call, prepared>>
      BY <1>1, <2>2 DEF Prepare, MakeRequest, Refuse
    <3>2. Join(call.ref).verdict \in
            {"InvalidPath", "UnsupportedRequestUrl", "CrossOriginRequest",
             "OutsideBaseUrlPath"}
      BY <2>2 DEF Join, Joined, Verdict, Contributes, OnGuard, GuardRequestUrl
    <3> QED BY <3>1, <3>2 DEF Accepted
  <2> QED BY <2>1, <2>2, <2>3
<1>2. ASSUME NEW names, NEW url, Edit(names, url) PROVE Staged'
  <2>1. prepared.body \in Bodies \ {"unserializable"}
    BY <1>2 DEF Edit, Accepted
  <2>2. prepared'.body = prepared.body
    BY <1>2 DEF Edit, Accepted, SentAsPrepared, IsPrepared
  <2> QED BY <1>2, <2>1, <2>2 DEF Edit, Accepted
<1>3. CASE Attempt
  BY <1>3 DEF Attempt, Accepted
<1>4. CASE RefuseAttempt
  BY <1>4 DEF RefuseAttempt, Refuse, Accepted, GuardRequestUrl
<1>5. CASE UNCHANGED vars
  BY <1>5 DEF vars, Accepted
<1> QED BY <1>1, <1>2, <1>3, <1>4, <1>5 DEF Next

\* Types; every refused call has one of the five errors of join, the guard and
\* the JSON body, Parse only after its path was accepted; and nothing has been
\* sent of it.
THEOREM TypeCorrect == Spec => []TypeOK
<1>1. Init => Staged
  BY DEF Init, Staged, Accepted
<1>2. Staged /\ SentAsPrepared => TypeOK
  <2> SUFFICES ASSUME Staged, SentAsPrepared PROVE TypeOK
    OBVIOUS
  <2>1. Accepted => prepared.headers \in Headers
    BY DEF SentAsPrepared, IsPrepared, CallersHeaders, Headers, Setters
  <2>2. Sent => wire.headers \in Headers
    <3> SUFFICES ASSUME Sent PROVE wire.headers \in Headers
      OBVIOUS
    <3>1. IsPrepared(prepared) /\ mode \in Modes /\ wire = Signed(mode, prepared)
      BY DEF SentAsPrepared
    <3>2. AuthHeaders(prepared) \in Headers
      BY <2>1, <3>1, SignedParts
         DEF SentAsPrepared, Insert, InsertIfAbsent, Headers, Setters, Modes
    <3>3. WithBaseHeaders(mode, AuthHeaders(prepared)) \in Headers
      BY <3>2 DEF WithBaseHeaders, InsertIfAbsent, Insert, Headers, Setters
    <3> QED BY <3>1, <3>3, SignedParts
  <2> QED BY <2>1, <2>2 DEF Staged, TypeOK, SentAsPrepared
<1> QED BY <1>1, <1>2, StagedStep, OutgoingSafe, PTL DEF Spec

-----------------------------------------------------------------------------
\* Whatever a path is resolved to, and whatever URL a caller puts into
\* a PreparedRequest, what is sent goes below the base URL and carries no
\* userinfo (guard_request_url in execute).
THEOREM SentBelowBase == Spec => []StaysBelowBase
<1>1. SentAsPrepared => StaysBelowBase
  <2> SUFFICES ASSUME SentAsPrepared, Sent PROVE StaysBelowBase
    BY DEF StaysBelowBase
  <2>1. wire.url = prepared.url
    BY SignedParts DEF SentAsPrepared
  <2>2. GuardRequestUrl(prepared.url) = "ok"
    BY DEF SentAsPrepared
  <2> QED BY <2>1, <2>2 DEF StaysBelowBase, GuardRequestUrl
<1> QED BY OutgoingSafe, <1>1, PTL

\* No header that somebody set for a request is replaced on its way, but for
\* the two that a signature consists of (sign, the base headers).
THEOREM HeadersAreKept == Spec => []CallerWins
<1>1. SentAsPrepared => CallerWins
  <2> SUFFICES ASSUME SentAsPrepared, Sent, NEW n \in HeaderNames,
                      prepared.headers[n] # Absent,
                      ~(mode = "hmac" /\ n \in HmacHeaders)
               PROVE  wire.headers[n] = prepared.headers[n]
    BY DEF CallerWins
  <2>1. IsPrepared(prepared) /\ mode \in Modes /\ wire = Signed(mode, prepared)
    BY DEF SentAsPrepared
  <2> DEFINE headers == AuthHeaders(prepared)
  <2>2. wire.headers = WithBaseHeaders(mode, headers)
    BY <2>1, SignedParts
  <2>3. headers[n] = prepared.headers[n]
    <3>1. CASE mode = "token"
      BY <2>1, <3>1, SignedParts, InsertIfAbsentSets
    <3>2. CASE mode = "hmac"
      BY <2>1, <3>2, SignedParts, InsertSets
    <3>3. CASE mode = "anonymous"
      BY <2>1, <3>3, SignedParts
    <3> QED BY <2>1, <3>1, <3>2, <3>3 DEF Modes
  <2> HIDE DEF headers
  <2> QED BY <2>2, <2>3, InsertIfAbsentSets DEF WithBaseHeaders
<1> QED BY OutgoingSafe, <1>1, PTL

\* A client authenticates by one scheme: its token, its key and hash, or
\* nothing, whatever the caller added itself.
THEOREM SchemesAreApart == Spec => []OneScheme
<1>1. SentAsPrepared => OneScheme
  <2> SUFFICES ASSUME SentAsPrepared, Sent PROVE OneScheme
    BY DEF OneScheme
  <2>1. IsPrepared(prepared) /\ mode \in Modes /\ wire = Signed(mode, prepared)
    BY DEF SentAsPrepared
  <2> DEFINE headers == AuthHeaders(prepared)
             ours == {"token", "hmac", "base"}
  <2>2. wire.headers = WithBaseHeaders(mode, headers)
    BY <2>1, SignedParts
  <2>3. ASSUME NEW n \in HeaderNames PROVE prepared.headers[n] \notin ours
    <3>1. prepared.headers[n] \in {Absent, "prepare", "caller"}
      BY <2>1 DEF IsPrepared, CallersHeaders
    <3>2. Absent \notin ours
      BY OutgoingAssumption DEF OutgoingAssumption, Setters
    <3> QED BY <3>1, <3>2
  <2>4. ASSUME NEW n \in HeaderNames, wire.headers[n] \in ours
        PROVE  n \in BaseHeaders(mode) \/ headers[n] \in ours
    BY <2>2, <2>4, InsertIfAbsentSets DEF WithBaseHeaders
  <2>5. CASE mode = "token"
    <3>1. ASSUME NEW n \in HeaderNames, headers[n] \in ours
          PROVE  n = "authorization"
      BY <2>1, <2>3, <2>5, <3>1, SignedParts, InsertIfAbsentSets
    <3> QED BY <2>4, <2>5, <3>1 DEF OneScheme, BaseHeaders, HmacHeaders
  <2>6. CASE mode = "hmac"
    <3>1. ASSUME NEW n \in HeaderNames, headers[n] \in ours
          PROVE  n \in HmacHeaders
      BY <2>1, <2>3, <2>6, <3>1, SignedParts, InsertSets
    <3> QED BY <2>4, <2>6, <3>1 DEF OneScheme, BaseHeaders, HmacHeaders
  <2>7. CASE mode = "anonymous"
    <3>1. ASSUME NEW n \in HeaderNames PROVE headers[n] \notin ours
      BY <2>1, <2>3, <2>7, SignedParts
    <3> QED BY <2>4, <2>7, <3>1 DEF OneScheme, BaseHeaders, HmacHeaders
  <2> QED BY <2>1, <2>5, <2>6, <2>7 DEF Modes
<1> QED BY OutgoingSafe, <1>1, PTL

\* Both: what a caller set is sent as it was set, and beside it the headers of
\* one scheme, for every set of headers a caller may add.
THEOREM HeadersRight == Spec => []HeadersAreRight
<1>1. OneScheme /\ CallerWins => HeadersAreRight
  BY DEF HeadersAreRight
<1> QED BY HeadersAreKept, SchemesAreApart, <1>1, PTL

\* A signature that a caller left in the headers never goes out in place of the
\* one of this attempt (the half of ServerVerifies that is about headers).
THEOREM SignaturesReplaceStale ==
  Spec => [](Sent /\ mode = "hmac" =>
               \A n \in HmacHeaders : wire.headers[n] = "hmac")
<1>1. SentAsPrepared =>
        (Sent /\ mode = "hmac" => \A n \in HmacHeaders : wire.headers[n] = "hmac")
  <2> SUFFICES ASSUME SentAsPrepared, Sent, mode = "hmac", NEW n \in HmacHeaders
               PROVE  wire.headers[n] = "hmac"
    OBVIOUS
  <2>1. IsPrepared(prepared) /\ mode \in Modes /\ wire = Signed(mode, prepared)
    BY DEF SentAsPrepared
  <2>2. n \in HeaderNames
    BY DEF HmacHeaders, HeaderNames
  <2>3. AuthHeaders(prepared)[n] = "hmac"
    BY <2>1, <2>2, SignedParts, InsertSets
  <2>4. wire.headers = WithBaseHeaders(mode, AuthHeaders(prepared))
    BY <2>1, SignedParts
  <2>5. "hmac" # Absent
    BY OutgoingAssumption DEF OutgoingAssumption, Setters
  <2> QED BY <2>2, <2>3, <2>4, <2>5, InsertIfAbsentSets DEF WithBaseHeaders
<1> QED BY OutgoingSafe, <1>1, PTL

-----------------------------------------------------------------------------
(* Paths: references, cut into tokens and segments.                        *)

\* Tabs are removed one by one.
LEMMA TablessLaws ==
  ASSUME NEW W
  PROVE  /\ \A s \in Seq(W) : Tabless(s) \in Seq(W)
         /\ \A s, t \in Seq(W) : Tabless(s \o t) = Tabless(s) \o Tabless(t)
         /\ \A a \in W \ {"tab"} : Tabless(<<a>>) = <<a>>
<1> DEFINE T == W
           g == [t \in W |-> IF t = "tab" THEN <<>> ELSE <<t>>]
<1>1. g \in [W -> Seq(T)] /\ \A t \in W : g[t] = IF t = "tab" THEN <<>> ELSE <<t>>
  OBVIOUS
<1> HIDE DEF g, T
<1>2. ASSUME NEW s \in Seq(W) PROVE Tabless(s) = Mapped(g, s)
  <2>1. \A i \in DOMAIN s : g[s[i]] = IF s[i] = "tab" THEN <<>> ELSE <<s[i]>>
    BY <1>1
  <2>2. [i \in DOMAIN s |-> IF s[i] = "tab" THEN <<>> ELSE <<s[i]>>] = [i \in DOMAIN s |-> g[s[i]]]
    BY <2>1
  <2> QED BY <2>2 DEF Tabless, Mapped
<1>3. /\ \A s \in Seq(W) : Mapped(g, s) \in Seq(T)
      /\ \A a \in W : Mapped(g, <<a>>) = g[a]
      /\ \A s, t \in Seq(W) : Mapped(g, s \o t) = Mapped(g, s) \o Mapped(g, t)
  <2>1. g \in [W -> Seq(T)]
    BY <1>1
  <2>2. /\ \A s \in Seq(W) : Mapped(g, s) \in Seq(T)
        /\ Mapped(g, <<>>) = <<>>
        /\ \A a \in W : Mapped(g, <<a>>) = g[a]
        /\ \A s, t \in Seq(W) : Mapped(g, s \o t) = Mapped(g, s) \o Mapped(g, t)
    BY <2>1, MappedLaws
  <2> QED BY <2>2
<1>4. ASSUME NEW s \in Seq(W) PROVE Tabless(s) \in Seq(W)
  BY <1>2, <1>3 DEF T
<1>5. ASSUME NEW s \in Seq(W), NEW t \in Seq(W) PROVE Tabless(s \o t) = Tabless(s) \o Tabless(t)
  <2>1. s \o t \in Seq(W)
    OBVIOUS
  <2> QED BY <1>2, <1>3, <2>1
<1>6. ASSUME NEW a \in W \ {"tab"} PROVE Tabless(<<a>>) = <<a>>
  <2>1. <<a>> \in Seq(W)
    OBVIOUS
  <2> QED BY <1>1, <1>2, <1>3, <2>1
<1> QED BY <1>4, <1>5, <1>6

\* Cleaning a reference leaves a reference.
LEMMA CleanedTyped ==
  ASSUME NEW W, NEW ref \in Seq(W)
  PROVE  Cleaned(ref) \in Seq(W)
<1>1. Trimmed(ref) \in Seq(W)
  <2> DEFINE first == SelectInSeq(ref, LAMBDA t : t \notin Blanks)
  <2>1. first \in 0..Len(ref)
    <3> DEFINE I == {i \in 1..Len(ref) : ref[i] \notin Blanks}
    <3>1. first = IF I # {} THEN Min(I) ELSE 0
      BY DEF SelectInSeq
    <3>2. I # {} => Min(I) \in I
      <4>1. I \in SUBSET (1..Len(ref)) /\ Len(ref) \in Nat
        OBVIOUS
      <4> HIDE DEF I
      <4> QED BY <4>1, FirstOf
    <3> HIDE DEF first
    <3> QED BY <3>1, <3>2
  <2>2. CASE first = 0
    BY <2>2 DEF Trimmed
  <2>3. CASE first # 0
    <3>1. first \in 1..(Len(ref) + 1)
      BY <2>1, <2>3
    <3> HIDE DEF first
    <3>2. SubSeq(ref, first, Len(ref)) \in Seq(W)
      BY <3>1, Suffix
    <3> QED BY <2>3, <3>2 DEF Trimmed, first
  <2> QED BY <2>2, <2>3
<1> QED BY <1>1, TablessLaws DEF Cleaned

\* How many separators are in front, and what follows them.
LEMMA SlashesCount ==
  ASSUME NEW W, NEW ref \in Seq(W)
  PROVE  /\ Slashes(ref) \in 0..Len(ref)
         /\ ref # <<>> /\ ref[1] \in Separators => Slashes(ref) >= 1
         /\ Len(ref) >= 2 /\ ref[1] \in Separators /\ ref[2] \in Separators => Slashes(ref) >= 2
         /\ AfterSlashes(ref) \in Seq(W)
<1> DEFINE first == SelectInSeq(ref, LAMBDA t : t \notin Separators)
<1>1. first \in 0..Len(ref) /\ (first # 0 => ref[first] \notin Separators) /\ Len(ref) \in Nat
  <2> DEFINE I == {i \in 1..Len(ref) : ref[i] \notin Separators}
  <2>1. first = IF I # {} THEN Min(I) ELSE 0
    BY DEF SelectInSeq
  <2>2. I # {} => Min(I) \in I
    <3>1. I \in SUBSET (1..Len(ref)) /\ Len(ref) \in Nat
      OBVIOUS
    <3> HIDE DEF I
    <3> QED BY <3>1, FirstOf
  <2> HIDE DEF first
  <2> QED BY <2>1, <2>2
<1>2. Slashes(ref) = IF first = 0 THEN Len(ref) ELSE first - 1
  BY DEF Slashes
<1> HIDE DEF first
<1>3. ref # <<>> => Len(ref) >= 1
  BY EmptySeq, <1>1
<1>4. Slashes(ref) \in 0..Len(ref)
  BY <1>1, <1>2
<1>5. Slashes(ref) + 1 \in 1..(Len(ref) + 1)
  BY <1>1, <1>4
<1>6. AfterSlashes(ref) \in Seq(W)
  BY <1>5, Suffix DEF AfterSlashes
<1> QED BY <1>1, <1>2, <1>3, <1>4, <1>6

\* A scheme ends within the reference, and none stands behind a slash.
LEMMA SchemeEndTyped ==
  ASSUME NEW W, NEW ref \in Seq(W)
  PROVE  /\ SchemeEnd(ref) \in 0..Len(ref)
         /\ ref # <<>> /\ ref[1] = "/" => SchemeEnd(ref) = 0
         /\ SchemeEnd(ref) # 0 => ref[SchemeEnd(ref)] \in SchemeTokens
         /\ AfterScheme(ref) \in Seq(W)
<1> DEFINE colon == SelectInSeq(ref, LAMBDA t : t \in SchemeTokens)
<1>1. colon \in 0..Len(ref) /\ (colon # 0 => ref[colon] \in SchemeTokens) /\ Len(ref) \in Nat
  <2> DEFINE I == {i \in 1..Len(ref) : ref[i] \in SchemeTokens}
  <2>1. colon = IF I # {} THEN Min(I) ELSE 0
    BY DEF SelectInSeq
  <2>2. I # {} => Min(I) \in I
    <3>1. I \in SUBSET (1..Len(ref)) /\ Len(ref) \in Nat
      OBVIOUS
    <3> HIDE DEF I
    <3> QED BY <3>1, FirstOf
  <2> HIDE DEF colon
  <2> QED BY <2>1, <2>2
<1>2. SchemeEnd(ref) =
        IF \A i \in 1..(colon - 1) : ref[i] \notin Marks \ {"."} /\ ref[1] # "."
        THEN colon ELSE 0
  BY DEF SchemeEnd
<1> HIDE DEF colon
<1>3. ASSUME ref # <<>>, ref[1] = "/" PROVE SchemeEnd(ref) = 0
  <2>1. ref[1] \in Marks \ {"."} /\ ref[1] \notin SchemeTokens
    BY <1>3 DEF Marks, Separators, SchemeTokens
  <2>2. colon # 1
    BY <1>1, <2>1
  <2>3. colon # 0 => 1 \in 1..(colon - 1)
    BY <1>1, <2>2
  <2> QED BY <1>2, <2>1, <2>3
<1>4. SchemeEnd(ref) \in 0..Len(ref) /\ (SchemeEnd(ref) # 0 => ref[SchemeEnd(ref)] \in SchemeTokens)
  BY <1>1, <1>2
<1>5. SchemeEnd(ref) + 1 \in 1..(Len(ref) + 1)
  BY <1>1, <1>4
<1>6. AfterScheme(ref) \in Seq(W)
  BY <1>5, Suffix DEF AfterScheme
<1> QED BY <1>3, <1>4, <1>6

-----------------------------------------------------------------------------
\* What cutting a path gives: at least one segment.
SomeSegments == {s \in Seq(Seq(STRING)) : s # <<>>}

\* Another token leaves at least one segment.
LEMMA AddTokenTyped ==
  ASSUME NEW s \in SomeSegments, NEW t \in STRING
  PROVE  AddToken(s, t) \in SomeSegments
<1>1. s \in Seq(Seq(STRING)) /\ Len(s) \in Nat \ {0}
  BY DEF SomeSegments
<1>2. Front(s) \in Seq(Seq(STRING)) /\ Last(s) \in Seq(STRING)
  BY <1>1 DEF Front, Last
<1>3. ASSUME NEW W, NEW u \in Seq(W), NEW v \in W PROVE Append(u, v) \in Seq(W) /\ <<>> \in Seq(W)
  OBVIOUS
<1>4. ASSUME NEW u \in Seq(Seq(STRING)), NEW v \in Seq(STRING) PROVE Append(u, v) \in SomeSegments
  <2>1. Append(u, v) \in Seq(Seq(STRING)) /\ Append(u, v) # <<>>
    BY AppendProperties
  <2> QED BY <2>1 DEF SomeSegments
<1>5. Append(Last(s), t) \in Seq(STRING) /\ <<>> \in Seq(STRING)
  BY <1>2, <1>3
<1> QED BY <1>1, <1>2, <1>5, <1>4 DEF AddToken

\* A path is cut into segments.
LEMMA SegmentsTyped ==
  ASSUME NEW text \in Seq(STRING)
  PROVE  Segments(text) \in SomeSegments
<1> DEFINE N == Len(text)
           start == << <<>> >>
           next == [k \in 0..(N - 1) |-> [s \in SomeSegments |-> AddToken(s, text[k + 1])]]
           Is(g) == g = [i \in 0..N |-> IF i = 0 THEN << <<>> >>
                                        ELSE AddToken(g[i - 1], text[i])]
           upTo == CHOOSE g : Is(g)
<1>1. N \in Nat /\ \A k \in 1..N : text[k] \in STRING
  OBVIOUS
<1>2. start \in SomeSegments
  BY DEF SomeSegments
<1>3. next \in [0..(N - 1) -> [SomeSegments -> SomeSegments]]
  <2>1. \A k \in 0..(N - 1) : k + 1 \in 1..N
    BY <1>1
  <2> QED BY <1>1, <2>1, AddTokenTyped
<1>4. \A k \in 0..(N - 1), s \in SomeSegments : next[k][s] = AddToken(s, text[k + 1])
  OBVIOUS
<1>5. Segments(text) = upTo[N]
  BY DEF Segments
<1> HIDE DEF next
<1>6. \A g : Is(g) <=> g = [i \in 0..N |-> IF i = 0 THEN start ELSE AddToken(g[i - 1], text[i])]
  OBVIOUS
<1> HIDE DEF Is, start
<1>7. PICK f \in [0..N -> SomeSegments] : Steps(f, start, next, N)
  BY <1>1, <1>2, <1>3, Recursion
<1>8. \A k \in 1..N : f[k] = AddToken(f[k - 1], text[k])
  <2>1. SUFFICES ASSUME NEW k \in 1..N PROVE f[k] = AddToken(f[k - 1], text[k])
    OBVIOUS
  <2>2. k - 1 \in 0..(N - 1) /\ k - 1 \in 0..N /\ (k - 1) + 1 = k
    BY <1>1
  <2>3. f[k] = next[k - 1][f[k - 1]]
    BY <1>7, <2>2 DEF Steps
  <2> QED BY <1>4, <2>2, <2>3
<1>9. Is(f)
  <2>1. \A i \in 0..N : f[i] = IF i = 0 THEN start ELSE AddToken(f[i - 1], text[i])
    <3>1. \A i \in 0..N : i # 0 => i \in 1..N
      BY <1>1
    <3>2. f[0] = start
      BY <1>7 DEF Steps
    <3> QED BY <1>8, <3>1, <3>2
  <2>2. f = [i \in 0..N |-> IF i = 0 THEN start ELSE AddToken(f[i - 1], text[i])]
    BY <2>1
  <2> QED BY <1>6, <2>2
<1>10. upTo = [i \in 0..N |-> IF i = 0 THEN start ELSE AddToken(upTo[i - 1], text[i])]
  <2>1. Is(upTo)
    BY <1>9
  <2> HIDE DEF upTo
  <2> QED BY <1>6, <2>1
<1> HIDE DEF upTo
<1> DEFINE A == {n \in Nat : upTo[n] \in SomeSegments}
<1>11. 0 \in A
  BY <1>1, <1>2, <1>10
<1>12. ASSUME NEW n \in Nat, n < N, n \in A PROVE n + 1 \in A
  <2>1. n + 1 \in 0..N /\ n + 1 \in 1..N /\ (n + 1) - 1 = n /\ n + 1 # 0
    BY <1>1, <1>12
  <2>2. upTo[n + 1] = AddToken(upTo[n], text[n + 1])
    BY <1>10, <2>1
  <2>3. upTo[n] \in SomeSegments
    BY <1>12
  <2>4. text[n + 1] \in STRING
    BY <1>1, <2>1
  <2>5. upTo[n + 1] \in SomeSegments
    BY <2>2, <2>3, <2>4, AddTokenTyped
  <2> QED BY <2>5
<1>13. N \in A
  <2>1. 0..N \subseteq A
    <3> HIDE DEF A, N
    <3> QED BY <1>1, <1>11, <1>12, SetInductionTo
  <2> QED BY <1>1, <2>1
<1> QED BY <1>5, <1>13

\* Paths without dot segments.
WalkedPaths == {p \in Seq(Seq(STRING)) : Walked(p)}

\* A segment that is no dots may follow.
LEMMA WalkedAppend ==
  ASSUME NEW p \in WalkedPaths, NEW s \in Seq(STRING), ~IsDot(s), ~IsDotDot(s)
  PROVE  Append(p, s) \in WalkedPaths
<1>1. p \in Seq(Seq(STRING)) /\ Walked(p)
  BY DEF WalkedPaths
<1>2. Len(s) \in {1, 2} => \E k \in DOMAIN s : s[k] \notin Dots
  BY DEF IsDot, IsDotDot
<1>3. /\ Append(p, s) \in Seq(Seq(STRING)) /\ Len(Append(p, s)) = Len(p) + 1
      /\ (\A i \in 1..Len(p) : Append(p, s)[i] = p[i]) /\ Append(p, s)[Len(p) + 1] = s
  BY <1>1
<1> DEFINE q == Append(p, s)
<1>4. DOMAIN q = 1..(Len(p) + 1) /\ DOMAIN p = 1..Len(p) /\ Len(p) \in Nat
  BY <1>1, <1>3
<1> HIDE DEF q
<1>5. ASSUME NEW i \in DOMAIN q, Len(q[i]) \in {1, 2}
      PROVE  \E k \in DOMAIN q[i] : q[i][k] \notin Dots
  <2>1. CASE i \in 1..Len(p)
    BY <1>1, <1>3, <1>4, <1>5, <2>1 DEF Walked, q
  <2>2. CASE i = Len(p) + 1
    BY <1>2, <1>3, <1>5, <2>2 DEF q
  <2> QED BY <1>4, <2>1, <2>2
<1> QED BY <1>3, <1>5 DEF WalkedPaths, Walked, q

\* Entering a segment leaves no dots.
LEMMA EnterWalked ==
  ASSUME NEW p \in WalkedPaths, NEW s \in Seq(STRING)
  PROVE  Enter(p, s) \in WalkedPaths
<1>1. CASE IsDot(s)
  BY <1>1 DEF Enter
<1>2. CASE ~IsDot(s) /\ ~IsDotDot(s)
  BY <1>2, WalkedAppend DEF Enter
<1>3. CASE ~IsDot(s) /\ IsDotDot(s) /\ p # <<>>
  <2>1. Enter(p, s) = Front(p)
    BY <1>3 DEF Enter
  <2>2. p \in Seq(Seq(STRING)) /\ Walked(p) /\ Len(p) \in Nat \ {0}
    BY <1>3 DEF WalkedPaths
  <2>3. /\ Front(p) \in Seq(Seq(STRING)) /\ DOMAIN Front(p) = 1..(Len(p) - 1)
        /\ \A i \in 1..(Len(p) - 1) : Front(p)[i] = p[i]
    BY <2>2 DEF Front
  <2>4. Walked(Front(p))
    <3> DEFINE q == Front(p)
    <3>1. /\ q \in Seq(Seq(STRING)) /\ DOMAIN q = 1..(Len(p) - 1) /\ DOMAIN p = 1..Len(p)
          /\ \A i \in 1..(Len(p) - 1) : q[i] = p[i] /\ i \in 1..Len(p)
      BY <2>2, <2>3
    <3> HIDE DEF q
    <3>2. ASSUME NEW i \in DOMAIN q, Len(q[i]) \in {1, 2}
          PROVE  \E k \in DOMAIN q[i] : q[i][k] \notin Dots
      BY <2>2, <3>1, <3>2 DEF Walked
    <3>3. Walked(q)
      BY <3>1, <3>2 DEF Walked
    <3> QED BY <3>3 DEF q
  <2> QED BY <2>1, <2>3, <2>4 DEF WalkedPaths
<1>4. CASE ~IsDot(s) /\ IsDotDot(s) /\ p = <<>>
  BY <1>4 DEF Enter
<1> QED BY <1>1, <1>2, <1>3, <1>4

\* An empty segment is no dots.
LEMMA EmptyWalks == <<>> \in Seq(STRING) /\ ~IsDot(<<>>) /\ ~IsDotDot(<<>>)
<1>1. <<>> \in Seq(STRING) /\ Len(<<>>) = 0
  OBVIOUS
<1> QED BY <1>1 DEF IsDot, IsDotDot

\* Walking segments from a path without dots leaves none.
LEMMA WalkWalked ==
  ASSUME NEW start \in WalkedPaths, NEW segments \in Seq(Seq(STRING))
  PROVE  Walk(start, segments) \in WalkedPaths
<1> DEFINE N == Len(segments)
           next == [k \in 0..(N - 1) |-> [p \in WalkedPaths |-> Enter(p, segments[k + 1])]]
           Is(g) == g = [i \in 0..N |-> IF i = 0 THEN start ELSE Enter(g[i - 1], segments[i])]
           upTo == CHOOSE g : Is(g)
           last == Last(segments)
<1>1. N \in Nat /\ \A k \in 1..N : segments[k] \in Seq(STRING)
  OBVIOUS
<1>2. next \in [0..(N - 1) -> [WalkedPaths -> WalkedPaths]]
  <2>1. \A k \in 0..(N - 1) : k + 1 \in 1..N
    BY <1>1
  <2> QED BY <1>1, <2>1, EnterWalked
<1>3. \A k \in 0..(N - 1), p \in WalkedPaths : next[k][p] = Enter(p, segments[k + 1])
  OBVIOUS
<1>4. Walk(start, segments) =
        IF IsDot(last) \/ IsDotDot(last) THEN Append(upTo[N], <<>>) ELSE upTo[N]
  BY DEF Walk
<1> HIDE DEF next, last
<1>5. \A g : Is(g) <=> g = [i \in 0..N |-> IF i = 0 THEN start ELSE Enter(g[i - 1], segments[i])]
  OBVIOUS
<1> HIDE DEF Is
<1>6. PICK f \in [0..N -> WalkedPaths] : Steps(f, start, next, N)
  BY <1>1, <1>2, Recursion
<1>7. \A k \in 1..N : f[k] = Enter(f[k - 1], segments[k])
  <2>1. SUFFICES ASSUME NEW k \in 1..N PROVE f[k] = Enter(f[k - 1], segments[k])
    OBVIOUS
  <2>2. k - 1 \in 0..(N - 1) /\ k - 1 \in 0..N /\ (k - 1) + 1 = k
    BY <1>1
  <2>3. f[k] = next[k - 1][f[k - 1]]
    BY <1>6, <2>2 DEF Steps
  <2> QED BY <1>3, <2>2, <2>3
<1>8. Is(f)
  <2>1. \A i \in 0..N : f[i] = IF i = 0 THEN start ELSE Enter(f[i - 1], segments[i])
    <3>1. \A i \in 0..N : i # 0 => i \in 1..N
      BY <1>1
    <3>2. f[0] = start
      BY <1>6 DEF Steps
    <3> QED BY <1>7, <3>1, <3>2
  <2>2. f = [i \in 0..N |-> IF i = 0 THEN start ELSE Enter(f[i - 1], segments[i])]
    BY <2>1
  <2> QED BY <1>5, <2>2
<1>9. upTo = [i \in 0..N |-> IF i = 0 THEN start ELSE Enter(upTo[i - 1], segments[i])]
  <2>1. Is(upTo)
    BY <1>8
  <2> HIDE DEF upTo
  <2> QED BY <1>5, <2>1
<1> HIDE DEF upTo
<1> DEFINE A == {n \in Nat : upTo[n] \in WalkedPaths}
<1>10. 0 \in A
  BY <1>1, <1>9
<1>11. ASSUME NEW n \in Nat, n < N, n \in A PROVE n + 1 \in A
  <2>1. n + 1 \in 0..N /\ n + 1 \in 1..N /\ (n + 1) - 1 = n /\ n + 1 # 0
    BY <1>1, <1>11
  <2>2. upTo[n + 1] = Enter(upTo[n], segments[n + 1])
    BY <1>9, <2>1
  <2>3. upTo[n] \in WalkedPaths /\ segments[n + 1] \in Seq(STRING)
    BY <1>1, <1>11, <2>1
  <2>4. upTo[n + 1] \in WalkedPaths
    BY <2>2, <2>3, EnterWalked
  <2> QED BY <2>4
<1>12. upTo[N] \in WalkedPaths
  <2>1. 0..N \subseteq A
    <3> HIDE DEF A, N
    <3> QED BY <1>1, <1>10, <1>11, SetInductionTo
  <2> QED BY <1>1, <2>1
<1>13. Append(upTo[N], <<>>) \in WalkedPaths
  BY <1>12, EmptyWalks, WalkedAppend
<1> QED BY <1>4, <1>12, <1>13

-----------------------------------------------------------------------------
(* Local references, and all others.                                       *)

\* A reference of text alone: no authority of its own.
Local(ref, scheme) ==
  \/ ~HasScheme(ref) /\ Slashes(ref) < 2
  \/ /\ SchemeEnd(ref) = 1
     /\ SchemeName(ref[1]) = scheme
     /\ Slashes(AfterScheme(ref)) < 2

\* The path that such a reference gives.
LocalPath(path, ref) ==
  IF ref = <<>> THEN Append(path, <<>>)
  ELSE IF Slashes(ref) = 0 THEN Walk(path, Segments(ref))
  ELSE Walk(<<>>, Segments(Tail(ref)))

\* The path of a local reference, with or without a scheme.
PathOf(path, ref) == LocalPath(path, IF HasScheme(ref) THEN AfterScheme(ref) ELSE ref)

\* With less than two separators, the host is that of the base.
LEMMA RelativeLocal ==
  ASSUME NEW base, NEW ref \in Seq(STRING), Slashes(ref) < 2
  PROVE  Relative(base, ref) = UrlOf(base.origin, LocalPath(base.path, ref))
<1>1. Slashes(ref) \in {0, 1} /\ (ref = <<>> => Slashes(ref) = 0)
  <2>1. Slashes(ref) \in 0..Len(ref)
    BY SlashesCount
  <2> QED BY <2>1
<1>2. CASE ref = <<>>
  BY <1>1, <1>2 DEF Relative, LocalPath
<1>3. CASE ref # <<>> /\ Slashes(ref) = 0
  BY <1>3 DEF Relative, LocalPath
<1>4. CASE ref # <<>> /\ Slashes(ref) = 1
  BY <1>4 DEF Relative, LocalPath
<1> QED BY <1>1, <1>2, <1>3, <1>4

\* A local reference leaves no dots in the path.
LEMMA LocalPathWalked ==
  ASSUME NEW path \in WalkedPaths, NEW ref \in Seq(STRING)
  PROVE  LocalPath(path, ref) \in WalkedPaths
<1>1. Append(path, <<>>) \in WalkedPaths
  BY EmptyWalks, WalkedAppend
<1>2. Segments(ref) \in Seq(Seq(STRING))
  BY SegmentsTyped DEF SomeSegments
<1>3. ref # <<>> => Segments(Tail(ref)) \in Seq(Seq(STRING))
  <2>1. ref # <<>> => Tail(ref) \in Seq(STRING)
    OBVIOUS
  <2> QED BY <2>1, SegmentsTyped DEF SomeSegments
<1>4. <<>> \in WalkedPaths
  BY DEF WalkedPaths, Walked
<1> QED BY <1>1, <1>2, <1>3, <1>4, WalkWalked DEF LocalPath

\* An authority gives no URL, or one with a host of its own tokens.
LEMMA AuthorityParts ==
  ASSUME NEW W \in SUBSET STRING, NEW scheme, NEW text \in Seq(W)
  PROVE  LET url == FromAuthority(scheme, text)
         IN  \/ url = Unparsable
             \/ /\ url = [origin |-> url.origin, userinfo |-> url.userinfo,
                          path |-> url.path, web |-> TRUE]
                /\ url.origin.scheme = scheme
                /\ url.origin.host \in Seq(W)
                /\ url.path \in WalkedPaths
<1> DEFINE stop == SelectInSeq(text, LAMBDA t : t \in Separators)
           authority == IF stop = 0 THEN text ELSE SubSeq(text, 1, stop - 1)
           path == IF stop = 0 THEN <<>> ELSE SubSeq(text, stop + 1, Len(text))
           at == SelectLastInSeq(authority, LAMBDA t : t = "user@")
           host == SubSeq(authority, at + 1, Len(authority))
           walk == Walk(<<>>, Segments(path))
<1>1. FromAuthority(scheme, text) =
        IF host = <<>> THEN Unparsable
        ELSE [origin |-> [scheme |-> scheme, host |-> host],
              userinfo |-> at > 0, path |-> walk, web |-> TRUE]
  BY DEF FromAuthority
<1>2. stop \in 0..Len(text) /\ Len(text) \in Nat
  <2> DEFINE I == {i \in 1..Len(text) : text[i] \in Separators}
  <2>1. stop = IF I # {} THEN Min(I) ELSE 0
    BY DEF SelectInSeq
  <2>2. I \in SUBSET (1..Len(text)) /\ Len(text) \in Nat
    OBVIOUS
  <2> HIDE DEF I, stop
  <2>3. I # {} => Min(I) \in I
    BY <2>2, FirstOf
  <2>4. I # {} => Min(I) \in 0..Len(text)
    <3>1. \A x \in I : x \in 1..Len(text)
      BY <2>2
    <3>2. \A x \in 1..Len(text) : x \in 0..Len(text)
      BY <2>2
    <3> QED BY <2>3, <3>1, <3>2
  <2>5. stop \in 0..Len(text)
    BY <2>1, <2>2, <2>4
  <2> QED BY <2>2, <2>5
<1>3. authority \in Seq(W) /\ path \in Seq(W)
  <2>1. CASE stop = 0
    <3>1. <<>> \in Seq(W)
      OBVIOUS
    <3> HIDE DEF stop
    <3> QED BY <2>1, <3>1
  <2>2. CASE stop # 0
    <3> HIDE DEF stop
    <3>1. stop + 1 \in 1..(Len(text) + 1)
      BY <1>2, <2>2
    <3>2. SubSeq(text, stop + 1, Len(text)) \in Seq(W)
      BY <3>1, Suffix
    <3>3. SubSeq(text, 1, stop - 1) \in Seq(W)
      <4>1. \A i \in 1..(stop - 1) : i \in 1..Len(text) /\ text[i] \in W
        BY <1>2, <2>2
      <4> QED BY <4>1, <1>2, <2>2, SubSeqProperties
    <3> QED BY <2>2, <3>2, <3>3
  <2> QED BY <2>1, <2>2
<1> HIDE DEF stop, authority, path
<1>4. at \in 0..Len(authority) /\ Len(authority) \in Nat
  <2> DEFINE I == {i \in 1..Len(authority) : authority[i] = "user@"}
  <2>1. at = IF I # {} THEN Max(I) ELSE 0
    BY DEF SelectLastInSeq
  <2>2. I \in SUBSET (1..Len(authority)) /\ Len(authority) \in Nat
    BY <1>3
  <2> HIDE DEF I, at
  <2>3. I # {} => Max(I) \in I
    BY <2>2, LastOf
  <2>4. I # {} => Max(I) \in 0..Len(authority)
    <3>1. \A x \in I : x \in 1..Len(authority)
      BY <2>2
    <3>2. \A x \in 1..Len(authority) : x \in 0..Len(authority)
      BY <2>2
    <3> QED BY <2>3, <3>1, <3>2
  <2>5. at \in 0..Len(authority)
    BY <2>1, <2>2, <2>4
  <2> QED BY <2>2, <2>5
<1>5. host \in Seq(W)
  <2> HIDE DEF at
  <2>1. at + 1 \in 1..(Len(authority) + 1)
    BY <1>4
  <2> QED BY <1>3, <2>1, Suffix
<1>6. walk \in WalkedPaths
  <2>1. path \in Seq(STRING)
    BY <1>3, SeqOfMore
  <2>2. Segments(path) \in Seq(Seq(STRING))
    BY <2>1, SegmentsTyped DEF SomeSegments
  <2>3. <<>> \in WalkedPaths
    BY DEF WalkedPaths, Walked
  <2> QED BY <2>2, <2>3, WalkWalked
<1> HIDE DEF at, host, walk
<1>7. CASE host = <<>>
  BY <1>1, <1>7
<1>8. CASE host # <<>>
  <2> DEFINE origin == [scheme |-> scheme, host |-> host]
             url == [origin |-> origin, userinfo |-> at > 0, path |-> walk, web |-> TRUE]
  <2>1. origin.scheme = scheme /\ origin.host = host
    OBVIOUS
  <2>2. FromAuthority(scheme, text) = url
    BY <1>1, <1>8
  <2> HIDE DEF origin
  <2>3. url.origin = origin /\ url.path = walk
        /\ url = [origin |-> url.origin, userinfo |-> url.userinfo,
                  path |-> url.path, web |-> TRUE]
    OBVIOUS
  <2> HIDE DEF url
  <2> QED BY <1>5, <1>6, <2>1, <2>2, <2>3
<1> QED BY <1>7, <1>8

\* A local reference means the same path on every base of the scheme.
LEMMA ResolveLocal ==
  ASSUME NEW base, NEW text \in Seq(STRING), Local(Cleaned(text), base.origin.scheme)
  PROVE  Resolve(base, text) = UrlOf(base.origin, PathOf(base.path, Cleaned(text)))
<1> DEFINE ref == Cleaned(text)
           rest == AfterScheme(ref)
           end == SchemeEnd(ref)
           scheme == SchemeName(ref[end])
<1>1. ref \in Seq(STRING) /\ rest \in Seq(STRING)
  BY CleanedTyped, SchemeEndTyped
<1>2. Resolve(base, text) =
        CASE ~HasScheme(ref) -> Relative(base, ref)
          [] end > 1 -> Opaque
          [] end = 1 ->
               IF scheme = base.origin.scheme /\ Slashes(rest) < 2
               THEN Relative(base, rest)
               ELSE FromAuthority(scheme, AfterSlashes(rest))
  BY DEF Resolve
<1>3. Local(ref, base.origin.scheme) /\ rest = AfterScheme(ref) /\ end = SchemeEnd(ref)
  OBVIOUS
<1>4. end \in Nat
  BY <1>1, SchemeEndTyped
<1>5. ref = Cleaned(text) /\ (HasScheme(ref) <=> end > 0)
  BY DEF HasScheme
<1>6. scheme = SchemeName(ref[end])
  OBVIOUS
<1> HIDE DEF ref, rest, end, scheme
<1>7. CASE ~HasScheme(ref)
  <2>1. Slashes(ref) < 2
    BY <1>3, <1>4, <1>5, <1>7 DEF Local
  <2>2. Resolve(base, text) = Relative(base, ref)
    BY <1>2, <1>4, <1>5, <1>7
  <2> QED BY <1>1, <1>5, <1>7, <2>1, <2>2, RelativeLocal DEF PathOf
<1>8. CASE HasScheme(ref)
  <2>1. end = 1 /\ scheme = base.origin.scheme /\ Slashes(rest) < 2
    BY <1>3, <1>6, <1>8 DEF Local
  <2>2. Resolve(base, text) = Relative(base, rest)
    BY <1>2, <1>8, <2>1
  <2> QED BY <1>1, <1>3, <1>5, <1>8, <2>1, <2>2, RelativeLocal DEF PathOf
<1> QED BY <1>7, <1>8

\* Any other reference names its own host, or nothing.
LEMMA ResolveOther ==
  ASSUME NEW W \in SUBSET STRING, NEW base, NEW text \in Seq(W),
         ~Local(Cleaned(text), base.origin.scheme)
  PROVE  LET url == Resolve(base, text)
         IN  \/ url = Unparsable
             \/ /\ url = [origin |-> url.origin, userinfo |-> url.userinfo,
                          path |-> url.path, web |-> url.web]
                /\ url.origin.host \in Seq(W)
                /\ url.path \in WalkedPaths
                /\ SchemeEnd(Cleaned(text)) = 1 =>
                     url.origin.scheme = SchemeName(Cleaned(text)[1])
<1> DEFINE ref == Cleaned(text)
           rest == AfterScheme(ref)
           end == SchemeEnd(ref)
           scheme == SchemeName(ref[end])
           opaque == Opaque
<1>1. ref \in Seq(W) /\ rest \in Seq(W)
  BY CleanedTyped, SchemeEndTyped
<1>2. Resolve(base, text) =
        CASE ~HasScheme(ref) -> Relative(base, ref)
          [] end > 1 -> opaque
          [] end = 1 ->
               IF scheme = base.origin.scheme /\ Slashes(rest) < 2
               THEN Relative(base, rest)
               ELSE FromAuthority(scheme, AfterSlashes(rest))
  BY DEF Resolve
<1>3. ~Local(ref, base.origin.scheme) /\ rest = AfterScheme(ref) /\ end = SchemeEnd(ref)
  OBVIOUS
<1>4. end \in Nat
  BY <1>1, SchemeEndTyped
<1>5. ref = Cleaned(text) /\ (HasScheme(ref) <=> end > 0)
  BY DEF HasScheme
<1>6. scheme = SchemeName(ref[end])
  OBVIOUS
<1>7. /\ opaque = [origin |-> opaque.origin, userinfo |-> opaque.userinfo,
                   path |-> opaque.path, web |-> opaque.web]
      /\ opaque.origin.host \in Seq(W)
      /\ opaque.path \in WalkedPaths
  <2>1. /\ opaque = [origin |-> opaque.origin, userinfo |-> opaque.userinfo,
                     path |-> opaque.path, web |-> opaque.web]
        /\ opaque.origin.host = <<>> /\ opaque.path = <<>>
    BY DEF Opaque
  <2>2. <<>> \in Seq(W) /\ <<>> \in Seq(Seq(STRING))
    OBVIOUS
  <2>3. Len(<<>>) = 0 /\ DOMAIN <<>> = {}
    OBVIOUS
  <2>4. <<>> \in WalkedPaths
    BY <2>2, <2>3 DEF WalkedPaths, Walked
  <2> HIDE DEF opaque
  <2> QED BY <2>1, <2>2, <2>4
<1> HIDE DEF ref, rest, end, scheme, opaque
<1>8. CASE ~HasScheme(ref)
  <2>1. Slashes(ref) >= 2 /\ ref # <<>>
    <3>1. Slashes(ref) \in 0..Len(ref) /\ ~(Slashes(ref) < 2)
      BY <1>1, <1>3, <1>8, SlashesCount DEF Local
    <3> QED BY <1>1, <3>1
  <2>2. Relative(base, ref) = FromAuthority(base.origin.scheme, AfterSlashes(ref))
    <3>1. Slashes(ref) \in Nat
      <4>1. Slashes(ref) \in 0..Len(ref)
        BY <1>1, SlashesCount
      <4>2. Len(ref) \in Nat
        BY <1>1
      <4> QED BY <4>1, <4>2
    <3> QED BY <2>1, <3>1 DEF Relative
  <2>3. Resolve(base, text) = FromAuthority(base.origin.scheme, AfterSlashes(ref))
    BY <1>2, <1>4, <1>5, <1>8, <2>2
  <2>4. AfterSlashes(ref) \in Seq(W) /\ end # 1
    BY <1>1, <1>5, <1>8, SlashesCount
  <2> HIDE <1>2, <1>7
  <2> QED BY <1>3, <1>5, <2>3, <2>4, AuthorityParts
<1>9. CASE end > 1
  <2>1. Resolve(base, text) = opaque
    BY <1>2, <1>5, <1>9
  <2> QED BY <1>3, <1>5, <1>7, <1>9, <2>1
<1>10. CASE end = 1
  <2>1. ~(scheme = base.origin.scheme /\ Slashes(rest) < 2)
    BY <1>3, <1>6, <1>10 DEF Local
  <2>2. Resolve(base, text) = FromAuthority(scheme, AfterSlashes(rest))
    BY <1>2, <1>5, <1>10, <2>1
  <2>3. AfterSlashes(rest) \in Seq(W)
    BY <1>1, SlashesCount
  <2> HIDE <1>2, <1>7
  <2> QED BY <1>3, <1>5, <1>6, <1>10, <2>2, <2>3, AuthorityParts
<1> QED BY <1>4, <1>5, <1>8, <1>9, <1>10

\* Whatever a reference is, no dot segment is left in the path of its URL.
LEMMA ResolveWalks ==
  ASSUME NEW base, base.path \in WalkedPaths, NEW text \in Seq(STRING),
         Resolve(base, text) # Unparsable
  PROVE  Walked(Resolve(base, text).path)
<1> DEFINE url == Resolve(base, text)
<1>1. CASE Local(Cleaned(text), base.origin.scheme)
  <2>1. url = UrlOf(base.origin, PathOf(base.path, Cleaned(text)))
    BY <1>1, ResolveLocal
  <2>2. Cleaned(text) \in Seq(STRING) /\ AfterScheme(Cleaned(text)) \in Seq(STRING)
    BY CleanedTyped, SchemeEndTyped
  <2>3. PathOf(base.path, Cleaned(text)) \in WalkedPaths
    BY <2>2, LocalPathWalked DEF PathOf
  <2> QED BY <2>1, <2>3 DEF UrlOf, WalkedPaths
<1>2. CASE ~Local(Cleaned(text), base.origin.scheme)
  <2>1. url.path \in WalkedPaths
    BY <1>2, ResolveOther
  <2> QED BY <2>1 DEF WalkedPaths
<1> QED BY <1>1, <1>2

\* A URL that is made of an origin and a path has them.
LEMMA UrlOfParts ==
  ASSUME NEW origin, NEW path
  PROVE  /\ UrlOf(origin, path) # Unparsable
         /\ UrlOf(origin, path).origin = origin
         /\ UrlOf(origin, path).path = path
<1>1. UrlOf(origin, path).origin = origin /\ UrlOf(origin, path).path = path
  BY DEF UrlOf
<1>2. UrlOf(origin, path) # Unparsable
  <2>1. "origin" \in DOMAIN UrlOf(origin, path)
    BY DEF UrlOf
  <2>2. DOMAIN Unparsable = {"unparsable"}
    BY DEF Unparsable
  <2>3. "origin" # "unparsable"
    OBVIOUS
  <2> QED BY <2>1, <2>2, <2>3
<1> QED BY <1>1, <1>2

\* What the guard's own host is not named by contributes nothing if it is local.
LEMMA ContributesLocal ==
  ASSUME NEW ref \in Seq(STRING), Contributes(ref) = "ok", ~NamesGuard(ref)
  PROVE  Local(Cleaned(ref), "https")
<1> DEFINE W == STRING \ Range(RelativeGuard.origin.host)
           url == Resolve(RelativeGuard, ref)
<1>1. RelativeGuard.origin = [scheme |-> "https", host |-> <<"ruoqa-guard.invalid">>]
      /\ RelativeGuard.origin.host = <<"ruoqa-guard.invalid">>
      /\ RelativeGuard.origin.scheme = "https"
  BY DEF RelativeGuard
<1>2. Range(RelativeGuard.origin.host) = {"ruoqa-guard.invalid"}
  BY <1>1 DEF Range
<1>3. ref \in Seq(W)
  BY <1>2 DEF NamesGuard
<1>4. url # Unparsable /\ url.origin = RelativeGuard.origin
  BY DEF Contributes, OnGuard
<1>5. SUFFICES ASSUME ~Local(Cleaned(ref), "https") PROVE FALSE
  OBVIOUS
<1>6. W \in SUBSET STRING /\ ~Local(Cleaned(ref), RelativeGuard.origin.scheme)
  BY <1>1, <1>5
<1> HIDE DEF W
<1>7. url.origin.host \in Seq(W)
  <2> HIDE DEF url
  <2>1. url = Resolve(RelativeGuard, ref)
    BY DEF url
  <2> QED BY <1>3, <1>4, <1>6, <2>1, ResolveOther
<1>8. <<"ruoqa-guard.invalid">> \in Seq(W)
  BY <1>1, <1>4, <1>7
<1>9. "ruoqa-guard.invalid" \in W
  <2>1. 1 \in DOMAIN <<"ruoqa-guard.invalid">> /\ <<"ruoqa-guard.invalid">>[1] = "ruoqa-guard.invalid"
    OBVIOUS
  <2>2. \A s \in Seq(W) : \A i \in DOMAIN s : s[i] \in W
    OBVIOUS
  <2> QED BY <1>8, <2>1, <2>2
<1> QED BY <1>2, <1>9 DEF W

\* Behind a slash, and not hidden by it, stands a local reference.
LEMMA SlashLocal ==
  ASSUME NEW ref \in Seq(STRING), ref # <<>>, ref[1] = "/", ~SlashHides(ref),
         Local(Cleaned(ref), "https")
  PROVE  /\ \A scheme : Local(Cleaned(Tail(ref)), scheme)
         /\ StripSlash(Tail(ref)) = Tail(ref)
<1> DEFINE t == Tail(ref)
           c == Cleaned(ref)
<1>1. t \in Seq(STRING) /\ ref = <<"/">> \o t /\ Len(ref) \in Nat \ {0}
  BY FirstAndRest
<1>2. Trimmed(ref) = ref
  <2> DEFINE I == {i \in 1..Len(ref) : ref[i] \notin Blanks}
             first == SelectInSeq(ref, LAMBDA s : s \notin Blanks)
  <2>1. 1 \in I
    <3>1. "/" \notin Blanks
      BY DEF Blanks
    <3>2. 1 \in 1..Len(ref)
      BY <1>1
    <3> QED BY <3>1, <3>2
  <2>2. \A i \in I : 1 <= i /\ i \in Nat
    OBVIOUS
  <2>3. first = IF I # {} THEN Min(I) ELSE 0
    BY DEF SelectInSeq
  <2>4. Trimmed(ref) = IF first = 0 THEN <<>> ELSE SubSeq(ref, first, Len(ref))
    BY DEF Trimmed
  <2> HIDE DEF I, first
  <2>5. Min(I) = 1
    BY <2>1, <2>2 DEF Min
  <2>6. first = 1
    BY <2>1, <2>3, <2>5
  <2> QED BY <2>4, <2>6, SubSeqFull
<1>3. Cleaned(ref) = <<"/">> \o Tabless(t)
  <2>1. "/" \in STRING \ {"tab"} /\ <<"/">> \in Seq(STRING)
    OBVIOUS
  <2>2. Tabless(<<"/">> \o t) = Tabless(<<"/">>) \o Tabless(t)
    BY <1>1, <2>1, TablessLaws
  <2>3. Tabless(<<"/">>) = <<"/">>
    BY <2>1, TablessLaws
  <2> QED BY <1>1, <1>2, <2>2, <2>3 DEF Cleaned
<1>4. Tabless(t) \in Seq(STRING) /\ c \in Seq(STRING) /\ c # <<>> /\ c[1] = "/"
  <2>1. Tabless(t) \in Seq(STRING)
    BY <1>1, TablessLaws
  <2> DEFINE v == Tabless(t)
  <2> HIDE DEF v
  <2>2. v \in Seq(STRING) => <<"/">> \o v \in Seq(STRING) /\ <<"/">> \o v # <<>>
                             /\ (<<"/">> \o v)[1] = "/"
    OBVIOUS
  <2> QED BY <1>3, <2>1, <2>2 DEF v
<1>5. Slashes(c) = 1
  <2>1. SchemeEnd(c) = 0
    BY <1>4, SchemeEndTyped
  <2>2. Slashes(c) < 2
    BY <2>1 DEF Local, HasScheme
  <2>3. Slashes(c) \in 0..Len(c) /\ Slashes(c) >= 1
    BY <1>4, SlashesCount DEF Separators
  <2> QED BY <2>2, <2>3
<1>6. \A scheme : Local(Cleaned(t), scheme)
  <2>1. ~HasScheme(Cleaned(t)) /\ ~(Slashes(Cleaned(t)) >= 2)
    BY <1>5 DEF SlashHides
  <2>2. Slashes(Cleaned(t)) \in Nat
    <3>1. Cleaned(t) \in Seq(STRING)
      BY <1>1, CleanedTyped
    <3>2. Slashes(Cleaned(t)) \in 0..Len(Cleaned(t))
      BY <3>1, SlashesCount
    <3>3. Len(Cleaned(t)) \in Nat
      BY <3>1
    <3> QED BY <3>2, <3>3
  <2> QED BY <2>1, <2>2 DEF Local
<1>7. ASSUME t # <<>>, t[1] = "/" PROVE FALSE
  <2> DEFINE r == Tail(t)
  <2>1. t = <<"/">> \o r /\ r \in Seq(STRING)
    BY <1>1, <1>7, FirstAndRest
  <2>2. "/" \in STRING \ {"tab"} /\ <<"/">> \in Seq(STRING)
    OBVIOUS
  <2> HIDE DEF r
  <2>3. Tabless(<<"/">> \o r) = Tabless(<<"/">>) \o Tabless(r)
    BY <2>1, <2>2, TablessLaws
  <2>4. Tabless(<<"/">>) = <<"/">> /\ Tabless(r) \in Seq(STRING)
    BY <2>1, <2>2, TablessLaws
  <2> DEFINE v == Tabless(r)
  <2>5. c = <<"/">> \o (<<"/">> \o v) /\ v \in Seq(STRING)
    BY <1>3, <2>1, <2>3, <2>4
  <2> HIDE DEF v, c
  <2>6. Len(c) >= 2 /\ c[1] = "/" /\ c[2] = "/"
    BY <2>5
  <2>7. Slashes(c) >= 2
    BY <1>4, <2>6, SlashesCount DEF Separators
  <2> QED BY <1>5, <2>7
<1> QED BY <1>6, <1>7 DEF StripSlash

\* A path that is accepted, and neither hides what it is behind its slash nor
\* names the guard's host, is local behind the slash that join strips.
LEMMA AcceptedLocal ==
  ASSUME NEW ref \in Seq(STRING), Join(ref).verdict = "ok",
         ~SlashHides(ref), ~NamesGuard(ref)
  PROVE  /\ StripSlash(ref) \in Seq(STRING)
         /\ Local(Cleaned(StripSlash(ref)), BaseOrigin.scheme)
<1> DEFINE url == Resolve(Base, StripSlash(ref))
<1>1. url # Unparsable /\ GuardRequestUrl(url) = "ok" /\ Contributes(ref) = "ok"
  BY DEF Join, Joined, Verdict
<1>2. Local(Cleaned(ref), "https")
  BY <1>1, ContributesLocal
<1>3. CASE ref # <<>> /\ ref[1] = "/"
  <2>1. StripSlash(ref) = Tail(ref) /\ Tail(ref) \in Seq(STRING)
    BY <1>3 DEF StripSlash
  <2> QED BY <1>2, <1>3, <2>1, SlashLocal
<1>4. CASE ~(ref # <<>> /\ ref[1] = "/")
  <2>1. StripSlash(ref) = ref
    BY <1>4 DEF StripSlash
  <2>2. CASE BaseOrigin.scheme = "https"
    BY <1>2, <2>1, <2>2
  <2>3. CASE BaseOrigin.scheme # "https"
    <3>1. CASE ~HasScheme(Cleaned(ref))
      <4>1. Slashes(Cleaned(ref)) < 2
        BY <1>2, <3>1 DEF Local, HasScheme
      <4> QED BY <2>1, <3>1, <4>1 DEF Local
    <3>2. CASE HasScheme(Cleaned(ref))
      <4>1. SchemeEnd(Cleaned(ref)) = 1 /\ SchemeName(Cleaned(ref)[1]) = "https"
        BY <1>2, <3>2 DEF Local
      <4>2. SUFFICES ASSUME ~Local(Cleaned(ref), BaseOrigin.scheme) PROVE FALSE
        BY <2>1
      <4>3. Base.origin = BaseOrigin
        BY DEF Base
      <4>4. url.origin.scheme = "https"
        <5> DEFINE W == STRING
        <5>1. W \in SUBSET STRING /\ ref \in Seq(W)
          OBVIOUS
        <5> HIDE DEF W
        <5>2. ~Local(Cleaned(ref), Base.origin.scheme)
          BY <4>2, <4>3
        <5> QED BY <1>1, <2>1, <4>1, <5>1, <5>2, ResolveOther
      <4>5. url.origin = BaseOrigin
        BY <1>1 DEF GuardRequestUrl
      <4> QED BY <2>3, <4>4, <4>5
    <3> QED BY <3>1, <3>2
  <2> QED BY <2>2, <2>3
<1> QED BY <1>3, <1>4

\* What join accepts means one thing (PathsMeanOneThing), for every
\* reference.
LEMMA AcceptedMeansOneThing ==
  ASSUME NEW ref \in Seq(STRING), Join(ref).verdict = "ok",
         ~SlashHides(ref), ~NamesGuard(ref)
  PROVE  /\ Resolve([origin |-> Moved, path |-> BasePath], StripSlash(ref))
              = UrlOf(Moved, Join(ref).url.path)
         /\ ref # <<>> /\ ref[1] = "/" => Join(Tail(ref)) = Join(ref)
<1> DEFINE t == StripSlash(ref)
           c == Cleaned(t)
           there == [origin |-> Moved, path |-> BasePath]
<1>1. t \in Seq(STRING) /\ Local(c, BaseOrigin.scheme)
  BY AcceptedLocal
<1>2. Base.origin = BaseOrigin /\ Base.path = BasePath
      /\ there.origin = Moved /\ there.path = BasePath /\ Moved.scheme = BaseOrigin.scheme
  BY DEF Base, Moved
<1> HIDE DEF there
<1>3. Resolve(Base, t) = UrlOf(BaseOrigin, PathOf(BasePath, c))
  BY <1>1, <1>2, ResolveLocal
<1>4. Resolve(there, t) = UrlOf(Moved, PathOf(BasePath, c))
  BY <1>1, <1>2, ResolveLocal
<1>5. Join(ref).url.path = PathOf(BasePath, c)
  BY <1>3, UrlOfParts DEF Join, Joined
<1>6. ASSUME ref # <<>>, ref[1] = "/" PROVE Join(Tail(ref)) = Join(ref)
  <2>1. t = Tail(ref)
    BY <1>6 DEF StripSlash
  <2>2. Contributes(ref) = "ok" /\ GuardRequestUrl(Resolve(Base, t)) = "ok"
    BY DEF Join, Joined, Verdict
  <2>3. Local(Cleaned(ref), "https")
    BY <2>2, ContributesLocal
  <2>4. Local(c, "https") /\ StripSlash(Tail(ref)) = Tail(ref)
    BY <1>6, <2>1, <2>3, SlashLocal
  <2>5. RelativeGuard.origin.scheme = "https"
    BY DEF RelativeGuard
  <2>6. Resolve(RelativeGuard, t) = UrlOf(RelativeGuard.origin, PathOf(RelativeGuard.path, c))
    BY <1>1, <2>4, <2>5, ResolveLocal
  <2>7. Contributes(t) = "ok"
    BY <2>6, UrlOfParts DEF Contributes, OnGuard
  <2> QED BY <2>1, <2>2, <2>4, <2>7 DEF Join, Joined, Verdict
<1> QED BY <1>4, <1>5, <1>6 DEF there

-----------------------------------------------------------------------------
(* Calls.                                                                  *)

\* The inductive invariant about what is sent: the prepared request is what
\* join made of the path, or a parsed URL of its caller's.
FromCall ==
  /\ call \in Calls
  /\ Accepted => /\ Join(call.ref).verdict = "ok"
                 /\ prepared.query = UrlQuery(call.query)
                 /\ Walked(prepared.url.path)

\* What join accepts has no dots in its path.
LEMMA JoinedIsWalked ==
  ASSUME NEW ref \in Seq(STRING), Join(ref).verdict = "ok"
  PROVE  Walked(Join(ref).url.path)
<1>1. Join(ref).url = Resolve(Base, StripSlash(ref)) /\ Join(ref).url # Unparsable
  BY DEF Join, Joined, Verdict
<1>2. StripSlash(ref) \in Seq(STRING)
  <2>1. ref # <<>> => Tail(ref) \in Seq(STRING)
    OBVIOUS
  <2> QED BY <2>1 DEF StripSlash
<1>3. Base.path \in WalkedPaths
  <2>1. Walked(BasePath)
    BY OutgoingAssumption DEF OutgoingAssumption
  <2> QED BY <2>1 DEF Base, WalkedPaths, Walked
<1> QED BY <1>1, <1>2, <1>3, ResolveWalks

\* Each step keeps the invariant.
LEMMA FromCallStep == FromCall /\ SentAsPrepared /\ [Next]_vars => FromCall'
<1> SUFFICES ASSUME FromCall, SentAsPrepared, [Next]_vars PROVE FromCall'
  OBVIOUS
<1> USE DEF FromCall
<1>1. CASE Prepare
  <2>1. CASE pc' = "prepared"
    <3>1. Join(call.ref).verdict = "ok" /\ prepared' = PreparedRequest(Join(call.ref).url)
          /\ call' = call
      BY <1>1, <2>1 DEF Prepare, MakeRequest, Refuse
    <3>2. call.ref \in Seq(STRING)
      BY OutgoingAssumption DEF OutgoingAssumption
    <3>3. Walked(Join(call.ref).url.path)
      BY <3>1, <3>2, JoinedIsWalked
    <3>4. prepared'.query = UrlQuery(call.query) /\ prepared'.url = Join(call.ref).url
      BY <3>1 DEF PreparedRequest
    <3> QED BY <3>1, <3>3, <3>4
  <2>2. CASE pc' # "prepared"
    BY <1>1, <2>2 DEF Prepare, MakeRequest, Refuse, Accepted
  <2> QED BY <2>1, <2>2
<1>2. ASSUME NEW names, NEW url, Edit(names, url),
             url = prepared.url \/ url \in CallerUrls
      PROVE  FromCall'
  <2>1. Accepted /\ call' = call
    BY <1>2 DEF Edit, Accepted
  <2>2. DOMAIN prepared = {"url", "query", "headers", "body"}
    BY <2>1 DEF SentAsPrepared, IsPrepared
  <2>3. prepared'.query = prepared.query /\ prepared'.url = url
    BY <1>2, <2>1, <2>2 DEF Edit, SentAsPrepared, IsPrepared
  <2>4. Walked(url.path)
    BY <1>2, <2>1, OutgoingAssumption DEF OutgoingAssumption
  <2> QED BY <2>1, <2>3, <2>4
<1>3. CASE Attempt
  BY <1>3 DEF Attempt, Accepted
<1>4. CASE RefuseAttempt
  BY <1>4 DEF RefuseAttempt, Refuse, Accepted
<1>5. CASE UNCHANGED vars
  BY <1>5 DEF vars, Accepted
<1> QED BY <1>1, <1>2, <1>3, <1>4, <1>5 DEF Next

\* So every request prepared and sent is one that this call could make.
LEMMA CallsAreKept == Spec => []FromCall
<1>1. Init => FromCall
  BY DEF Init, FromCall, Accepted
<1> QED BY <1>1, FromCallStep, OutgoingSafe, PTL DEF Spec

\* No dot segment, escaped or not, is left in a path that is sent, so the
\* prefix that the guard compared is the one the server sees (join).
THEOREM PathsAreWalked == Spec => []DotsAreWalked
<1>1. FromCall /\ SentAsPrepared => DotsAreWalked
  <2> SUFFICES ASSUME FromCall, SentAsPrepared, Sent PROVE DotsAreWalked
    BY DEF DotsAreWalked
  <2>1. wire.url = prepared.url /\ Accepted
    BY SignedParts DEF SentAsPrepared
  <2> QED BY <2>1 DEF DotsAreWalked, FromCall
<1> QED BY CallsAreKept, OutgoingSafe, <1>1, PTL

\* An accepted path means the same on every host and with or without its
\* slash, but for those whose slash hides more and those that name the
\* guard's host (join, RELATIVE_GUARD).
THEOREM PathsAreUnambiguous == Spec => []PathsMeanOneThing
<1>1. FromCall => PathsMeanOneThing
  <2> SUFFICES ASSUME FromCall, Accepted, ~SlashHides(call.ref), ~NamesGuard(call.ref)
               PROVE  PathsAreRelative /\ SlashIsNeutral
    BY DEF PathsMeanOneThing, PathsAreRelative, SlashIsNeutral
  <2>1. call.ref \in Seq(STRING) /\ Join(call.ref).verdict = "ok"
    BY OutgoingAssumption DEF OutgoingAssumption, FromCall
  <2> QED BY <2>1, AcceptedMeansOneThing DEF PathsAreRelative, SlashIsNeutral
<1> QED BY CallsAreKept, <1>1, PTL

-----------------------------------------------------------------------------
(* Queries and signatures.                                                 *)

\* What is signed and sent of a query.
LEMMA PreparedQuery ==
  ASSUME FromCall, SentAsPrepared, Sent
  PROVE  /\ IsPrepared(prepared) /\ mode \in Modes /\ wire = Signed(mode, prepared)
         /\ prepared.query \in Seq(Byte) \cup {NoQuery}
         /\ Pairs(prepared.query) = Pairs(call.query)
<1>1. Accepted /\ IsPrepared(prepared) /\ mode \in Modes /\ wire = Signed(mode, prepared)
  BY DEF SentAsPrepared
<1>2. call.query \in Seq(Byte) \cup {NoQuery} /\ NoQuery \notin Seq(Byte)
  <2>1. call.query \in QueryTexts \cup {NoQuery} /\ NoQuery \notin Seq(Byte)
    BY OutgoingAssumption DEF OutgoingAssumption, FromCall
  <2>2. QueryTexts \subseteq Seq(Byte)
    <3>1. \A q \in Seq(Byte \ {9, 10, 13, 35}) : q \in Seq(Byte)
      OBVIOUS
    <3> QED BY <3>1 DEF QueryTexts
  <2> QED BY <2>1, <2>2
<1>3. prepared.query = UrlQuery(call.query)
  BY <1>1 DEF FromCall
<1>4. CASE call.query = NoQuery
  BY <1>1, <1>3, <1>4 DEF UrlQuery
<1>5. CASE call.query # NoQuery
  <2>1. call.query \in Seq(Byte)
    BY <1>2, <1>5
  <2>2. prepared.query = ParsedQuery(call.query)
    BY <1>3, <1>5 DEF UrlQuery
  <2>3. ParsedQuery(call.query) \in Seq(Byte)
    BY <2>1, ParsedLaws
  <2>4. prepared.query # NoQuery
    BY <1>2, <2>2, <2>3
  <2>5. ServerPairs(ParsedQuery(call.query)) = ServerPairs(call.query)
    BY <2>1, ParsedPairs
  <2> QED BY <1>1, <1>5, <2>2, <2>3, <2>4, <2>5 DEF Pairs
<1> QED BY <1>4, <1>5

\* What sign leaves of a query, and what it signs.
LEMMA SignedQuery ==
  ASSUME NEW request, IsPrepared(request), mode \in Modes
  PROVE  /\ Signed(mode, request).query =
              IF mode = "hmac" THEN WireQuery(request.query) ELSE request.query
         /\ Signed(mode, request).signed =
              SigningString(Signed(mode, request).url.path, Signed(mode, request).query)
<1>1. DOMAIN request = {"url", "query", "headers", "body"}
  BY DEF IsPrepared
<1>2. CASE mode = "token"
  BY <1>1, <1>2 DEF Signed, Authenticated
<1>3. CASE mode = "hmac"
  BY <1>1, <1>3 DEF Signed, Authenticated
<1>4. CASE mode = "anonymous"
  BY <1>1, <1>4 DEF Signed, Authenticated
<1> QED BY <1>2, <1>3, <1>4 DEF Modes

\* The empty query carries nothing.
LEMMA PairsOfNothing == ServerPairs(<<>>) = <<>>
<1>1. <<>> \in Seq(Plain)
  OBVIOUS
<1> QED BY <1>1, ServerPairsOfPlain DEF OnePair

\* What set_query leaves: the canonical query or none, with the same pairs.
LEMMA WireQueryLaws ==
  ASSUME NEW q \in Seq(Byte) \cup {NoQuery}, NoQuery \notin Seq(Byte)
  PROVE  /\ WireQuery(q) \in Seq(Byte) \cup {NoQuery}
         /\ WireQuery(q) = IF q = NoQuery \/ ServerQuery(q) = <<>> THEN NoQuery
                           ELSE ServerQuery(q)
         /\ Pairs(WireQuery(q)) = Pairs(q)
<1>1. CASE q = NoQuery
  BY <1>1 DEF WireQuery, Pairs
<1>2. CASE q # NoQuery
  <2>1. q \in Seq(Byte)
    BY <1>2
  <2>2. CanonicalQuery(q) = ServerQuery(q) /\ CanonicalQuery(q) \in Seq(Byte)
        /\ ServerPairs(CanonicalQuery(q)) = ServerPairs(q)
    BY <2>1, CanonicalLikeServer, CanonicalKeepsPairs
  <2>3. CASE CanonicalQuery(q) = <<>>
    <3>1. ServerPairs(<<>>) = <<>>
      BY PairsOfNothing
    <3> QED BY <1>2, <2>2, <2>3, <3>1 DEF WireQuery, Pairs
  <2>4. CASE CanonicalQuery(q) # <<>>
    <3>1. CanonicalQuery(q) # NoQuery
      BY <2>2
    <3> QED BY <1>2, <2>2, <2>4, <3>1 DEF WireQuery, Pairs
  <2> QED BY <2>3, <2>4
<1> QED BY <1>1, <1>2

\* The names and values that a caller wrote into a query, and their order, are
\* those that the server reads (canonical_query, set_query).
THEOREM QueriesKeepTheirMeaning == Spec => []MeaningKept
<1>1. FromCall /\ SentAsPrepared => MeaningKept
  <2> SUFFICES ASSUME FromCall, SentAsPrepared, Sent
               PROVE  Pairs(wire.query) = Pairs(call.query)
    BY DEF MeaningKept
  <2>1. /\ IsPrepared(prepared) /\ mode \in Modes /\ wire = Signed(mode, prepared)
        /\ prepared.query \in Seq(Byte) \cup {NoQuery}
        /\ Pairs(prepared.query) = Pairs(call.query)
    BY PreparedQuery
  <2>2. wire.query = IF mode = "hmac" THEN WireQuery(prepared.query) ELSE prepared.query
    BY <2>1, SignedQuery
  <2>3. NoQuery \notin Seq(Byte)
    BY OutgoingAssumption DEF OutgoingAssumption
  <2>4. Pairs(WireQuery(prepared.query)) = Pairs(prepared.query)
    BY <2>1, <2>3, WireQueryLaws
  <2> QED BY <2>1, <2>2, <2>4
<1> QED BY CallsAreKept, OutgoingSafe, <1>1, PTL

\* Whose key goes out: the client's, unless the caller set one.
LEMMA KeyOnTheWire ==
  ASSUME SentAsPrepared, Sent, mode = "hmac"
  PROVE  wire.headers["x-api-key"] = "base" <=> prepared.headers["x-api-key"] = Absent
<1>1. IsPrepared(prepared) /\ mode \in Modes /\ wire = Signed(mode, prepared)
  BY DEF SentAsPrepared
<1>2. "x-api-key" \in HeaderNames \ HmacHeaders /\ "x-api-key" \in BaseHeaders(mode)
  BY DEF HeaderNames, HmacHeaders, BaseHeaders
<1>3. AuthHeaders(prepared)["x-api-key"] = prepared.headers["x-api-key"]
  BY <1>1, <1>2, SignedParts, InsertSets
<1>4. wire.headers = WithBaseHeaders(mode, AuthHeaders(prepared))
  BY <1>1, SignedParts
<1>5. prepared.headers["x-api-key"] \in {Absent, "prepare", "caller"}
  BY <1>1, <1>2 DEF IsPrepared, CallersHeaders
<1>6. CASE prepared.headers["x-api-key"] = Absent
  BY <1>2, <1>3, <1>4, <1>6, InsertIfAbsentSets DEF WithBaseHeaders
<1>7. CASE prepared.headers["x-api-key"] # Absent
  <2>1. wire.headers["x-api-key"] = prepared.headers["x-api-key"]
    BY <1>2, <1>3, <1>4, <1>7, InsertIfAbsentSets DEF WithBaseHeaders
  <2> QED BY <1>5, <1>7, <2>1
<1> QED BY <1>6, <1>7

\* The server accepts the signature of a request exactly if its key is the
\* client's: what it hashes is what the client hashed, for every path and query
\* (sign, signing_string, canonical_query, base_headers).
THEOREM SignaturesVerify == Spec => []ServerVerifies
<1>1. FromCall /\ SentAsPrepared /\
        (Sent /\ mode = "hmac" => \A n \in HmacHeaders : wire.headers[n] = "hmac")
      => ServerVerifies
  <2> SUFFICES ASSUME FromCall, SentAsPrepared, Sent, mode = "hmac",
                      \A n \in HmacHeaders : wire.headers[n] = "hmac"
               PROVE  ServerAccepts(wire) <=> prepared.headers["x-api-key"] = Absent
    BY DEF ServerVerifies
  <2>1. /\ IsPrepared(prepared) /\ mode \in Modes /\ wire = Signed(mode, prepared)
        /\ prepared.query \in Seq(Byte) \cup {NoQuery}
    BY PreparedQuery
  <2>2. wire.query = WireQuery(prepared.query)
        /\ wire.signed = SigningString(wire.url.path, wire.query)
    BY <2>1, SignedQuery
  <2>3. NoQuery \notin Seq(Byte)
    BY OutgoingAssumption DEF OutgoingAssumption
  <2>4. wire.query \in Seq(Byte) \cup {NoQuery}
    BY <2>1, <2>2, <2>3, WireQueryLaws
  <2>5. WireQuery(wire.query) =
          IF wire.query = NoQuery \/ ServerQuery(wire.query) = <<>> THEN NoQuery
          ELSE ServerQuery(wire.query)
    BY <2>3, <2>4, WireQueryLaws
  <2>6. ServerString(wire) = wire.signed
    BY <2>2, <2>5 DEF ServerString, SigningString
  <2>7. wire.headers["x-api-key"] = "base" <=> prepared.headers["x-api-key"] = Absent
    BY KeyOnTheWire
  <2> QED BY <2>6, <2>7 DEF ServerAccepts
<1> QED BY CallsAreKept, OutgoingSafe, SignaturesReplaceStale, <1>1, PTL

==============================================================================
