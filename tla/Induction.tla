------------------------------ MODULE Induction ------------------------------
(* Induction and definition by recursion on the natural numbers, in a form *)
(* that takes no operator as a parameter: what is shown by induction is    *)
(* that a set contains every number.  Then facts about sequences, the      *)
(* flattened ones above all, that the proofs of several modules use.       *)
EXTENDS Integers, SequencesExt, WellFoundedInduction, SequenceTheorems, TLAPS

\* The order of the natural numbers, as a set of pairs.
Precedes == {p \in Nat \X Nat : p[1] < p[2]}

\* No set of natural numbers descends for ever.
LEMMA PrecedesWellFounded == IsWellFoundedOn(Precedes, Nat)
<1>1. IsWellFoundedOn(OpToRel(<, Nat), Nat)
  BY NatLessThanWellFounded
<1>2. Precedes \cap (Nat \X Nat) \subseteq OpToRel(<, Nat)
  BY DEF OpToRel, Precedes
<1> QED BY <1>1, <1>2, IsWellFoundedOnSubrelation

\* A set of natural numbers that is not empty has a least member.
LEMMA LeastOf ==
  ASSUME NEW T \in SUBSET Nat, T # {}
  PROVE  \E x \in T : \A y \in T : x <= y
<1>1. PICK x \in T : \A y \in T : ~(<<y, x>> \in Precedes)
  BY PrecedesWellFounded, WFMin
<1>2. ASSUME NEW y \in T PROVE x <= y
  <2>1. x \in Nat /\ y \in Nat
    OBVIOUS
  <2>2. ~(y < x)
    BY <1>1, <2>1 DEF Precedes
  <2> QED BY <2>1, <2>2
<1> QED BY <1>2

\* Induction: what holds is the membership in a set, so that no operator is a
\* parameter.
LEMMA SetInduction ==
  ASSUME NEW A, 0 \in A, \A n \in Nat : n \in A => n + 1 \in A
  PROVE  Nat \subseteq A
<1> DEFINE T == {n \in Nat : n \notin A}
<1>1. SUFFICES ASSUME T # {} PROVE FALSE
  OBVIOUS
<1>2. PICK n \in T : \A m \in T : n <= m
  BY <1>1, LeastOf
<1>3. n - 1 \in Nat /\ n - 1 \notin T
  BY <1>2
<1> QED BY <1>3

\* Induction up to a number.
LEMMA SetInductionTo ==
  ASSUME NEW A, NEW N \in Nat, 0 \in A,
         \A n \in Nat : n < N /\ n \in A => n + 1 \in A
  PROVE  0..N \subseteq A
<1> DEFINE B == {n \in Nat : n <= N => n \in A}
<1>1. 0 \in B /\ \A n \in Nat : n \in B => n + 1 \in B
  OBVIOUS
<1>2. Nat \subseteq B
  <2> HIDE DEF B
  <2> QED BY <1>1, SetInduction
<1> QED BY <1>2

\* Induction from all the smaller numbers.
LEMMA StrongInduction ==
  ASSUME NEW A, \A n \in Nat : (\A m \in 0..(n - 1) : m \in A) => n \in A
  PROVE  Nat \subseteq A
<1> DEFINE T == {n \in Nat : n \notin A}
<1>1. SUFFICES ASSUME T # {} PROVE FALSE
  OBVIOUS
<1>2. PICK n \in T : \A m \in T : n <= m
  BY <1>1, LeastOf
<1>3. \A m \in 0..(n - 1) : m \in A
  BY <1>2
<1> QED BY <1>3

\* f begins with a, and each of its next n values is made of the one before.
Steps(f, a, next, n) ==
  f[0] = a /\ \A k \in 0..(n - 1) : f[k + 1] = next[k][f[k]]

\* A function that is defined step by step exists.
LEMMA Recursion ==
  ASSUME NEW S, NEW a \in S, NEW N \in Nat, NEW next \in [0..(N - 1) -> [S -> S]]
  PROVE  \E f \in [0..N -> S] : Steps(f, a, next, N)
<1> DEFINE A == {n \in Nat : n <= N => \E f \in [0..N -> S] : Steps(f, a, next, n)}
<1>1. 0 \in A
  <2>1. Steps([k \in 0..N |-> a], a, next, 0)
    BY DEF Steps
  <2> QED BY <2>1
<1>2. ASSUME NEW n \in Nat, n \in A PROVE n + 1 \in A
  <2>1. SUFFICES ASSUME n + 1 <= N
                 PROVE  \E f \in [0..N -> S] : Steps(f, a, next, n + 1)
    OBVIOUS
  <2>2. PICK f \in [0..N -> S] : Steps(f, a, next, n)
    BY <1>2, <2>1
  <2> DEFINE g == [f EXCEPT ![n + 1] = next[n][f[n]]]
  <2>3. g \in [0..N -> S]
    BY <2>1
  <2>4. Steps(g, a, next, n + 1)
    <3>1. ASSUME NEW k \in 0..n PROVE g[k] = f[k]
      BY <2>1
    <3>2. g[n + 1] = next[n][f[n]]
      BY <2>1
    <3> HIDE DEF g
    <3> QED BY <2>2, <3>1, <3>2 DEF Steps
  <2> QED BY <2>3, <2>4
<1>3. Nat \subseteq A
  <2> HIDE DEF A
  <2> QED BY <1>1, <1>2, SetInduction
<1> QED BY <1>3

\* Two functions made by the same steps are the same as far as both go.
LEMMA StepsAgree ==
  ASSUME NEW f, NEW g, NEW a, NEW next, NEW N \in Nat,
         Steps(f, a, next, N), Steps(g, a, next, N)
  PROVE  \A n \in 0..N : f[n] = g[n]
<1> DEFINE A == {n \in Nat : f[n] = g[n]}
<1>1. 0 \in A
  BY DEF Steps
<1>2. ASSUME NEW n \in Nat, n < N, n \in A PROVE n + 1 \in A
  <2>1. n \in 0..(N - 1)
    BY <1>2
  <2> QED BY <1>2, <2>1 DEF Steps
<1>3. 0..N \subseteq A
  <2> HIDE DEF A
  <2> QED BY <1>1, <1>2, SetInductionTo
<1> QED BY <1>3

\* f begins with a, and each value is made of the one before.
Follows(f, a, next) ==
  f[0] = a /\ \A n \in Nat : f[n + 1] = next[n][f[n]]

\* A function that is defined step by step on all natural numbers exists.
LEMMA RecursionOnNat ==
  ASSUME NEW S, NEW a \in S, NEW next \in [Nat -> [S -> S]]
  PROVE  \E f \in [Nat -> S] : Follows(f, a, next)
<1> DEFINE to(n) == CHOOSE g \in [0..n -> S] : Steps(g, a, next, n)
           f == [n \in Nat |-> to(n)[n]]
<1>1. ASSUME NEW n \in Nat PROVE to(n) \in [0..n -> S] /\ Steps(to(n), a, next, n)
  <2> DEFINE part == [k \in 0..(n - 1) |-> next[k]]
  <2>1. part \in [0..(n - 1) -> [S -> S]] /\ \A k \in 0..(n - 1) : part[k] = next[k]
    OBVIOUS
  <2> HIDE DEF part
  <2>2. PICK g \in [0..n -> S] : Steps(g, a, part, n)
    BY <2>1, Recursion
  <2>3. Steps(g, a, next, n)
    BY <2>1, <2>2 DEF Steps
  <2> QED BY <2>3
<1> HIDE DEF to
<1>2. f[0] = a
  BY <1>1 DEF Steps
<1>3. ASSUME NEW n \in Nat PROVE f[n + 1] = next[n][f[n]]
  <2>1. Steps(to(n + 1), a, next, n + 1) /\ Steps(to(n), a, next, n)
    BY <1>1
  <2>2. Steps(to(n + 1), a, next, n)
    BY <2>1 DEF Steps
  <2>3. to(n + 1)[n] = to(n)[n]
    BY <2>1, <2>2, StepsAgree
  <2>4. to(n + 1)[n + 1] = next[n][to(n + 1)[n]]
    BY <2>1 DEF Steps
  <2> QED BY <2>3, <2>4
<1>4. f \in [Nat -> S]
  BY <1>1
<1> HIDE DEF f
<1>5. Follows(f, a, next)
  BY <1>2, <1>3 DEF Follows
<1> QED BY <1>4, <1>5

-----------------------------------------------------------------------------
\* FlattenSeq adds one sequence after the other.
Sums(f, ss) ==
  f[0] = <<>> /\ \A k \in 1..Len(ss) : f[k] = f[k - 1] \o ss[k]

\* What FlattenSeq gives is the last of these sums.
LEMMA FlattenSums ==
  ASSUME NEW S, NEW ss \in Seq(Seq(S))
  PROVE  \E f \in [0..Len(ss) -> Seq(S)] :
           Sums(f, ss) /\ FlattenSeq(ss) = f[Len(ss)]
<1> DEFINE N == Len(ss)
           next == [k \in 0..(N - 1) |-> [x \in Seq(S) |-> x \o ss[k + 1]]]
<1>1. N \in Nat /\ N = Len(ss) /\ \A k \in 1..N : ss[k] \in Seq(S)
  OBVIOUS
<1>2. next \in [0..(N - 1) -> [Seq(S) -> Seq(S)]] /\ <<>> \in Seq(S)
  BY <1>1
<1>3. \A k \in 0..(N - 1), x \in Seq(S) : next[k][x] = x \o ss[k + 1]
  OBVIOUS
<1> HIDE DEF N, next
<1>4. PICK f \in [0..N -> Seq(S)] : Steps(f, <<>>, next, N)
  BY <1>1, <1>2, Recursion
<1>5. \A k \in 1..N : f[k] = f[k - 1] \o ss[k]
  <2>1. SUFFICES ASSUME NEW k \in 1..N PROVE f[k] = f[k - 1] \o ss[k]
    OBVIOUS
  <2>2. k - 1 \in 0..(N - 1) /\ k - 1 \in 0..N /\ (k - 1) + 1 = k
    BY <1>1
  <2>3. f[k] = next[k - 1][f[k - 1]]
    BY <1>4, <2>2 DEF Steps
  <2> QED BY <1>3, <2>2, <2>3
<1>6. f[0] = <<>> /\ Sums(f, ss)
  BY <1>1, <1>4, <1>5 DEF Steps, Sums
<1>7. CASE N = 0
  <2>1. ss = <<>>
    BY <1>1, <1>7, EmptySeq
  <2> QED BY <1>1, <1>6, <1>7, <2>1 DEF FlattenSeq
<1>8. CASE N # 0
  <2> DEFINE Is(g) == g = [i \in 1..N |-> IF i = 1 THEN ss[i] ELSE g[i - 1] \o ss[i]]
             flat == CHOOSE g : Is(g)
  <2>1. FlattenSeq(ss) = flat[N]
    BY <1>1, <1>8 DEF FlattenSeq, N
  <2>2. \A i \in 1..N : f[i] = IF i = 1 THEN ss[i] ELSE f[i - 1] \o ss[i]
    <3>1. 1 \in 1..N /\ 1 - 1 = 0
      BY <1>1, <1>8
    <3>2. f[1] = <<>> \o ss[1] /\ ss[1] \in Seq(S)
      BY <1>1, <1>5, <1>6, <3>1
    <3>3. f[1] = ss[1]
      BY <3>2
    <3> QED BY <1>5, <3>3
  <2>3. Is([i \in 1..N |-> f[i]])
    <3>1. \A i \in 1..N : i # 1 => i - 1 \in 1..N
      BY <1>1
    <3> QED BY <2>2, <3>1
  <2>4. Is(flat)
    BY <2>3
  <2>5. \A i \in 1..N : flat[i] = IF i = 1 THEN ss[i] ELSE flat[i - 1] \o ss[i]
    BY <2>4
  <2> HIDE DEF flat, Is
  <2> DEFINE A == {n \in Nat : n = 0 \/ flat[n] = f[n]}
  <2>6. ASSUME NEW n \in Nat, n < N, n \in A PROVE n + 1 \in A
    <3>1. n + 1 \in 1..N /\ (n + 1) - 1 = n
      BY <1>1, <2>6
    <3>2. flat[n + 1] = IF n + 1 = 1 THEN ss[n + 1] ELSE flat[n] \o ss[n + 1]
      BY <2>5, <3>1
    <3>3. f[n + 1] = IF n + 1 = 1 THEN ss[n + 1] ELSE f[n] \o ss[n + 1]
      BY <2>2, <3>1
    <3>4. flat[n + 1] = f[n + 1]
      BY <2>6, <3>2, <3>3
    <3> QED BY <3>4
  <2>7. 0 \in A
    OBVIOUS
  <2>8. 0..N \subseteq A
    <3> HIDE DEF A
    <3> QED BY <1>1, <2>6, <2>7, SetInductionTo
  <2>9. flat[N] = f[N]
    BY <1>1, <1>8, <2>8
  <2> QED BY <1>1, <1>6, <2>1, <2>9
<1> QED BY <1>7, <1>8

\* Sums depend only on what has been added.
LEMMA SumsAgree ==
  ASSUME NEW f, NEW g, NEW ss, NEW tt, NEW N \in Nat, N <= Len(ss), N <= Len(tt),
         Len(ss) \in Nat, Len(tt) \in Nat,
         Sums(f, ss), Sums(g, tt), \A k \in 1..N : ss[k] = tt[k]
  PROVE  f[N] = g[N]
<1> DEFINE A == {n \in Nat : f[n] = g[n]}
<1>1. 0 \in A
  BY DEF Sums
<1>2. ASSUME NEW n \in Nat, n < N, f[n] = g[n] PROVE f[n + 1] = g[n + 1]
  <2>1. n + 1 \in 1..Len(ss) /\ n + 1 \in 1..Len(tt) /\ n + 1 \in 1..N
    BY <1>2
  <2>2. (n + 1) - 1 = n
    OBVIOUS
  <2>3. f[n + 1] = f[n] \o ss[n + 1] /\ g[n + 1] = g[n] \o tt[n + 1]
    BY <2>1, <2>2 DEF Sums
  <2>4. ss[n + 1] = tt[n + 1]
    BY <2>1
  <2> QED BY <1>2, <2>3, <2>4
<1>3. 0..N \subseteq A
  <2>1. \A n \in Nat : n < N /\ n \in A => n + 1 \in A
    BY <1>2
  <2> HIDE DEF A
  <2> QED BY <1>1, <2>1, SetInductionTo
<1> QED BY <1>3

\* Flattening sequences over a set gives a sequence over it.
LEMMA FlattenTyped ==
  ASSUME NEW S, NEW ss \in Seq(Seq(S))
  PROVE  FlattenSeq(ss) \in Seq(S)
<1>1. Len(ss) \in 0..Len(ss)
  OBVIOUS
<1> QED BY <1>1, FlattenSums

\* Nothing flattens to nothing.
LEMMA FlattenEmpty == FlattenSeq(<<>>) = <<>>
BY DEF FlattenSeq

\* The last sequence comes last.
LEMMA FlattenAppend ==
  ASSUME NEW S, NEW ss \in Seq(Seq(S)), NEW s \in Seq(S)
  PROVE  FlattenSeq(Append(ss, s)) = FlattenSeq(ss) \o s
<1> DEFINE tt == Append(ss, s)
           N == Len(ss)
<1>1. tt \in Seq(Seq(S)) /\ Len(tt) = N + 1 /\ N \in Nat /\ tt[N + 1] = s
      /\ Len(ss) = N /\ \A k \in 1..N : tt[k] = ss[k]
  OBVIOUS
<1> HIDE DEF tt, N
<1>2. PICK f \in [0..N -> Seq(S)] : Sums(f, ss) /\ FlattenSeq(ss) = f[N]
  BY FlattenSums DEF N
<1>3. PICK g \in [0..(N + 1) -> Seq(S)] : Sums(g, tt) /\ FlattenSeq(tt) = g[N + 1]
  BY <1>1, FlattenSums
<1>4. N <= Len(ss) /\ N <= Len(tt) /\ Len(ss) \in Nat /\ Len(tt) \in Nat
  BY <1>1
<1>5. f[N] = g[N]
  BY <1>1, <1>2, <1>3, <1>4, SumsAgree
<1>6. (N + 1) - 1 = N /\ N + 1 \in 1..Len(tt)
  BY <1>1
<1>7. g[N + 1] = g[N] \o s
  BY <1>1, <1>3, <1>6 DEF Sums
<1> QED BY <1>2, <1>3, <1>5, <1>7 DEF tt

\* One sequence flattens to itself.
LEMMA FlattenOne ==
  ASSUME NEW S, NEW s \in Seq(S)
  PROVE  FlattenSeq(<<s>>) = s
<1>1. <<s>> = Append(<<>>, s) /\ <<>> \in Seq(Seq(S)) /\ <<>> \o s = s
  OBVIOUS
<1> QED BY <1>1, FlattenAppend, FlattenEmpty

\* Flattening distributes over concatenation.
LEMMA FlattenConcat ==
  ASSUME NEW S, NEW ss \in Seq(Seq(S)), NEW tt \in Seq(Seq(S))
  PROVE  FlattenSeq(ss \o tt) = FlattenSeq(ss) \o FlattenSeq(tt)
<1> DEFINE part(n) == SubSeq(tt, 1, n)
           A == {n \in Nat : n <= Len(tt) =>
                   FlattenSeq(ss \o part(n)) = FlattenSeq(ss) \o FlattenSeq(part(n))}
<1>1. FlattenSeq(ss) \in Seq(S)
  BY FlattenTyped
<1>2. 0 \in A
  <2>1. part(0) = <<>> /\ ss \o <<>> = ss
    OBVIOUS
  <2>2. FlattenSeq(ss) \o <<>> = FlattenSeq(ss)
    BY <1>1
  <2> HIDE DEF part
  <2> QED BY <2>1, <2>2, FlattenEmpty
<1>3. ASSUME NEW n \in Nat, n \in A PROVE n + 1 \in A
  <2>1. SUFFICES ASSUME n + 1 <= Len(tt)
        PROVE  FlattenSeq(ss \o part(n + 1)) = FlattenSeq(ss) \o FlattenSeq(part(n + 1))
    OBVIOUS
  <2>2. tt[n + 1] \in Seq(S) /\ part(n) \in Seq(Seq(S))
    BY <2>1
  <2>3. part(n + 1) = Append(part(n), tt[n + 1])
    BY <2>1
  <2>4. ss \o part(n + 1) = Append(ss \o part(n), tt[n + 1]) /\ ss \o part(n) \in Seq(Seq(S))
    BY <2>2, <2>3
  <2>5. FlattenSeq(part(n)) \in Seq(S)
    BY <2>2, FlattenTyped
  <2> HIDE DEF part
  <2>6. FlattenSeq(ss \o part(n + 1)) = FlattenSeq(ss \o part(n)) \o tt[n + 1]
    BY <2>2, <2>4, FlattenAppend
  <2>7. FlattenSeq(part(n + 1)) = FlattenSeq(part(n)) \o tt[n + 1]
    BY <2>2, <2>3, FlattenAppend
  <2>8. FlattenSeq(ss \o part(n)) = FlattenSeq(ss) \o FlattenSeq(part(n))
    BY <1>3, <2>1
  <2> DEFINE a == FlattenSeq(ss)
             b == FlattenSeq(part(n))
             c == tt[n + 1]
  <2>9. a \o (b \o c) = (a \o b) \o c
    <3>1. a \in Seq(S) /\ b \in Seq(S) /\ c \in Seq(S)
      BY <1>1, <2>2, <2>5
    <3> HIDE DEF a, b, c
    <3> QED BY <3>1
  <2> QED BY <2>6, <2>7, <2>8, <2>9
<1>4. Nat \subseteq A
  <2> HIDE DEF A
  <2> QED BY <1>2, <1>3, SetInduction
<1>5. Len(tt) \in A /\ part(Len(tt)) = tt
  BY <1>4
<1> HIDE DEF part
<1> QED BY <1>5

-----------------------------------------------------------------------------
(* Sequences and their indices.                                            *)

\* A function on 1..n is a sequence of length n.
LEMMA MapIsSeq ==
  ASSUME NEW S, NEW n \in Nat, NEW f \in [1..n -> S]
  PROVE  f \in Seq(S) /\ Len(f) = n
OBVIOUS

\* h lists what f lists, then what g lists.
Joins(S, n, m, f, g, h) ==
  /\ n \in Nat /\ m \in Nat
  /\ f \in [1..n -> Seq(S)] /\ g \in [1..m -> Seq(S)] /\ h \in [1..(n + m) -> Seq(S)]
  /\ \A i \in 1..n : h[i] = f[i]
  /\ \A i \in 1..m : h[n + i] = g[i]

\* Flattening such a list is flattening its two parts.
LEMMA FlattenParts ==
  ASSUME NEW S, NEW n, NEW m, NEW f, NEW g, NEW h, Joins(S, n, m, f, g, h)
  PROVE  FlattenSeq(h) = FlattenSeq(f) \o FlattenSeq(g)
<1> USE DEF Joins
<1>1. f \in Seq(Seq(S)) /\ Len(f) = n /\ g \in Seq(Seq(S)) /\ Len(g) = m
      /\ h \in Seq(Seq(S)) /\ Len(h) = n + m
  BY MapIsSeq
<1>2. h = f \o g
  <2>1. Len(f \o g) = n + m /\ f \o g \in Seq(Seq(S))
    BY <1>1
  <2>2. \A i \in 1..(n + m) : (f \o g)[i] = IF i <= n THEN f[i] ELSE g[i - n]
    BY <1>1, ConcatProperties
  <2>3. ASSUME NEW i \in 1..(n + m) PROVE h[i] = (f \o g)[i]
    <3>1. CASE i <= n
      BY <2>2, <3>1
    <3>2. CASE i > n
      <4>1. i - n \in 1..m /\ n + (i - n) = i
        BY <3>2
      <4> QED BY <2>2, <3>2, <4>1
    <3> QED BY <3>1, <3>2
  <2> DEFINE fg == f \o g
  <2>4. fg \in Seq(Seq(S)) /\ h \in Seq(Seq(S)) /\ Len(fg) = Len(h)
        /\ \A i \in 1..Len(h) : h[i] = fg[i]
    BY <1>1, <2>1, <2>3
  <2> HIDE DEF fg
  <2>5. h = fg
    BY <2>4, SeqEqual
  <2> QED BY <2>5 DEF fg
<1> QED BY <1>1, <1>2, FlattenConcat

\* Appending to a tuple.
LEMMA AppendTuple ==
  ASSUME NEW a, NEW b, NEW c
  PROVE  Append(<<a>>, b) = <<a, b>> /\ Append(<<a, b>>, c) = <<a, b, c>>
<1> DEFINE S == {a, b, c}
<1>1. <<a>> \in Seq(S) /\ <<a, b>> \in Seq(S) /\ <<a, b, c>> \in Seq(S) /\ b \in S /\ c \in S
  OBVIOUS
<1>2. Append(<<a>>, b) = <<a, b>>
  <2> DEFINE s == Append(<<a>>, b)
  <2>1. s \in Seq(S) /\ Len(s) = 2 /\ s[1] = a /\ s[2] = b
    BY <1>1
  <2> DEFINE t == <<a, b>>
  <2>2. t \in Seq(S) /\ Len(t) = 2 /\ t[1] = a /\ t[2] = b
    BY <1>1
  <2> HIDE DEF s, t, S
  <2>3. \A i \in 1..2 : s[i] = t[i]
    BY <2>1, <2>2
  <2>4. s = t
    BY <2>1, <2>2, <2>3, SeqEqual
  <2> QED BY <2>4 DEF s, t
<1>3. Append(<<a, b>>, c) = <<a, b, c>>
  <2> DEFINE s == Append(<<a, b>>, c)
  <2>1. s \in Seq(S) /\ Len(s) = 3 /\ s[1] = a /\ s[2] = b /\ s[3] = c
    BY <1>1
  <2> DEFINE t == <<a, b, c>>
  <2>2. t \in Seq(S) /\ Len(t) = 3 /\ t[1] = a /\ t[2] = b /\ t[3] = c
    BY <1>1
  <2> HIDE DEF s, t, S
  <2>3. \A i \in 1..3 : s[i] = t[i]
    BY <2>1, <2>2
  <2>4. s = t
    BY <2>1, <2>2, <2>3, SeqEqual
  <2> QED BY <2>4 DEF s, t
<1> QED BY <1>2, <1>3

\* The length and the members of a concatenation.
LEMMA Concats ==
  ASSUME NEW S, NEW c \in Seq(S), NEW u \in Seq(S)
  PROVE  /\ c \o u \in Seq(S) /\ Len(c \o u) = Len(c) + Len(u)
         /\ Len(c) \in Nat /\ Len(u) \in Nat
         /\ \A i \in 1..Len(c) : (c \o u)[i] = c[i]
         /\ \A i \in 1..Len(u) : (c \o u)[Len(c) + i] = u[i]
OBVIOUS

\* The length and the members of a suffix.
LEMMA Suffix ==
  ASSUME NEW S, NEW s \in Seq(S), NEW k \in 1..(Len(s) + 1)
  PROVE  /\ SubSeq(s, k, Len(s)) \in Seq(S) /\ Len(SubSeq(s, k, Len(s))) = Len(s) - k + 1
         /\ \A i \in 1..(Len(s) - k + 1) : SubSeq(s, k, Len(s))[i] = s[k + i - 1]
OBVIOUS

\* A text in which each member is written as what g gives for it.
Mapped(g, s) == FlattenSeq([i \in DOMAIN s |-> g[s[i]]])

\* Mapping distributes over concatenation.
LEMMA MappedLaws ==
  ASSUME NEW S, NEW T, NEW g \in [S -> Seq(T)]
  PROVE  /\ \A s \in Seq(S) : Mapped(g, s) \in Seq(T)
         /\ Mapped(g, <<>>) = <<>>
         /\ \A a \in S : Mapped(g, <<a>>) = g[a]
         /\ \A s, t \in Seq(S) : Mapped(g, s \o t) = Mapped(g, s) \o Mapped(g, t)
<1>1. ASSUME NEW s \in Seq(S) PROVE Mapped(g, s) \in Seq(T)
  <2> DEFINE f == [i \in DOMAIN s |-> g[s[i]]]
  <2>1. f \in [1..Len(s) -> Seq(T)] /\ Len(s) \in Nat
    OBVIOUS
  <2> HIDE DEF f
  <2>2. f \in Seq(Seq(T))
    BY <2>1, MapIsSeq
  <2> QED BY <2>2, FlattenTyped DEF Mapped, f
<1>2. Mapped(g, <<>>) = <<>>
  <2>1. [i \in DOMAIN <<>> |-> g[<<>>[i]]] = <<>>
    OBVIOUS
  <2> QED BY <2>1, FlattenEmpty DEF Mapped
<1>3. ASSUME NEW a \in S PROVE Mapped(g, <<a>>) = g[a]
  <2> DEFINE d == g[a]
  <2>1. [i \in DOMAIN <<a>> |-> g[<<a>>[i]]] = <<d>>
    OBVIOUS
  <2>2. d \in Seq(T)
    OBVIOUS
  <2> HIDE DEF d
  <2>3. FlattenSeq(<<d>>) = d
    BY <2>2, FlattenOne
  <2> QED BY <2>1, <2>3 DEF Mapped, d
<1>4. ASSUME NEW s \in Seq(S), NEW t \in Seq(S)
      PROVE  Mapped(g, s \o t) = Mapped(g, s) \o Mapped(g, t)
  <2> DEFINE n == Len(s)
             m == Len(t)
             st == s \o t
             f == [i \in 1..n |-> g[s[i]]]
             k == [i \in 1..m |-> g[t[i]]]
             h == [i \in 1..(n + m) |-> g[st[i]]]
  <2>1. /\ n \in Nat /\ m \in Nat /\ st \in Seq(S) /\ Len(st) = n + m
        /\ \A i \in 1..n : st[i] = s[i]
        /\ \A i \in 1..m : st[n + i] = t[i]
    BY Concats
  <2>2. DOMAIN s = 1..n /\ DOMAIN t = 1..m /\ DOMAIN st = 1..(n + m)
    BY <2>1
  <2>3. /\ \A i \in 1..n : s[i] \in S
        /\ \A i \in 1..m : t[i] \in S
        /\ \A i \in 1..(n + m) : st[i] \in S
    BY <2>1, <2>2
  <2> HIDE DEF n, m, st
  <2>4. /\ f \in [1..n -> Seq(T)] /\ k \in [1..m -> Seq(T)] /\ h \in [1..(n + m) -> Seq(T)]
    BY <2>3
  <2>5. (\A i \in 1..n : h[i] = f[i]) /\ (\A i \in 1..m : h[n + i] = k[i])
    BY <2>1
  <2>6. Mapped(g, s) = FlattenSeq(f) /\ Mapped(g, t) = FlattenSeq(k) /\ Mapped(g, st) = FlattenSeq(h)
    BY <2>2 DEF Mapped
  <2> HIDE DEF f, k, h
  <2>7. Joins(T, n, m, f, k, h)
    BY <2>1, <2>4, <2>5 DEF Joins
  <2>8. FlattenSeq(h) = FlattenSeq(f) \o FlattenSeq(k)
    BY <2>7, FlattenParts
  <2> QED BY <2>6, <2>8 DEF st
<1> QED BY <1>1, <1>2, <1>3, <1>4

\* A sequence is its first member and its tail.
LEMMA FirstAndRest ==
  ASSUME NEW S, NEW s \in Seq(S), s # <<>>
  PROVE  s = <<s[1]>> \o Tail(s) /\ s[1] \in S /\ Tail(s) \in Seq(S) /\ Len(Tail(s)) = Len(s) - 1
         /\ Len(s) \in Nat \ {0}
OBVIOUS

\* Three single members make a triple.
LEMMA ConcatTuple ==
  ASSUME NEW S, NEW a \in S, NEW b \in S, NEW c \in S
  PROVE  (<<a>> \o <<b>>) \o <<c>> = <<a, b, c>>
<1>1. Append(<<a>>, b) = <<a, b>> /\ Append(<<a, b>>, c) = <<a, b, c>>
  BY AppendTuple
<1>2. ASSUME NEW s \in Seq(S), NEW d \in S PROVE s \o <<d>> = Append(s, d)
  OBVIOUS
<1>3. <<a>> \in Seq(S) /\ <<a, b>> \in Seq(S)
  OBVIOUS
<1>4. <<a>> \o <<b>> = <<a, b>>
  BY <1>1, <1>2, <1>3
<1>5. <<a, b>> \o <<c>> = <<a, b, c>>
  BY <1>1, <1>2, <1>3
<1> QED BY <1>4, <1>5

\* Appending to the second of two sequences.
LEMMA ConcatAppend ==
  ASSUME NEW S, NEW y \in Seq(S), NEW u \in Seq(S), NEW b \in S
  PROVE  y \o Append(u, b) = Append(y \o u, b) /\ y \o u \in Seq(S)
<1>1. <<b>> \in Seq(S) /\ y \o u \in Seq(S)
  OBVIOUS
<1>2. ASSUME NEW s \in Seq(S) PROVE Append(s, b) = s \o <<b>>
  OBVIOUS
<1>3. y \o (u \o <<b>>) = (y \o u) \o <<b>>
  BY <1>1, ConcatAssociative
<1> QED BY <1>1, <1>2, <1>3

\* The length and the members after an append.
LEMMA Appends ==
  ASSUME NEW S, NEW s \in Seq(S), NEW a \in S
  PROVE  /\ Append(s, a) \in Seq(S) /\ Len(Append(s, a)) = Len(s) + 1
         /\ (\A i \in 1..Len(s) : Append(s, a)[i] = s[i])
         /\ Append(s, a)[Len(s) + 1] = a
OBVIOUS

\* A list with d at place k and nothing elsewhere.
Sparse(n, k, d) == [i \in 1..n |-> IF i = k THEN d ELSE <<>>]

\* It flattens to d, if place k is in the list.
LEMMA FlattenSparse ==
  ASSUME NEW S, NEW n \in Nat, NEW k \in Nat, NEW d \in Seq(S)
  PROVE  FlattenSeq(Sparse(n, k, d)) = IF k \in 1..n THEN d ELSE <<>>
<1> DEFINE g == Sparse(n, k, d)
<1>1. g \in [1..n -> Seq(S)] /\ \A i \in 1..n : g[i] = IF i = k THEN d ELSE <<>>
  BY DEF Sparse
<1> HIDE DEF g
<1>2. g \in Seq(Seq(S)) /\ Len(g) = n
  BY <1>1, MapIsSeq
<1>3. PICK f \in [0..Len(g) -> Seq(S)] : Sums(f, g) /\ FlattenSeq(g) = f[Len(g)]
  BY <1>2, FlattenSums
<1> DEFINE A == {j \in Nat : f[j] = IF k \in 1..j THEN d ELSE <<>>}
<1>4. 0 \in A
  BY <1>3 DEF Sums
<1>5. ASSUME NEW j \in Nat, j < n, j \in A PROVE j + 1 \in A
  <2>1. j + 1 \in 1..n /\ (j + 1) - 1 = j
    BY <1>5
  <2>2. f[j + 1] = f[j] \o g[j + 1]
    BY <1>2, <1>3, <2>1 DEF Sums
  <2>3. <<>> \o d = d /\ d \o <<>> = d /\ <<>> \o <<>> = <<>>
    OBVIOUS
  <2>4. f[j] = IF k \in 1..j THEN d ELSE <<>>
    BY <1>5
  <2>5. g[j + 1] = IF j + 1 = k THEN d ELSE <<>>
    BY <1>1, <2>1
  <2> HIDE DEF A
  <2>6. CASE k \in 1..j
    <3>1. j + 1 # k /\ k \in 1..(j + 1)
      BY <2>6
    <3> QED BY <2>2, <2>3, <2>4, <2>5, <2>6, <3>1 DEF A
  <2>7. CASE k = j + 1
    <3>1. k \notin 1..j /\ k \in 1..(j + 1)
      BY <2>7
    <3> QED BY <2>2, <2>3, <2>4, <2>5, <2>7, <3>1 DEF A
  <2>8. CASE k \notin 1..(j + 1)
    <3>1. k \notin 1..j /\ k # j + 1
      BY <2>8
    <3>2. f[j] = <<>> /\ g[j + 1] = <<>>
      BY <2>4, <2>5, <3>1
    <3>3. f[j + 1] = <<>>
      BY <2>2, <2>3, <3>2
    <3> QED BY <2>8, <3>3 DEF A
  <2>9. k \in 1..j \/ k = j + 1 \/ k \notin 1..(j + 1)
    OBVIOUS
  <2> QED BY <2>6, <2>7, <2>8, <2>9
<1>6. n \in A
  <2>1. 0..n \subseteq A
    <3> HIDE DEF A
    <3> QED BY <1>4, <1>5, SetInductionTo
  <2> QED BY <2>1
<1> QED BY <1>2, <1>3, <1>6 DEF g

\* A least index is an index.
LEMMA FirstOf ==
  ASSUME NEW N \in Nat, NEW I \in SUBSET (1..N), I # {}
  PROVE  Min(I) \in I
<1>1. \E x \in I : \A y \in I : x <= y
  BY LeastOf
<1> QED BY <1>1 DEF Min

\* A greatest index is an index.
LEMMA LastOf ==
  ASSUME NEW N \in Nat, NEW I \in SUBSET (1..N), I # {}
  PROVE  Max(I) \in I
<1> DEFINE J == {N - x : x \in I}
<1>1. J \in SUBSET Nat /\ J # {}
  <2>1. \A x \in I : x \in Nat /\ N - x \in Nat /\ N - x \in J
    OBVIOUS
  <2> QED BY <2>1
<1>2. PICK j \in J : \A k \in J : j <= k
  BY <1>1, LeastOf
<1>3. PICK x \in I : j = N - x
  BY <1>2
<1>4. ASSUME NEW y \in I PROVE x >= y
  <2>1. N - y \in J /\ x \in Nat /\ y \in Nat
    OBVIOUS
  <2>2. N - x <= N - y
    BY <1>2, <1>3, <2>1
  <2> QED BY <2>1, <2>2
<1> QED BY <1>4 DEF Max

\* A sequence over a set is one over any larger set.
LEMMA SeqOfMore ==
  ASSUME NEW V, NEW W \in SUBSET V, NEW s \in Seq(W)
  PROVE  s \in Seq(V)
OBVIOUS

==============================================================================
