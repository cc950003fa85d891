--------------------------- MODULE BackoffProofs ---------------------------
(* The waits of a policy and the state of its jitter generator, for every  *)
(* policy, seed and header and for words of any width.                     *)
EXTENDS Backoff, Induction

-----------------------------------------------------------------------------
(* The generator.  An exclusive or with a copy of the word shifted right   *)
(* leaves its highest bit alone, one shifted left its lowest.              *)

\* A word that is not zero, exclusive or itself shifted right, is not zero.
LEMMA RightKeepsSome ==
  ASSUME NEW x \in SUBSET Bits, x # {}, NEW n \in Nat \ {0}
  PROVE  SymDiff(x, Right(x, n)) \in Running
<1>1. Width \in Nat \ {0}
  BY BackoffAssumption DEF BackoffAssumption
<1> DEFINE fromTop == {k \in Nat : Width - 1 - k \in x}
<1>2. PICK b \in x : TRUE
  OBVIOUS
<1>3. b \in Int /\ 0 <= b /\ b <= Width - 1
  BY <1>1 DEF Bits
<1>4. Width - 1 - b \in Nat /\ Width - 1 - (Width - 1 - b) = b
  BY <1>1, <1>3
<1>5. fromTop # {}
  BY <1>4, <1>2
<1>6. PICK k \in fromTop : \A other \in fromTop : k <= other
  BY <1>5, LeastOf
<1> DEFINE top == Width - 1 - k
<1>7. k \in Nat /\ top \in x /\ top \in Int
  BY <1>1, <1>6
<1>8. top + n \notin x
  <2> SUFFICES ASSUME top + n \in x PROVE FALSE
    OBVIOUS
  <2>1. top + n \in Int /\ top + n <= Width - 1
    BY <1>1 DEF Bits
  <2>2. k - n \in Nat /\ Width - 1 - (k - n) = top + n
    BY <1>1, <1>7, <2>1
  <2>3. k - n \in fromTop
    BY <2>2
  <2> QED BY <1>6, <1>7, <2>3
<1>9. top \in SymDiff(x, Right(x, n))
  BY <1>7, <1>8 DEF SymDiff, Right
<1> QED BY <1>9 DEF SymDiff, Right, Running

\* Nor shifted left.
LEMMA LeftKeepsSome ==
  ASSUME NEW x \in SUBSET Bits, x # {}, NEW n \in Nat \ {0}
  PROVE  SymDiff(x, Left(x, n)) \in Running
<1>1. x \in SUBSET Nat
  BY BackoffAssumption DEF BackoffAssumption, Bits
<1>2. PICK low \in x : \A other \in x : low <= other
  BY <1>1, LeastOf
<1>3. low - n \notin x
  <2> SUFFICES ASSUME low - n \in x PROVE FALSE
    OBVIOUS
  <2>1. low <= low - n
    BY <1>2
  <2> QED BY <1>1, <2>1
<1>4. low \in SymDiff(x, Left(x, n))
  BY <1>2, <1>3 DEF SymDiff, Left
<1> QED BY <1>4 DEF SymDiff, Left, Running

\* A generator that is not at zero never gets there.
LEMMA NextWordIsOne ==
  ASSUME NEW x \in Running
  PROVE  NextWord(x) \in Running
<1>1. /\ Shifts["first"] \in Nat \ {0} /\ Shifts["second"] \in Nat \ {0}
      /\ Shifts["third"] \in Nat \ {0}
  BY BackoffAssumption DEF BackoffAssumption
<1> DEFINE y == SymDiff(x, Right(x, Shifts["first"]))
           z == SymDiff(y, Left(y, Shifts["second"]))
<1>2. y \in Running
  BY <1>1, RightKeepsSome DEF Running
<1> HIDE DEF y
<1>3. z \in Running
  BY <1>1, <1>2, LeftKeepsSome DEF Running
<1> HIDE DEF z
<1>4. SymDiff(z, Right(z, Shifts["third"])) \in Running
  BY <1>1, <1>3, RightKeepsSome DEF Running
<1> QED BY <1>4 DEF NextWord, y, z

-----------------------------------------------------------------------------
(* Backoffs and headers.                                                   *)

\* Which values are durations.
LEMMA Ranges ==
  /\ DurationMax \in Nat /\ WordMax \in Nat /\ WordMax <= DurationMax
  /\ None \notin Durations /\ 0 \in Durations
BY BackoffAssumption DEF BackoffAssumption, None, Durations

\* Whatever the power is, a number or not.
LEMMA BoundIsCapped ==
  ASSUME NEW p \in Policies, NEW k
  PROVE  Bound(p, k) \in Durations /\ Bound(p, k) <= p.maxBackoff
<1> DEFINE secs == Times(p.initialBackoff, Power(p.multiplier, Exponent(k)))
<1>1. p.maxBackoff \in Durations
  BY DEF Policies
<1> HIDE DEF secs
<1>2. CASE IsDuration(secs)
  <2>1. secs \in Durations
    BY <1>2 DEF IsDuration
  <2>2. Smaller(secs, p.maxBackoff) \in Durations
        /\ Smaller(secs, p.maxBackoff) <= p.maxBackoff
    BY <1>1, <2>1, Ranges DEF Smaller, Durations
  <2> QED BY <1>2, <2>2 DEF Bound, secs
<1>3. CASE ~IsDuration(secs)
  <2>1. Bound(p, k) = p.maxBackoff
    BY <1>3 DEF Bound, secs
  <2> QED BY <1>1, <2>1, Ranges DEF Durations
<1> QED BY <1>2, <1>3

-----------------------------------------------------------------------------
(* The growth curve: both powers are recursive functions, so each is first *)
(* shown to satisfy the equation that defines it.                          *)

\* Exp satisfies the equations of a power.
LEMMA ExpSteps ==
  ASSUME NEW b \in Int
  PROVE  /\ Exp(b, 0) = 1
         /\ \A n \in Nat : Exp(b, n) \in Int /\ Exp(b, n + 1) = Exp(b, n) * b
<1> DEFINE Is(g) == g = [k \in Nat |-> IF k = 0 THEN 1 ELSE g[k - 1] * b]
           exp == CHOOSE g : Is(g)
           next == [k \in Nat |-> [x \in Int |-> x * b]]
<1>1. \A n : Exp(b, n) = exp[n]
  BY DEF Exp
<1>2. next \in [Nat -> [Int -> Int]] /\ \A k \in Nat, x \in Int : next[k][x] = x * b
  OBVIOUS
<1> DEFINE one == 1
<1>o. one \in Int
  OBVIOUS
<1> HIDE DEF next, one
<1>3. PICK f \in [Nat -> Int] : Follows(f, one, next)
  BY <1>2, <1>o, RecursionOnNat
<1>4. \A n \in Nat \ {0} : f[n] = f[n - 1] * b
  <2>1. SUFFICES ASSUME NEW n \in Nat \ {0} PROVE f[n] = f[n - 1] * b
    OBVIOUS
  <2>2. n - 1 \in Nat /\ (n - 1) + 1 = n
    OBVIOUS
  <2> QED BY <1>2, <1>3, <2>2 DEF Follows
<1>5. Is(f)
  BY <1>3, <1>4 DEF one, Follows
<1>6. Is(exp)
  BY <1>5
<1> HIDE DEF exp
<1>7. exp[0] = 1 /\ \A n \in Nat : exp[n + 1] = exp[n] * b
  <2>1. ASSUME NEW n \in Nat PROVE exp[n + 1] = exp[n] * b
    <3>1. n + 1 \in Nat /\ n + 1 # 0 /\ (n + 1) - 1 = n
      OBVIOUS
    <3> QED BY <1>6, <3>1
  <2> QED BY <1>6, <2>1
<1> DEFINE A == {n \in Nat : exp[n] \in Int}
<1>8. Nat \subseteq A
  <2>1. 0 \in A /\ \A n \in Nat : n \in A => n + 1 \in A
    BY <1>7
  <2> HIDE DEF A
  <2> QED BY <2>1, SetInduction
<1> QED BY <1>1, <1>7, <1>8

\* What is no number differs from every number.
LEMMA FloatRanges ==
  /\ FloatMax \in Nat /\ DurationMax < FloatMax
  /\ Inf \notin Int /\ NegInf \notin Int /\ NaN \notin Int
  /\ Inf # NegInf /\ NaN # Inf /\ NaN # NegInf
BY BackoffAssumption DEF BackoffAssumption

\* A product of doubles is a double.
LEMMA TimesTyped ==
  ASSUME NEW x \in Floats, NEW y \in Floats
  PROVE  Times(x, y) \in Floats
<1>1. Sign(x) \in {-1, 0, 1} /\ Sign(y) \in {-1, 0, 1}
  BY FloatRanges DEF Sign
<1>2. Sign(x) * Sign(y) \in {-1, 0, 1}
  BY <1>1
<1>3. CASE {x, y} \subseteq Finite
  <2>1. x \in Int /\ y \in Int
    BY <1>3, FloatRanges DEF Finite
  <2>2. x * y \in Int
    BY <2>1
  <2>3. Overflowing(x * y) \in Floats
    BY <2>2, FloatRanges DEF Overflowing, Floats, Finite
  <2>4. NaN \notin {x, y}
    BY <2>1, FloatRanges
  <2> QED BY <1>3, <2>3, <2>4 DEF Times
<1>4. CASE ~({x, y} \subseteq Finite)
  BY <1>2, <1>4 DEF Times, Floats
<1> QED BY <1>3, <1>4

\* Power multiplies by the base, step by step.
LEMMA PowerSteps ==
  ASSUME NEW x \in Floats
  PROVE  /\ Power(x, 0) = 1
         /\ \A n \in Nat : Power(x, n + 1) = Times(Power(x, n), x)
<1> DEFINE Is(g) == g = [k \in Nat |-> IF k = 0 THEN 1 ELSE Times(g[k - 1], x)]
           power == CHOOSE g : Is(g)
           next == [k \in Nat |-> [y \in Floats \cup {1} |-> Times(y, x)]]
<1>1. \A n : Power(x, n) = power[n]
  BY DEF Power
<1>2. CASE 1 \in Floats
  <2>1. next \in [Nat -> [Floats -> Floats]]
        /\ \A k \in Nat, y \in Floats : next[k][y] = Times(y, x)
    BY <1>2, TimesTyped
  <2> DEFINE one == 1
  <2>o. one \in Floats
    BY <1>2
  <2> HIDE DEF next, one
  <2>2. PICK f \in [Nat -> Floats] : Follows(f, one, next)
    BY <2>1, <2>o, RecursionOnNat
  <2>3. \A n \in Nat \ {0} : f[n] = Times(f[n - 1], x)
    <3>1. SUFFICES ASSUME NEW n \in Nat \ {0} PROVE f[n] = Times(f[n - 1], x)
      OBVIOUS
    <3>2. n - 1 \in Nat /\ (n - 1) + 1 = n
      OBVIOUS
    <3> QED BY <2>1, <2>2, <3>2 DEF Follows
  <2>4. Is(f)
    BY <2>2, <2>3 DEF one, Follows
  <2>5. Is(power)
    BY <2>4
  <2> HIDE DEF power
  <2>6. ASSUME NEW n \in Nat PROVE power[n + 1] = Times(power[n], x)
    <3>1. n + 1 \in Nat /\ n + 1 # 0 /\ (n + 1) - 1 = n
      OBVIOUS
    <3> QED BY <2>5, <3>1
  <2> QED BY <1>1, <2>5, <2>6
<1>3. 1 \in Floats
  BY FloatRanges, Ranges DEF Floats, Finite
<1> QED BY <1>2, <1>3

\* A double that is a whole number of at least one, to the power n, is the
\* power of the number as long as that is a double, and infinite after it.
LEMMA PowerIsExp ==
  ASSUME NEW m \in Finite, m >= 1, NEW n \in Nat
  PROVE  /\ Exp(m, n) \in Int /\ Exp(m, n) >= 1
         /\ Power(m, n) = IF Exp(m, n) <= FloatMax THEN Exp(m, n) ELSE Inf
<1>1. m \in Int /\ m \in Floats /\ FloatMax \in Nat /\ FloatMax >= 1
  BY FloatRanges DEF Finite, Floats
<1> DEFINE Fits(k) ==
             /\ Exp(m, k) >= 1
             /\ Power(m, k) = IF Exp(m, k) <= FloatMax THEN Exp(m, k) ELSE Inf
           A == {k \in Nat : Fits(k)}
<1>2. 0 \in A
  <2>1. Exp(m, 0) = 1 /\ Power(m, 0) = 1
    BY <1>1, ExpSteps, PowerSteps
  <2> QED BY <1>1, <2>1
<1>3. ASSUME NEW k \in Nat, k \in A PROVE k + 1 \in A
  <2> DEFINE e == Exp(m, k)
  <2>1. e \in Int /\ e >= 1 /\ Exp(m, k + 1) = e * m
    BY <1>1, <1>3, ExpSteps
  <2>2. e * m \in Int /\ e * m >= e /\ e * m >= 1
    <3> HIDE DEF e
    <3> QED BY <1>1, <2>1
  <2>3. Power(m, k + 1) = Times(Power(m, k), m)
    BY <1>1, PowerSteps
  <2>4. CASE e <= FloatMax
    <3>1. Power(m, k) = e /\ e \in Finite
      BY <1>3, <2>1, <2>4, FloatRanges DEF Finite
    <3>2. Times(e, m) = Overflowing(e * m)
      <4>1. NaN \notin {e, m}
        BY <1>1, <2>1, FloatRanges
      <4> QED BY <3>1, <4>1 DEF Times
    <3>3. Overflowing(e * m) = IF e * m <= FloatMax THEN e * m ELSE Inf
      <4> DEFINE p == e * m
      <4>1. p \in Int /\ p >= 1
        BY <2>2
      <4> HIDE DEF p
      <4>2. Overflowing(p) = IF p <= FloatMax THEN p ELSE Inf
        BY <1>1, <4>1 DEF Overflowing
      <4> QED BY <4>2 DEF p
    <3> QED BY <2>1, <2>2, <2>3, <3>1, <3>2, <3>3
  <2>5. CASE e > FloatMax
    <3>1. Power(m, k) = Inf /\ ~(e * m <= FloatMax)
      BY <1>1, <1>3, <2>1, <2>2, <2>5
    <3>2. Sign(Inf) = 1 /\ Sign(m) = 1
      BY <1>1, FloatRanges DEF Sign
    <3>3. Times(Inf, m) = Inf
      <4>1. NaN \notin {Inf, m} /\ ~({Inf, m} \subseteq Finite)
        BY <1>1, FloatRanges DEF Finite
      <4> QED BY <3>2, <4>1 DEF Times
    <3> QED BY <2>1, <2>2, <2>3, <3>1, <3>3
  <2> QED BY <1>1, <2>1, <2>4, <2>5
<1>4. Nat \subseteq A
  <2> HIDE DEF A
  <2> QED BY <1>2, <1>3, SetInduction
<1> QED BY <1>1, <1>4, ExpSteps

\* Powers of at least one do not fall.
LEMMA ExpGrows ==
  ASSUME NEW m \in Finite, m >= 1, NEW i \in Nat, NEW k \in Nat, i <= k
  PROVE  Exp(m, i) <= Exp(m, k)
<1>1. m \in Int
  BY FloatRanges DEF Finite
<1> DEFINE A == {n \in Nat : Exp(m, i) <= Exp(m, i + n)}
<1>2. 0 \in A
  <2>1. i + 0 = i /\ Exp(m, i) \in Int
    BY <1>1, ExpSteps
  <2> QED BY <2>1
<1>3. ASSUME NEW n \in Nat, n \in A PROVE n + 1 \in A
  <2>1. i + n \in Nat /\ i + (n + 1) = (i + n) + 1
    OBVIOUS
  <2>2. Exp(m, (i + n) + 1) = Exp(m, i + n) * m
    BY <1>1, <2>1, ExpSteps
  <2> DEFINE e == Exp(m, i + n)
  <2>3. e \in Int /\ e >= 1 /\ Exp(m, i) \in Int
    BY <1>1, <2>1, PowerIsExp, ExpSteps
  <2>4. e * m \in Int /\ e * m >= e
    <3> HIDE DEF e
    <3> QED BY <1>1, <2>3
  <2> QED BY <1>3, <2>1, <2>2, <2>3, <2>4
<1>4. Nat \subseteq A
  <2> HIDE DEF A
  <2> QED BY <1>2, <1>3, SetInduction
<1>5. k - i \in A /\ i + (k - i) = k
  BY <1>4
<1> QED BY <1>5

\* Powers of one are one.
LEMMA ExpOfOne == \A n \in Nat : Exp(1, n) = 1
<1> DEFINE A == {n \in Nat : Exp(1, n) = 1}
<1>1. 0 \in A /\ \A n \in Nat : n \in A => n + 1 \in A
  BY ExpSteps
<1> HIDE DEF A
<1>2. Nat \subseteq A
  BY <1>1, SetInduction
<1> QED BY <1>2 DEF A

\* Powers of at least two are at least those of two.
LEMMA ExpOfMore ==
  ASSUME NEW m \in Finite, m >= 2, NEW k \in Nat
  PROVE  Exp(2, k) <= Exp(m, k)
<1>1. m \in Int /\ 2 \in Int
  BY FloatRanges DEF Finite
<1> DEFINE A == {n \in Nat : 1 <= Exp(2, n) /\ Exp(2, n) <= Exp(m, n)}
<1>2. 0 \in A
  <2>1. Exp(2, 0) = 1 /\ Exp(m, 0) = 1
    BY <1>1, ExpSteps
  <2> QED BY <2>1
<1>3. ASSUME NEW n \in Nat, n \in A PROVE n + 1 \in A
  <2> DEFINE d == Exp(2, n)
             e == Exp(m, n)
  <2>1. d \in Int /\ e \in Int /\ 1 <= d /\ d <= e
    BY <1>1, <1>3, ExpSteps
  <2>2. Exp(2, n + 1) = d * 2 /\ Exp(m, n + 1) = e * m
    BY <1>1, ExpSteps
  <2>3. 1 <= d * 2 /\ d * 2 <= e * m
    <3> HIDE DEF d, e
    <3>1. d * 2 <= e * 2
      BY <2>1
    <3>2. e * 2 <= e * m
      BY <1>1, <2>1
    <3> QED BY <1>1, <2>1, <3>1, <3>2
  <2> QED BY <2>2, <2>3
<1>4. Nat \subseteq A
  <2> HIDE DEF A
  <2> QED BY <1>2, <1>3, SetInduction
<1> QED BY <1>4

\* The exponent is capped where the power is beyond a double already, or one.
LEMMA CappedExponent ==
  ASSUME NEW m \in Finite, m >= 1, NEW k \in Nat
  PROVE  \/ Exp(m, Exponent(k)) = Exp(m, k)
         \/ Exp(m, Exponent(k)) > FloatMax /\ Exp(m, k) > FloatMax
<1>1. m \in Int /\ ExponentMax \in Nat /\ Exp(2, ExponentMax) > FloatMax
      /\ FloatMax \in Nat
  BY FloatRanges, BackoffAssumption DEF Finite, BackoffAssumption
<1>2. CASE k <= ExponentMax
  BY <1>1, <1>2 DEF Exponent, Smaller
<1>3. CASE k > ExponentMax /\ m = 1
  BY <1>1, <1>3, ExpOfOne DEF Exponent, Smaller
<1>4. CASE k > ExponentMax /\ m >= 2
  <2>1. Exponent(k) = ExponentMax
    BY <1>1, <1>4 DEF Exponent, Smaller
  <2>2. Exp(2, ExponentMax) <= Exp(m, ExponentMax)
    BY <1>1, <1>4, ExpOfMore
  <2>3. Exp(m, ExponentMax) <= Exp(m, k)
    BY <1>1, <1>4, ExpGrows
  <2>4. Exp(2, ExponentMax) \in Int /\ Exp(m, ExponentMax) \in Int /\ Exp(m, k) \in Int
    BY <1>1, ExpSteps
  <2> QED BY <1>1, <2>1, <2>2, <2>3, <2>4
<1> QED BY <1>1, <1>2, <1>3, <1>4

\* backoff_for of an accepted policy, through every overflow.
Curve(p, k) ==
  LET power == Exp(p.multiplier, k)
  IN IF p.initialBackoff = 0 /\ power > FloatMax THEN p.maxBackoff
     ELSE Smaller(p.initialBackoff * power, p.maxBackoff)

\* The bound that backoff_for computes is the capped curve, at every attempt.
LEMMA BoundIsCurve ==
  ASSUME NEW p \in Policies, Valid(p), NEW k \in Nat
  PROVE  Bound(p, k) = Curve(p, k)
<1> DEFINE m == p.multiplier
           i == p.initialBackoff
           max == p.maxBackoff
           e == Exp(m, k)
           secs == Times(i, Power(m, Exponent(k)))
<1>1. m \in Finite /\ m >= 1 /\ m \in Int
  BY FloatRanges DEF Valid, Finite
<1>2. i \in Nat /\ i <= DurationMax /\ max \in Nat /\ max <= DurationMax
  BY Ranges DEF Policies, Durations
<1>3. DurationMax \in Nat /\ FloatMax \in Nat /\ DurationMax < FloatMax
  BY Ranges, FloatRanges
<1>4. Exponent(k) \in Nat
  BY BackoffAssumption DEF BackoffAssumption, Exponent, Smaller
<1>5. e \in Int /\ e >= 1
  BY <1>1, PowerIsExp
<1>6. Power(m, Exponent(k)) = IF e <= FloatMax THEN e ELSE Inf
  <2>1. Exp(m, Exponent(k)) \in Int
    BY <1>1, <1>4, PowerIsExp
  <2> QED BY <1>1, <1>3, <1>4, <1>5, <2>1, CappedExponent, PowerIsExp
<1>7. Bound(p, k) = IF IsDuration(secs) THEN Smaller(secs, max) ELSE max
  BY DEF Bound
<1>8. Curve(p, k) = IF i = 0 /\ e > FloatMax THEN max ELSE Smaller(i * e, max)
  BY DEF Curve
<1>9. secs = Times(i, IF e <= FloatMax THEN e ELSE Inf)
  BY <1>6
<1>10. i * e \in Nat /\ (i > 0 => i * e >= e)
  <2> HIDE DEF i, e
  <2> QED BY <1>2, <1>5
<1> HIDE DEF m, i, max, e, secs
<1>11. CASE e <= FloatMax
  <2>1. {i, e} \subseteq Finite /\ NaN \notin {i, e}
    BY <1>2, <1>3, <1>5, <1>11, FloatRanges DEF Finite
  <2>2. secs = Overflowing(i * e)
    BY <1>9, <1>11, <2>1 DEF Times
  <2> DEFINE n == i * e
  <2>3. n \in Nat
    BY <1>10
  <2> HIDE DEF n
  <2>4. CASE n <= DurationMax
    <3>1. Overflowing(n) = n /\ IsDuration(n)
      BY <1>3, <2>3, <2>4 DEF Overflowing, IsDuration, Finite, Durations
    <3> QED BY <1>3, <1>7, <1>8, <1>11, <1>5, <2>2, <3>1 DEF n
  <2>5. CASE n > DurationMax
    <3>1. ~IsDuration(Overflowing(n))
      BY <1>3, <2>3, <2>5, FloatRanges DEF Overflowing, IsDuration, Finite, Durations
    <3>2. Smaller(n, max) = max
      BY <1>2, <1>3, <2>3, <2>5 DEF Smaller
    <3> QED BY <1>3, <1>5, <1>7, <1>8, <1>11, <2>2, <3>1, <3>2 DEF n
  <2> QED BY <1>3, <2>3, <2>4, <2>5
<1>12. CASE ~(e <= FloatMax)
  <2>1. secs = Times(i, Inf) /\ NaN \notin {i, Inf} /\ ~({i, Inf} \subseteq Finite)
    BY <1>2, <1>9, <1>12, FloatRanges DEF Finite
  <2>2. Sign(Inf) = 1 /\ Sign(i) = IF i > 0 THEN 1 ELSE 0
    BY <1>2, FloatRanges DEF Sign
  <2>3. Sign(i) * Sign(Inf) = IF i > 0 THEN 1 ELSE 0
    BY <2>2
  <2>4. secs = IF i > 0 THEN Inf ELSE NaN
    BY <2>1, <2>3 DEF Times
  <2>5. ~IsDuration(secs)
    BY <2>4, FloatRanges DEF IsDuration, Finite
  <2>6. i > 0 => Smaller(i * e, max) = max
    BY <1>2, <1>3, <1>5, <1>10, <1>12 DEF Smaller
  <2> QED BY <1>2, <1>3, <1>5, <1>7, <1>8, <1>12, <2>5, <2>6
<1> QED BY <1>11, <1>12

\* The kinds of Retry-After header.
LEMMA HeaderRange ==
  ASSUME NEW h \in Headers \cup {NoHeader}
  PROVE  /\ h.form \in {"none", "text", "seconds", "date"} /\ h.n \in Int
         /\ h.form = "date" => h.n <= DurationMax
BY BackoffAssumption DEF BackoffAssumption, NoHeader

\* What a header asks for is a duration, or nothing.
LEMMA RetryAfterIsDuration ==
  ASSUME NEW h \in Headers \cup {NoHeader}
  PROVE  RetryAfterValue(h) \in Durations \cup {None}
BY HeaderRange, Ranges DEF RetryAfterValue, Larger, Durations

\* What is waited for it is capped.
LEMMA ParsedIsCapped ==
  ASSUME NEW p \in Policies, NEW h \in Headers \cup {NoHeader}
  PROVE  /\ ParseRetryAfter(p, h) \in Durations \cup {None}
         /\ ParseRetryAfter(p, h) <= p.maxRetryAfter
<1>1. p.maxRetryAfter \in Durations
  BY DEF Policies
<1>2. CASE ParseRetryAfter(p, h) = None
  BY <1>1, <1>2, Ranges DEF None, Durations
<1>3. CASE ParseRetryAfter(p, h) # None
  <2>1. /\ RetryAfterValue(h) \in Durations
        /\ ParseRetryAfter(p, h) = Smaller(RetryAfterValue(h), p.maxRetryAfter)
    BY <1>3, RetryAfterIsDuration DEF ParseRetryAfter
  <2> QED BY <1>1, <2>1, Ranges DEF Smaller, Durations
<1> QED BY <1>2, <1>3

\* What is asked for is that much, to the reach of a duration.
LEMMA AskedIsValue ==
  ASSUME NEW h \in Headers, h.form \in {"seconds", "date"}, h.n >= 0
  PROVE  /\ RetryAfterValue(h) \in Durations
         /\ RetryAfterValue(h) = h.n \/ (TooLong(h) /\ RetryAfterValue(h) = DurationMax)
BY HeaderRange, Ranges DEF RetryAfterValue, Larger, Durations, TooLong

\* So the delay it is parsed to is the capped one; of a header that asks for
\* nothing it is none, or zero.
LEMMA ParsedIsAsked ==
  ASSUME NEW p \in Policies, NEW h \in Headers
  PROVE  /\ Asks(p, h) =>
              /\ Smaller(h.n, p.maxRetryAfter) <= ParseRetryAfter(p, h)
              /\ TooLong(h) \/ ParseRetryAfter(p, h) = Smaller(h.n, p.maxRetryAfter)
         /\ ~Asks(p, h) => ParseRetryAfter(p, h) <= 0
<1>1. p.maxRetryAfter \in Durations /\ p.maxRetryAfter >= 0 /\ p.maxRetryAfter <= DurationMax
  BY Ranges DEF Policies, Durations
<1>2. h.form \in {"none", "text", "seconds", "date"} /\ h.n \in Int
  BY HeaderRange
<1>3. ASSUME Asks(p, h)
      PROVE  /\ Smaller(h.n, p.maxRetryAfter) <= ParseRetryAfter(p, h)
             /\ TooLong(h) \/ ParseRetryAfter(p, h) = Smaller(h.n, p.maxRetryAfter)
  <2>1. p.honorRetryAfter /\ h.form \in {"seconds", "date"} /\ h.n >= 0
    BY <1>3 DEF Asks
  <2>2. /\ RetryAfterValue(h) \in Durations
        /\ RetryAfterValue(h) = h.n \/ (TooLong(h) /\ RetryAfterValue(h) = DurationMax)
    BY <2>1, AskedIsValue
  <2>3. ParseRetryAfter(p, h) = Smaller(RetryAfterValue(h), p.maxRetryAfter)
    BY <2>1, <2>2, Ranges DEF ParseRetryAfter, None, Durations
  <2> QED BY <1>1, <1>2, <2>2, <2>3, Ranges DEF Smaller, Durations
<1>4. ASSUME ~Asks(p, h) PROVE ParseRetryAfter(p, h) <= 0
  <2>1. CASE ~p.honorRetryAfter
    BY <2>1 DEF ParseRetryAfter, None
  <2>2. CASE h.form \in {"none", "text"}
    <3>1. RetryAfterValue(h) = None
      BY <2>2 DEF RetryAfterValue
    <3> QED BY <3>1 DEF ParseRetryAfter, None
  <2>3. CASE h.form = "seconds" /\ h.n < 0
    <3>1. RetryAfterValue(h) = None
      BY <1>2, <2>3, Ranges DEF RetryAfterValue
    <3> QED BY <3>1 DEF ParseRetryAfter, None
  <2>4. CASE h.form = "date" /\ h.n < 0
    <3>1. RetryAfterValue(h) = 0
      BY <1>2, <2>4 DEF RetryAfterValue, Larger
    <3> QED BY <1>1, <3>1 DEF ParseRetryAfter, None, Smaller
  <2> QED BY <1>2, <1>4, <2>1, <2>2, <2>3, <2>4 DEF Asks
<1> QED BY <1>3, <1>4

-----------------------------------------------------------------------------
(* The inductive invariant: the last replay was made of the policy as it   *)
(* still is, since nothing sets a field of a policy in use; and one that   *)
(* build accepted is accepted still.                                       *)

BackoffInv ==
  /\ TypeOK
  /\ attempt > 0 => pc = "used" /\ bound = Bound(policy, attempt - 1)
  /\ checked => pc = "used" /\ Valid(policy)
  /\ WaitsAreCapped
  /\ WaitsAsAsked

\* from_seed starts no generator at zero.
LEMMA SeedsRun ==
  ASSUME NEW seed \in Seeds PROVE FromSeed(seed) \in Running
BY BackoffAssumption DEF BackoffAssumption, FromSeed, Running

\* The invariant holds at the start.
LEMMA InitBackoff == Init => BackoffInv
<1> SUFFICES ASSUME Init PROVE BackoffInv
  OBVIOUS
<1>1. policy \in Policies
  BY BackoffAssumption DEF BackoffAssumption, Init
<1>2. policy.maxRetries \in Nat
  BY <1>1 DEF Policies
<1>3. rng \in Running
  BY SeedsRun DEF Init
<1>4. attempt = 0 /\ attempt \in 0..policy.maxRetries
  BY <1>2 DEF Init
<1>5. TypeOK
  BY <1>1, <1>3, <1>4, Ranges DEF Init, TypeOK
<1> QED BY <1>4, <1>5 DEF Init, BackoffInv, WaitsAreCapped, WaitsAsAsked

\* A policy with another value in a field is a policy.
LEMMA FieldSet ==
  ASSUME NEW field \in Fields, NEW value \in Values[field], policy \in Policies
  PROVE  [policy EXCEPT ![field] = value] \in Policies
<1>1. /\ Values["maxRetries"] \subseteq Nat
      /\ Values["initialBackoff"] \subseteq Durations
      /\ Values["multiplier"] \subseteq Floats
      /\ Values["maxBackoff"] \subseteq Durations
      /\ Values["honorRetryAfter"] \subseteq BOOLEAN
      /\ Values["maxRetryAfter"] \subseteq Durations
  BY BackoffAssumption DEF BackoffAssumption
<1>2. CASE field = "maxRetries"
  BY <1>1, <1>2 DEF Policies
<1>3. CASE field = "initialBackoff"
  BY <1>1, <1>3 DEF Policies
<1>4. CASE field = "multiplier"
  BY <1>1, <1>4 DEF Policies
<1>5. CASE field = "maxBackoff"
  BY <1>1, <1>5 DEF Policies
<1>6. CASE field = "honorRetryAfter"
  BY <1>1, <1>6 DEF Policies
<1>7. CASE field = "maxRetryAfter"
  BY <1>1, <1>7 DEF Policies
<1> QED
  BY <1>2, <1>3, <1>4, <1>5, <1>6, <1>7 DEF Fields

\* WaitsAsAsked of one replay.
Honours(p, h, b, w) ==
  LET most == Smaller(h.n, p.maxRetryAfter)
  IN IF Asks(p, h) THEN most <= w /\ (TooLong(h) \/ w <= Larger(b, most))
     ELSE w <= b

\* One replay: the wait is what was asked for or the backoff, within the caps.
LEMMA ReplayWaits ==
  ASSUME TypeOK, NEW h \in Headers, Replay(h)
  PROVE  /\ bound' \in Durations /\ wait' \in Durations
         /\ bound' <= policy.maxBackoff
         /\ wait' <= Larger(policy.maxBackoff, policy.maxRetryAfter)
         /\ Honours(policy, h, bound', wait')
<1>1. policy \in Policies
  BY DEF TypeOK
<1>2. bound' = Bound(policy, attempt)
  BY DEF Replay
<1>3. bound' \in Durations /\ bound' <= policy.maxBackoff
  BY <1>1, <1>2, BoundIsCapped
<1>4. PICK backoff \in 0..bound' :
        wait' = Larger(ParseRetryAfter(policy, h), backoff)
  BY DEF Replay
<1> DEFINE parsed == ParseRetryAfter(policy, h)
           most == Smaller(h.n, policy.maxRetryAfter)
<1>5. parsed \in Durations \cup {None} /\ parsed <= policy.maxRetryAfter
  BY <1>1, ParsedIsCapped
<1>6. policy.maxBackoff \in Durations /\ policy.maxRetryAfter \in Durations
  BY <1>1 DEF Policies
<1>7. /\ Asks(policy, h) => most <= parsed /\ (TooLong(h) \/ parsed = most)
      /\ ~Asks(policy, h) => parsed <= 0
  BY <1>1, ParsedIsAsked
<1>8. most \in Int
  BY <1>6, HeaderRange, Ranges DEF Smaller, Durations
<1>9. wait' = Larger(parsed, backoff)
  BY <1>4
<1> HIDE DEF parsed, most
<1>10. wait' \in Durations
      /\ wait' <= Larger(policy.maxBackoff, policy.maxRetryAfter)
  BY <1>3, <1>5, <1>6, <1>9, Ranges DEF Larger, Durations, None
<1>11. IF Asks(policy, h)
       THEN most <= wait' /\ (TooLong(h) \/ wait' <= Larger(bound', most))
       ELSE wait' <= bound'
  <2>1. bound' \in Int /\ backoff \in Int /\ parsed \in Int
        /\ 0 <= backoff /\ backoff <= bound'
    BY <1>3, <1>5, Ranges DEF Durations, None
  <2>2. CASE Asks(policy, h)
    BY <1>7, <1>8, <1>9, <2>1, <2>2 DEF Larger
  <2>3. CASE ~Asks(policy, h)
    BY <1>7, <1>9, <2>1, <2>3 DEF Larger
  <2> QED BY <2>2, <2>3
<1> QED BY <1>3, <1>10, <1>11 DEF Honours, most

\* Every step keeps the invariant.
LEMMA StepBackoff == BackoffInv /\ [Next]_vars => BackoffInv'
<1> SUFFICES ASSUME BackoffInv, [Next]_vars PROVE BackoffInv'
  OBVIOUS
<1>1. ASSUME NEW field \in Fields, Set(field) PROVE BackoffInv'
  <2>1. attempt = 0 /\ attempt' = 0
    BY <1>1 DEF Set, BackoffInv, TypeOK
  <2>2. policy' \in Policies
    BY <1>1, FieldSet DEF Set, BackoffInv, TypeOK
  <2>3. policy'.maxRetries \in Nat
    BY <2>2 DEF Policies
  <2> QED BY <1>1, <2>1, <2>2, <2>3
             DEF Set, BackoffInv, TypeOK, WaitsAreCapped, WaitsAsAsked
<1>2. CASE Build
  BY <1>2 DEF Build, BackoffInv, TypeOK, WaitsAreCapped, WaitsAsAsked
<1>3. CASE UseUnchecked
  BY <1>3 DEF UseUnchecked, BackoffInv, TypeOK, WaitsAreCapped, WaitsAsAsked
<1>4. ASSUME NEW h \in Headers, Replay(h) PROVE BackoffInv'
  <2>1. TypeOK
    BY DEF BackoffInv
  <2>2. rng' \in Running
    BY <1>4, <2>1, NextWordIsOne DEF Replay, TypeOK
  <2>3. attempt' \in 0..policy.maxRetries
    <3>1. policy.maxRetries \in Nat
      BY <2>1 DEF TypeOK, Policies
    <3> QED BY <1>4, <2>1, <3>1 DEF Replay, TypeOK
  <2>4. policy' = policy /\ asked' = h /\ pc' = "used" /\ checked' = checked
    BY <1>4 DEF Replay
  <2>5. TypeOK'
    BY <1>4, <2>1, <2>2, <2>3, <2>4, ReplayWaits DEF TypeOK
  <2>6. WaitsAreCapped' /\ WaitsAsAsked'
    BY <1>4, <2>1, <2>4, ReplayWaits DEF WaitsAreCapped, WaitsAsAsked, Honours
  <2>7. attempt' - 1 = attempt /\ bound' = Bound(policy, attempt)
    BY <1>4, <2>1 DEF Replay, TypeOK
  <2> QED BY <2>4, <2>5, <2>6, <2>7 DEF BackoffInv
<1>5. CASE UNCHANGED vars
  BY <1>5 DEF vars, BackoffInv, TypeOK, WaitsAreCapped, WaitsAsAsked
<1> QED BY <1>1, <1>2, <1>3, <1>4, <1>5 DEF Next

\* So the invariant always holds.
LEMMA BackoffSafe == Spec => []BackoffInv
BY InitBackoff, StepBackoff, PTL DEF Spec

\* Types; and the jitter generator of from_seed and next_u64, for any width,
\* shifts and seed, never reaches the state it cannot leave.
THEOREM TypeCorrect == Spec => []TypeOK
<1>1. BackoffInv => TypeOK
  BY DEF BackoffInv
<1> QED BY BackoffSafe, <1>1, PTL

\* backoff_for and parse_retry_after stay within their caps for every policy,
\* validated or not, at every attempt, whatever floating point made of it.
THEOREM WaitsCapped == Spec => []WaitsAreCapped
<1>1. BackoffInv => WaitsAreCapped
  BY DEF BackoffInv
<1> QED BY BackoffSafe, <1>1, PTL

\* The waits of every policy that build accepted grow exponentially up to the
\* cap, through overflows of the double, of the duration and of the exponent:
\* what backoff_for computes in floating point is what it is meant to compute.
THEOREM CurveExponential == Spec => []CurveIsExponential
<1>1. BackoffInv => CurveIsExponential
  <2> SUFFICES ASSUME BackoffInv, checked, attempt > 0 PROVE CurveIsExponential
    BY DEF CurveIsExponential
  <2>1. policy \in Policies /\ Valid(policy) /\ bound = Bound(policy, attempt - 1)
    BY DEF BackoffInv, TypeOK
  <2>2. attempt - 1 \in Nat
    <3>1. policy.maxRetries \in Nat /\ attempt \in 0..policy.maxRetries
      BY DEF BackoffInv, TypeOK, Policies
    <3> QED BY <3>1
  <2>3. bound = Curve(policy, attempt - 1)
    BY <2>1, <2>2, BoundIsCurve
  <2> QED BY <2>3 DEF Curve, CurveIsExponential
<1> QED BY BackoffSafe, <1>1, PTL

\* What a Retry-After header asks for is waited for, up to max_retry_after, the
\* numbers beyond u64 included; what asks for nothing, a past date or no header
\* that parses, leaves the wait to the backoff.
THEOREM HeadersHonoured == Spec => []WaitsAsAsked
<1>1. BackoffInv => WaitsAsAsked
  BY DEF BackoffInv
<1> QED BY BackoffSafe, <1>1, PTL

==============================================================================
