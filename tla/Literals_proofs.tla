--------------------------- MODULE Literals_proofs ---------------------------
(***************************************************************************)
(* The loop of parseUintLiteralDigits never wraps, whatever the width, and *)
(* an integer is what its digits mean; what is taken for an integer or a   *)
(* float is what the grammar of TOML calls one; and dates and times are    *)
(* read as they were written.                                              *)
(***************************************************************************)
EXTENDS Literals, FiniteSetTheorems, WellFoundedInduction, NaturalsInduction, TLAPS

Bases == {2, 8, 10, 16}

\* While digits are read the accumulator is exact and within a limit that fits.
Reading == /\ base \in Bases /\ limit \in Nat /\ limit < Modulus
           /\ negative \in BOOLEAN /\ limit = Limit(negative)
           /\ u \in Nat /\ u = exact /\ u <= limit
IInv == pc = "digits" => Reading

\* numericDigitValue
LEMMA DigitRange == ASSUME NEW b, NEW c \in DigitsOf(b)
                    PROVE  DigitValue[c] \in Nat /\ DigitValue[c] < b
  BY DEF DigitsOf, DigitValue

\* What the cut-off test lets pass is within the limit.
LEMMA CutOff ==
  ASSUME NEW b \in Bases, NEW l \in Nat, NEW n \in Nat, NEW d \in Nat, d < b,
         ~(n > l \div b), ~(n = l \div b /\ d > l % b)
  PROVE  n * b + d \in Nat /\ n * b + d <= l
<1>1. CASE b = 2  BY <1>1
<1>2. CASE b = 8  BY <1>2
<1>3. CASE b = 10 BY <1>3
<1>4. CASE b = 16 BY <1>4
<1> QED BY <1>1, <1>2, <1>3, <1>4 DEF Bases

\* What is smaller than the modulus is its own remainder.
LEMMA Remainder == ASSUME NEW m \in Nat, NEW n \in Nat, n < m
                   PROVE  n % m = n
  OBVIOUS

\* parseIntegerLiteral calls with a base TOML has and a limit of the width.
LEMMA Begins == ASSUME BeginInteger PROVE Reading'
<1>1. base' \in Bases BY DEF BeginInteger, Prefixed, BaseOf, Bases
<1>2. limit' \in Nat /\ limit' < Modulus
  BY WidthAssumption DEF BeginInteger, Limit
<1>3. u' = 0 /\ exact' = 0 BY DEF BeginInteger
<1>4. negative' \in BOOLEAN /\ limit' = Limit(negative') BY DEF BeginInteger
<1> QED BY <1>1, <1>2, <1>3, <1>4 DEF Reading, Limit

\* One more digit.
LEMMA Reads == ASSUME IInv, ReadDigit PROVE IInv'
<1> DEFINE c == Head(rest)
           d == DigitValue[c]
<1>1. Reading BY DEF IInv, ReadDigit
<1>2. CASE c = Underscore /\ UNCHANGED <<negative, base, limit, u, exact>>
  BY <1>1, <1>2 DEF IInv, Reading, Limit
<1>3. CASE /\ c \in DigitsOf(base) /\ ~OverLimit(d)
           /\ u' = (u * base + d) % Modulus /\ exact' = exact * base + d
           /\ UNCHANGED <<negative, base, limit>>
  <2>1. d \in Nat /\ d < base BY <1>3, DigitRange
  <2>2. ~(u > limit \div base) /\ ~(u = limit \div base /\ d > limit % base)
    BY <1>3 DEF OverLimit
  <2>3. u * base + d \in Nat /\ u * base + d <= limit
    BY <1>1, <2>1, <2>2, CutOff DEF Reading
  <2>4. Modulus \in Nat /\ u * base + d < Modulus
    BY <1>1, <2>3, WidthAssumption DEF Reading
  <2>5. u' = u * base + d BY <1>3, <2>3, <2>4, Remainder
  <2>6. exact' = u * base + d BY <1>1, <1>3 DEF Reading
  <2> QED BY <1>1, <1>3, <2>3, <2>5, <2>6 DEF IInv, Reading, Limit
<1>4. CASE Reject BY <1>4 DEF Reject, IInv
<1> QED BY <1>2, <1>3, <1>4 DEF ReadDigit

LEMMA Starts == Init => IInv
  BY DEF Init, IInv

LEMMA Inductive == IInv /\ [Next]_vars => IInv'
<1> SUFFICES ASSUME IInv, [Next]_vars PROVE IInv'
  OBVIOUS
<1>1. CASE ClassifyBareValue
  <2>1. CASE BeginInteger BY <2>1, Begins DEF IInv
  <2>2. CASE pc' = "done" BY <2>2 DEF IInv
  <2> QED BY <1>1, <2>1, <2>2 DEF ClassifyBareValue, Reject
<1>2. CASE ReadDigit BY <1>2, Reads
<1>3. CASE EndInteger BY <1>3 DEF EndInteger, Reject, IInv
<1>4. CASE ReadStamp BY <1>4 DEF ReadStamp, Reject, IInv
<1>5. CASE Assign BY <1>5 DEF Assign, IInv
<1>6. CASE WriteStamp BY <1>6 DEF WriteStamp, Reject, IInv
<1>7. CASE UNCHANGED vars BY <1>7 DEF vars, number, IInv, Reading, Limit
<1> QED BY <1>1, <1>2, <1>3, <1>4, <1>5, <1>6, <1>7 DEF Next

\* For integers of any width the cut-off test keeps the accumulator within the limit, so
\* that it never wraps and is what the digits read so far mean (value.go:1293-1313).
THEOREM AccumulatorExact == Spec => []NoWrap
<1>1. IInv => NoWrap BY DEF IInv, Reading, NoWrap
<1> QED BY <1>1, Starts, Inductive, PTL DEF Spec

\* An integer that is the value of a literal is the one its digits and its sign mean.
SignExact == outcome = "integer" => value = IF negative THEN -exact ELSE exact

SInv == SignExact /\ (pc # "done" => outcome # "integer")

\* The smallest integer has a magnitude that no positive one has.
LEMMA Signs == ASSUME IInv, EndInteger, outcome' = "integer"
               PROVE  value' = IF negative' THEN -exact' ELSE exact'
<1>1. Reading BY DEF IInv, EndInteger
<1>2. value' = IF ~negative THEN Int64(u)
               ELSE IF u = MinMagnitude THEN -MinMagnitude ELSE -Int64(u)
  BY DEF EndInteger, Reject
<1>3. negative' = negative /\ exact' = u BY <1>1 DEF EndInteger, Reject, number, Reading
<1>4. CASE ~negative
  <2>1. u < MinMagnitude BY <1>1, <1>4, WidthAssumption DEF Reading, Limit
  <2> QED BY <1>1, <1>2, <1>3, <1>4, <2>1, WidthAssumption DEF Int64, Reading
<1>5. CASE negative
  <2>1. u <= MinMagnitude BY <1>1, <1>5, WidthAssumption DEF Reading, Limit
  <2> QED BY <1>1, <1>2, <1>3, <1>5, <2>1, WidthAssumption DEF Int64, Reading
<1> QED BY <1>1, <1>4, <1>5 DEF Reading

LEMMA SignInductive == IInv /\ SInv /\ [Next]_vars => SInv'
<1> SUFFICES ASSUME IInv, SInv, [Next]_vars PROVE SInv'
  OBVIOUS
<1>1. CASE ClassifyBareValue
  BY <1>1 DEF ClassifyBareValue, BeginInteger, Reject, SInv, SignExact
<1>2. CASE ReadDigit BY <1>2 DEF ReadDigit, Reject, SInv, SignExact
<1>3. CASE EndInteger
  <2>1. pc' = "done" BY <1>3 DEF EndInteger, Reject
  <2> QED BY <1>3, <2>1, Signs DEF SInv, SignExact
<1>4. CASE ReadStamp BY <1>4 DEF ReadStamp, Reject, SInv, SignExact
<1>5. CASE Assign BY <1>5 DEF Assign, SInv, SignExact
<1>6. CASE WriteStamp BY <1>6 DEF WriteStamp, Reject, SInv, SignExact
<1>7. CASE UNCHANGED vars BY <1>7 DEF vars, number, SInv, SignExact
<1> QED BY <1>1, <1>2, <1>3, <1>4, <1>5, <1>6, <1>7 DEF Next

\* For integers of any width the value is the exact one, -2^(w-1) included
\* (value.go:1255-1281): with AccumulatorExact no literal is read as another number.
THEOREM ValueExact == Spec => []SignExact
<1>1. Init => SInv BY DEF Init, SInv, SignExact
<1>2. SInv => SignExact BY DEF SInv
<1> QED BY <1>1, <1>2, Starts, Inductive, SignInductive, PTL DEF Spec

-----------------------------------------------------------------------------
(* Sums over finite sets.                                                  *)

\* The order of the naturals is well-founded.
LEMMA Less == \E R : IsWellFoundedOn(R, Nat) /\ \A x, y \in Nat : x < y => <<x, y>> \in R
<1>1. \A x, y \in Nat : x < y => <<x, y>> \in OpToRel(<, Nat)
  BY DEF OpToRel
<1> QED BY <1>1, NatLessThanWellFounded, Zenon

\* A set with 0, and with every successor of its members, has every natural.
LEMMA Induct == ASSUME NEW S, 0 \in S, \A n \in Nat : n \in S => n + 1 \in S
                PROVE  Nat \subseteq S
<1> DEFINE T == Nat \ S
<1> SUFFICES ASSUME T # {} PROVE FALSE
  OBVIOUS
<1>0. PICK R : IsWellFoundedOn(R, Nat) /\ \A x, y \in Nat : x < y => <<x, y>> \in R
  BY Less
<1>1. PICK n \in T : \A m \in T : ~ (<<m, n>> \in R)
  <2>1. T \subseteq Nat OBVIOUS
  <2>2. IsWellFoundedOn(R, Nat) BY <1>0
  <2> HIDE DEF T
  <2> QED BY <2>1, <2>2, WFMin, Zenon
<1>2. n # 0 /\ n - 1 \in Nat /\ n - 1 < n
  BY <1>1
<1>3. n - 1 \in S
  BY <1>0, <1>1, <1>2
<1>4. (n - 1) + 1 \in S
  BY <1>2, <1>3
<1> QED BY <1>1, <1>4

-----------------------------------------------------------------------------
(* Sums over sets of positions, in whatever order they are added up.       *)

\* g adds up w over every set of positions.
Adds(w, D, g) ==
  \A s \in SUBSET D : g[s] = IF s = {} THEN 0
                             ELSE w[CHOOSE x \in s : TRUE] + g[s \ {CHOOSE x \in s : TRUE}]

Small(D, k) == {s \in SUBSET D : Cardinality(s) <= k}

AddsTo(w, D, k) ==
  \E g \in [Small(D, k) -> Nat] :
    \A s \in Small(D, k) : g[s] = IF s = {} THEN 0
                                  ELSE w[CHOOSE x \in s : TRUE] + g[s \ {CHOOSE x \in s : TRUE}]

\* What a set of positions is without the first that is added.
LEMMA Without ==
  ASSUME NEW D, IsFiniteSet(D), NEW s \in SUBSET D, NEW x \in s
  PROVE  /\ s \ {x} \in SUBSET D /\ IsFiniteSet(s)
         /\ Cardinality(s) \in Nat /\ Cardinality(s) > 0
         /\ Cardinality(s \ {x}) = Cardinality(s) - 1
<1>1. IsFiniteSet(s) BY FS_Subset
<1>2. Cardinality(s) \in Nat BY <1>1, FS_CardinalityType
<1>3. IsFiniteSet(s \ {x}) /\ Cardinality(s \ {x}) = Cardinality(s) - 1
  BY <1>1, FS_RemoveElement
<1>4. Cardinality(s \ {x}) \in Nat BY <1>3, FS_CardinalityType
<1> QED BY <1>1, <1>2, <1>3, <1>4

LEMMA AddZero == ASSUME NEW D, IsFiniteSet(D), NEW w PROVE AddsTo(w, D, 0)
<1>1. \A s \in Small(D, 0) : s = {}
  <2> SUFFICES ASSUME NEW s \in Small(D, 0), s # {} PROVE FALSE
    OBVIOUS
  <2>1. PICK x \in s : TRUE OBVIOUS
  <2>2. Cardinality(s) > 0 BY Without DEF Small
  <2>3. Cardinality(s) \in Nat BY Without DEF Small
  <2> QED BY <2>2, <2>3 DEF Small
<1> DEFINE g == [s \in Small(D, 0) |-> 0]
<1>2. g \in [Small(D, 0) -> Nat] OBVIOUS
<1>3. \A s \in Small(D, 0) : g[s] = IF s = {} THEN 0
                             ELSE w[CHOOSE x \in s : TRUE] + g[s \ {CHOOSE x \in s : TRUE}]
  BY <1>1
<1> QED BY <1>2, <1>3 DEF AddsTo

LEMMA AddMore ==
  ASSUME NEW D, IsFiniteSet(D), NEW w \in [D -> Nat], NEW k \in Nat, AddsTo(w, D, k)
  PROVE  AddsTo(w, D, k + 1)
<1>1. PICK g \in [Small(D, k) -> Nat] :
        \A s \in Small(D, k) : g[s] = IF s = {} THEN 0
                               ELSE w[CHOOSE x \in s : TRUE] + g[s \ {CHOOSE x \in s : TRUE}]
  BY DEF AddsTo
<1> DEFINE c(s) == CHOOSE x \in s : TRUE
           h == [s \in Small(D, k + 1) |->
                   IF s = {} THEN 0 ELSE w[c(s)] + g[s \ {c(s)}]]
<1>2. ASSUME NEW s \in Small(D, k + 1), s # {}
      PROVE  c(s) \in D /\ s \ {c(s)} \in Small(D, k) /\ s \ {c(s)} \in Small(D, k + 1)
  <2>1. c(s) \in s BY <1>2
  <2>2. s \in SUBSET D /\ Cardinality(s) <= k + 1 BY DEF Small
  <2> HIDE DEF c
  <2>3. /\ s \ {c(s)} \in SUBSET D /\ Cardinality(s) \in Nat
        /\ Cardinality(s \ {c(s)}) = Cardinality(s) - 1
    BY <2>1, <2>2, Without
  <2> QED BY <2>1, <2>2, <2>3 DEF Small
<1>3. ASSUME NEW s \in Small(D, k) PROVE s \in Small(D, k + 1) /\ h[s] = g[s]
  <2>0. s \in SUBSET D BY DEF Small
  <2>1. IsFiniteSet(s) BY <2>0, FS_Subset
  <2>2. Cardinality(s) \in Nat BY <2>1, FS_CardinalityType
  <2>3. s \in Small(D, k + 1) BY <2>2 DEF Small
  <2>4. h[s] = IF s = {} THEN 0 ELSE w[c(s)] + g[s \ {c(s)}]
    BY <2>3
  <2> QED BY <1>1, <2>3, <2>4
<1>4. ASSUME NEW s \in Small(D, k + 1)
      PROVE  h[s] = IF s = {} THEN 0 ELSE w[c(s)] + h[s \ {c(s)}]
  <2>1. h[s] = IF s = {} THEN 0 ELSE w[c(s)] + g[s \ {c(s)}]
    OBVIOUS
  <2>2. s # {} => h[s \ {c(s)}] = g[s \ {c(s)}]
    BY <1>2, <1>3
  <2> HIDE DEF h
  <2> QED BY <2>1, <2>2
<1>5. h \in [Small(D, k + 1) -> Nat]
  <2>1. ASSUME NEW s \in Small(D, k + 1) PROVE (IF s = {} THEN 0 ELSE w[c(s)] + g[s \ {c(s)}]) \in Nat
    <3>1. CASE s = {} BY <3>1
    <3>2. CASE s # {}
      <4>1. w[c(s)] \in Nat BY <3>2, <1>2
      <4>2. g[s \ {c(s)}] \in Nat BY <3>2, <1>2
      <4> HIDE DEF c
      <4> QED BY <4>1, <4>2, <3>2
    <3> QED BY <3>1, <3>2
  <2> HIDE DEF c
  <2> QED BY <2>1
<1> HIDE DEF h
<1> QED BY <1>4, <1>5 DEF AddsTo

LEMMA AddExists == ASSUME NEW D, IsFiniteSet(D), NEW w \in [D -> Nat]
                   PROVE  \E g \in [SUBSET D -> Nat] : Adds(w, D, g)
<1> DEFINE S == {k \in Nat : AddsTo(w, D, k)}
<1>1. 0 \in S BY AddZero
<1>2. \A k \in Nat : k \in S => k + 1 \in S BY AddMore
<1>3. Nat \subseteq S
  <2> HIDE DEF S
  <2> QED BY <1>1, <1>2, Induct
<1>4. Cardinality(D) \in Nat BY FS_CardinalityType
<1>5. AddsTo(w, D, Cardinality(D)) BY <1>3, <1>4
<1>6. Small(D, Cardinality(D)) = SUBSET D
  <2>1. \A s \in SUBSET D : Cardinality(s) <= Cardinality(D) BY FS_Subset
  <2> QED BY <2>1 DEF Small
<1> QED BY <1>5, <1>6 DEF AddsTo, Adds

\* A sum is its terms added up in any order.
LEMMA AnyOrder ==
  ASSUME NEW D, IsFiniteSet(D), NEW w \in [D -> Nat], NEW g \in [SUBSET D -> Nat], Adds(w, D, g),
         NEW s \in SUBSET D, NEW x \in s
  PROVE  g[s] = w[x] + g[s \ {x}]
<1> DEFINE P(t) == \A y \in t : g[t] = w[y] + g[t \ {y}]
           S == {k \in Nat : \A t \in SUBSET D : Cardinality(t) = k => P(t)}
<1>1. 0 \in S
  <2>1. ASSUME NEW t \in SUBSET D, Cardinality(t) = 0 PROVE P(t)
    <3>1. \A y \in t : Cardinality(t) > 0 BY Without
    <3> QED BY <3>1, <2>1
  <2> HIDE DEF P
  <2> QED BY <2>1
<1>2. ASSUME NEW k \in Nat, k \in S PROVE k + 1 \in S
  <2> SUFFICES ASSUME NEW t \in SUBSET D, Cardinality(t) = k + 1, NEW y \in t
               PROVE  g[t] = w[y] + g[t \ {y}]
    OBVIOUS
  <2> DEFINE z == CHOOSE z \in t : TRUE
  <2>1. z \in t OBVIOUS
  <2>2. g[t] = w[z] + g[t \ {z}] BY DEF Adds
  <2> HIDE DEF z
  <2>3. CASE y = z BY <2>2, <2>3
  <2>4. CASE y # z
    <3>1. t \ {z} \in SUBSET D /\ t \ {y} \in SUBSET D
      OBVIOUS
    <3>2. Cardinality(t \ {z}) = k /\ Cardinality(t \ {y}) = k
      BY <2>1, Without
    <3>3. y \in t \ {z} /\ z \in t \ {y} BY <2>1, <2>4
    <3>4. P(t \ {z}) /\ P(t \ {y}) BY <1>2, <3>1, <3>2
    <3>5. g[t \ {z}] = w[y] + g[(t \ {z}) \ {y}] BY <3>3, <3>4
    <3>6. g[t \ {y}] = w[z] + g[(t \ {y}) \ {z}] BY <3>3, <3>4
    <3>7. (t \ {z}) \ {y} = (t \ {y}) \ {z} OBVIOUS
    <3>8. (t \ {z}) \ {y} \in SUBSET D OBVIOUS
    <3>9. w[y] \in Nat /\ w[z] \in Nat /\ g[(t \ {z}) \ {y}] \in Nat
      BY <2>1, <3>8
    <3>10. PICK r \in Nat : r = g[(t \ {z}) \ {y}] BY <3>9
    <3>11. g[t] = w[z] + (w[y] + r) BY <2>2, <3>5, <3>10
    <3>12. g[t \ {y}] = w[z] + r BY <3>6, <3>7, <3>10
    <3>13. w[z] + (w[y] + r) = w[y] + (w[z] + r) BY <3>9
    <3> QED BY <3>11, <3>12, <3>13
  <2> QED BY <2>3, <2>4
<1>3. Nat \subseteq S
  <2> HIDE DEF S
  <2> QED BY <1>1, <1>2, Induct
<1>4. Cardinality(s) \in Nat BY Without
<1> QED BY <1>3, <1>4

\* What SumFunctionOnSet computes.
LEMMA SumIs ==
  ASSUME NEW D, IsFiniteSet(D), NEW w \in [D -> Nat], NEW g \in [SUBSET D -> Nat], Adds(w, D, g),
         NEW e \in SUBSET D
  PROVE  SumFunctionOnSet(w, e) = g[e]
<1> DEFINE Is(f) == f = [s \in SUBSET e |-> IF s = {} THEN 0
                           ELSE w[CHOOSE x \in s : TRUE] + f[s \ {CHOOSE x \in s : TRUE}]]
           h == [s \in SUBSET e |-> g[s]]
<1>1. Is(h)
  <2>1. \A s \in SUBSET e : g[s] = IF s = {} THEN 0
                              ELSE w[CHOOSE x \in s : TRUE] + g[s \ {CHOOSE x \in s : TRUE}]
    BY DEF Adds
  <2>2. \A s \in SUBSET e : h[s \ {CHOOSE x \in s : TRUE}] = g[s \ {CHOOSE x \in s : TRUE}]
    OBVIOUS
  <2> QED BY <2>1, <2>2
<1>2. SumFunctionOnSet(w, e) = (CHOOSE f : Is(f))[e]
  BY DEF SumFunctionOnSet, FoldFunctionOnSet, MapThenFoldSet
<1> HIDE DEF h
<1>3. Is(CHOOSE f : Is(f)) BY <1>1
<1> DEFINE f == CHOOSE f : Is(f)
           S == {k \in Nat : \A t \in SUBSET e : Cardinality(t) = k => f[t] = g[t]}
<1>4. \A s \in SUBSET e : f[s] = IF s = {} THEN 0
                           ELSE w[CHOOSE x \in s : TRUE] + f[s \ {CHOOSE x \in s : TRUE}]
  <2>1. Is(f) BY <1>3
  <2> HIDE DEF f
  <2> QED BY <2>1
<1>0. IsFiniteSet(e) BY FS_Subset
<1> HIDE DEF f, Is
<1>5. 0 \in S
  <2> SUFFICES ASSUME NEW t \in SUBSET e, Cardinality(t) = 0 PROVE f[t] = g[t]
    OBVIOUS
  <2>1. \A y \in t : Cardinality(t) > 0 BY <1>0, Without
  <2>2. t = {} BY <2>1
  <2> QED BY <2>2, <1>4 DEF Adds
<1>6. ASSUME NEW k \in Nat, k \in S PROVE k + 1 \in S
  <2> SUFFICES ASSUME NEW t \in SUBSET e, Cardinality(t) = k + 1 PROVE f[t] = g[t]
    OBVIOUS
  <2>0. t \in SUBSET D OBVIOUS
  <2>1. CASE t = {} BY <2>0, <2>1, <1>4 DEF Adds
  <2>2. CASE t # {}
    <3> DEFINE z == CHOOSE z \in t : TRUE
    <3>1. z \in t BY <2>2
    <3>2. g[t] = w[z] + g[t \ {z}] BY <2>0, <2>2 DEF Adds
    <3>3. f[t] = w[z] + f[t \ {z}] BY <2>2, <1>4
    <3> HIDE DEF z
    <3>4. Cardinality(t \ {z}) = k BY <1>0, <3>1, Without
    <3>5. t \ {z} \in SUBSET e OBVIOUS
    <3>6. f[t \ {z}] = g[t \ {z}] BY <3>4, <3>5, <1>6
    <3> QED BY <3>2, <3>3, <3>6
  <2> QED BY <2>1, <2>2
<1>7. Nat \subseteq S
  <2> HIDE DEF S
  <2> QED BY <1>5, <1>6, Induct
<1>8. Cardinality(e) \in Nat BY <1>0, FS_CardinalityType
<1>9. f[e] = g[e] BY <1>7, <1>8
<1> QED BY <1>2, <1>9 DEF f

\* A sum is a term of it and the sum of the others.
LEMMA SumStep ==
  ASSUME NEW D, IsFiniteSet(D), NEW w \in [D -> Nat], NEW s \in SUBSET D
  PROVE  /\ SumFunctionOnSet(w, s) \in Nat
         /\ s = {} => SumFunctionOnSet(w, s) = 0
         /\ \A x \in s : SumFunctionOnSet(w, s) = w[x] + SumFunctionOnSet(w, s \ {x})
<1>1. PICK g \in [SUBSET D -> Nat] : Adds(w, D, g) BY AddExists
<1>2. \A e \in SUBSET D : SumFunctionOnSet(w, e) = g[e] BY <1>1, SumIs
<1>3. s = {} => g[s] = 0 BY <1>1 DEF Adds
<1>4. \A x \in s : g[s] = w[x] + g[s \ {x}] BY <1>1, AnyOrder
<1>5. \A x \in s : s \ {x} \in SUBSET D OBVIOUS
<1> QED BY <1>2, <1>3, <1>4, <1>5

-----------------------------------------------------------------------------
(* The recognisers and the grammar.                                        *)

LEMMA Decimals ==
  /\ DigitsOf(10) = {"0", "1", "2", "3", "4", "5", "6", "7", "8", "9"}
  /\ \A b : DigitsOf(b) \subseteq DOMAIN DigitValue
  /\ DOMAIN DigitValue = {"0", "1", "2", "3", "4", "5", "6", "7", "8", "9",
                           "a", "b", "c", "d", "e", "f", "A", "B", "C", "D", "E", "F"}
  /\ DOMAIN BaseOf = {"b", "o", "x", "B", "O", "X"}
<1> DEFINE V(c) ==
             CASE c = "0" -> 0 [] c = "1" -> 1 [] c = "2" -> 2 [] c = "3" -> 3 [] c = "4" -> 4
               [] c = "5" -> 5 [] c = "6" -> 6 [] c = "7" -> 7 [] c = "8" -> 8 [] c = "9" -> 9
               [] c \in {"a", "A"} -> 10 [] c \in {"b", "B"} -> 11 [] c \in {"c", "C"} -> 12
               [] c \in {"d", "D"} -> 13 [] c \in {"e", "E"} -> 14 [] c \in {"f", "F"} -> 15
           K(c) == CASE c \in {"b", "B"} -> 2 [] c \in {"o", "O"} -> 8 [] c \in {"x", "X"} -> 16
           digits == {"0", "1", "2", "3", "4", "5", "6", "7", "8", "9",
                      "a", "b", "c", "d", "e", "f", "A", "B", "C", "D", "E", "F"}
<1>1. DigitValue = [c \in digits |-> V(c)] BY DEF DigitValue
<1>2. /\ V("0") = 0 /\ V("1") = 1 /\ V("2") = 2 /\ V("3") = 3 /\ V("4") = 4
      /\ V("5") = 5 /\ V("6") = 6 /\ V("7") = 7 /\ V("8") = 8 /\ V("9") = 9
      /\ V("a") = 10 /\ V("A") = 10 /\ V("b") = 11 /\ V("B") = 11 /\ V("c") = 12 /\ V("C") = 12
      /\ V("d") = 13 /\ V("D") = 13 /\ V("e") = 14 /\ V("E") = 14 /\ V("f") = 15 /\ V("F") = 15
  OBVIOUS
<1>3. BaseOf = [c \in {"b", "o", "x", "B", "O", "X"} |-> K(c)] BY DEF BaseOf
<1> HIDE DEF V, K
<1>4. DOMAIN DigitValue = digits BY <1>1
<1>5. DigitsOf(10) = {"0", "1", "2", "3", "4", "5", "6", "7", "8", "9"}
  BY <1>1, <1>2 DEF DigitsOf
<1> QED BY <1>3, <1>4, <1>5 DEF DigitsOf

LEMMA UnsignedSeq == ASSUME NEW C, NEW t \in Seq(C) PROVE Unsigned(t) \in Seq(C)
  BY DEF Unsigned, Signed

LEMMA FromSeq == ASSUME NEW C, NEW n \in Seq(C), NEW i \in Nat, 1 <= i
                 PROVE  /\ From(n, i) \in Seq(C)
                        /\ Len(From(n, i)) = (IF i <= Len(n) THEN Len(n) - i + 1 ELSE 0)
                        /\ \A k \in 1 .. Len(n) - i + 1 : From(n, i)[k] = n[i + k - 1]
  BY DEF From

\* What a run of digits with underscores between them is.
LEMMA Digits ==
  ASSUME NEW C, NEW n \in Seq(C), NEW digits, Underscore \notin digits
  PROVE  OnlyOf(n, digits \cup {Underscore}) /\ Underscored(n, digits) <=> TomlDigits(n, digits)
<1>0. Len(n) \in Nat /\ DOMAIN n = 1 .. Len(n) /\ (n # << >> <=> Len(n) >= 1)
  OBVIOUS
<1>1. ASSUME OnlyOf(n, digits \cup {Underscore}), Underscored(n, digits)
      PROVE  TomlDigits(n, digits)
  <2>1. n # << >> /\ Len(n) \in Nat /\ Len(n) >= 1 BY <1>0, <1>1 DEF Underscored
  <2>2. \A i \in 1 .. Len(n) : n[i] = Underscore =>
          i \in 2 .. Len(n) - 1 /\ n[i - 1] \in digits /\ n[i + 1] \in digits
    BY <1>0, <1>1 DEF Underscored
  <2>3. \A i \in 1 .. Len(n) : n[i] \in digits \/ n[i] = Underscore BY <1>0, <1>1 DEF OnlyOf
  <2>4. n[1] \in digits /\ n[Len(n)] \in digits BY <2>1, <2>2, <2>3
  <2>5. \A i \in 1 .. Len(n) - 1 : n[i] \in digits \/ n[i + 1] \in digits
    BY <2>1, <2>2, <2>3
  <2> QED BY <1>1, <2>1, <2>4, <2>5 DEF TomlDigits
<1>2. ASSUME TomlDigits(n, digits)
      PROVE  OnlyOf(n, digits \cup {Underscore}) /\ Underscored(n, digits)
  <2>1. n # << >> /\ Len(n) \in Nat /\ Len(n) >= 1 BY <1>0, <1>2 DEF TomlDigits
  <2>2. n[1] \in digits /\ n[Len(n)] \in digits BY <1>0, <1>2 DEF TomlDigits
  <2>3. \A i \in 1 .. Len(n) - 1 : n[i] \in digits \/ n[i + 1] \in digits
    BY <1>0, <1>2 DEF TomlDigits
  <2>4. ASSUME NEW i \in 1 .. Len(n), n[i] = Underscore
        PROVE  i \in 2 .. Len(n) - 1 /\ n[i - 1] \in digits /\ n[i + 1] \in digits
    <3>1. i # 1 /\ i # Len(n) BY <2>2, <2>4
    <3>2. i - 1 \in 1 .. Len(n) - 1 /\ i \in 1 .. Len(n) - 1 /\ (i - 1) + 1 = i
      BY <3>1, <2>1
    <3> QED BY <2>3, <2>4, <3>1, <3>2
  <2> QED BY <1>0, <1>2, <2>1, <2>4 DEF TomlDigits, Underscored
<1> QED BY <1>1, <1>2

\* What classifyBareValue takes for an integer with a prefix.
IsPrefixed(t) == /\ ~Signed(t) /\ Prefixed(Unsigned(t))
                 /\ TomlDigits(From(Unsigned(t), 3), DigitsOf(BaseOf[Unsigned(t)[2]]))

LEMMA NoUnderscore == ASSUME NEW b PROVE Underscore \notin DigitsOf(b)
<1>1. Underscore \notin {"0", "1", "2", "3", "4", "5", "6", "7", "8", "9",
                          "a", "b", "c", "d", "e", "f", "A", "B", "C", "D", "E", "F"}
  BY Zenon DEF Underscore
<1> QED BY <1>1, Decimals, Zenon

LEMMA DecimalIs ==
  ASSUME NEW C, NEW n \in Seq(C)
  PROVE  /\ ~ZeroLed(n) /\ OnlyOf(n, DigitsOf(10) \cup {Underscore}) /\ Underscored(n, DigitsOf(10))
              <=> TomlDecimal(n)
         /\ TomlDecimal(n) => ~Prefixed(n) /\ n # << >>
<1> DEFINE ten == DigitsOf(10)
<1>0. Len(n) \in Nat /\ DOMAIN n = 1 .. Len(n) /\ (n # << >> <=> Len(n) >= 1)
  OBVIOUS
<1>1. ten = {"0", "1", "2", "3", "4", "5", "6", "7", "8", "9"} BY Decimals
<1>2. OnlyOf(n, ten \cup {Underscore}) /\ Underscored(n, ten) <=> TomlDigits(n, ten)
  BY Digits, NoUnderscore
<1>3. ASSUME TomlDigits(n, ten) PROVE ~ZeroLed(n) <=> (n[1] = "0" => Len(n) = 1)
  <2>1. Len(n) \in Nat /\ Len(n) >= 1 BY <1>0, <1>3 DEF TomlDigits
  <2>2. Len(n) > 1 => n[2] \in ten \cup {Underscore} BY <1>0, <1>3, <2>1 DEF TomlDigits, OnlyOf
  <2>0. PICK L \in Nat : L = Len(n) OBVIOUS
  <2>3. (Len(n) > 1 => Len(n) # 1) /\ (Len(n) # 1 => Len(n) > 1) BY <2>0, <2>1
  <2>4. ZeroLed(n) <=> Len(n) > 1 /\ n[1] = "0" /\ n[2] \in ten \cup {Underscore}
    BY Zenon DEF ZeroLed
  <2> QED BY <2>2, <2>3, <2>4, Zenon
<1>4. TomlDecimal(n) => ~Prefixed(n) /\ n # << >>
  BY DEF TomlDecimal, TomlDigits, Prefixed
<1> HIDE DEF ten
<1>5. TomlDecimal(n) <=> TomlDigits(n, ten) /\ (n[1] = "0" => Len(n) = 1)
  BY DEF TomlDecimal, ten
<1> QED BY <1>2, <1>3, <1>4, <1>5 DEF ten

LEMMA IntegerIs ==
  ASSUME NEW C, NEW t \in Seq(C)
  PROVE  /\ isIntCandidate(t) <=> TomlDecimal(Unsigned(t)) \/ IsPrefixed(t)
         /\ TomlInteger(t) <=> isIntCandidate(t) /\ ~hasCapitalNumericPrefix(t)
<1> DEFINE n == Unsigned(t)
<1>0. n \in Seq(C) BY UnsignedSeq
<1>9. Len(n) \in Nat /\ (n # << >> <=> Len(n) >= 1) BY <1>0
<1>1. CASE Prefixed(n)
  <2> DEFINE d == DigitsOf(BaseOf[n[2]])
             m == From(n, 3)
  <2>1. Underscore \notin d BY NoUnderscore
  <2>2. m \in Seq(C) BY <1>0, FromSeq
  <2>3. OnlyOf(m, d \cup {Underscore}) /\ Underscored(m, d) <=> TomlDigits(m, d)
    <3> HIDE DEF d, m
    <3> QED BY <2>1, <2>2, Digits
  <2>4. n # << >> /\ ~TomlDecimal(n)
    <3> HIDE DEF n
    <3>1. n # << >> BY <1>9, <1>1 DEF Prefixed
    <3> QED BY <3>1, <1>0, <1>1, DecimalIs
  <2>5. isIntCandidate(t) <=> ~Signed(t) /\ TomlDigits(m, d)
    BY <1>1, <2>3, <2>4 DEF isIntCandidate
  <2>6. IsPrefixed(t) <=> ~Signed(t) /\ TomlDigits(m, d) BY <1>1 DEF IsPrefixed
  <2>7. TomlInteger(t) <=> ~Signed(t) /\ TomlDigits(m, d) /\ n[2] \in {"b", "o", "x"}
    BY <1>1, <2>4 DEF TomlInteger
  <2>8. hasCapitalNumericPrefix(t) <=> n[2] \notin {"b", "o", "x"}
    BY <1>0, <1>1, Decimals DEF hasCapitalNumericPrefix, Prefixed
  <2> QED BY <2>4, <2>5, <2>6, <2>7, <2>8
<1>2. CASE ~Prefixed(n)
  <2>1. isIntCandidate(t) <=> n # << >> /\ TomlDecimal(n)
    BY <1>0, <1>2, DecimalIs DEF isIntCandidate
  <2>2. TomlDecimal(n) => n # << >> BY <1>0, DecimalIs
  <2>3. ~IsPrefixed(t) BY <1>2 DEF IsPrefixed
  <2>4. TomlInteger(t) <=> TomlDecimal(n) BY <1>2 DEF TomlInteger
  <2>5. TomlDecimal(n) => ~hasCapitalNumericPrefix(t)
    <3> SUFFICES ASSUME TomlDecimal(n), Len(n) > 1, n[1] = "0" PROVE FALSE
      BY DEF hasCapitalNumericPrefix
    <3>1. PICK L \in Nat : L = Len(n) BY <1>9
    <3>2. Len(n) = 1 BY Zenon DEF TomlDecimal
    <3> QED BY <3>1, <3>2
  <2> QED BY <2>1, <2>2, <2>3, <2>4, <2>5
<1> QED BY <1>1, <1>2

-----------------------------------------------------------------------------
(* Floats, by the positions of their parts.                                *)

LEMMA SubIs ==
  ASSUME NEW C, NEW n \in Seq(C), NEW a \in Nat, NEW b \in Nat, 1 <= a, b <= Len(n)
  PROVE  /\ SubSeq(n, a, b) \in Seq(C)
         /\ Len(SubSeq(n, a, b)) = (IF a <= b THEN b - a + 1 ELSE 0)
         /\ \A k \in 1 .. b - a + 1 : SubSeq(n, a, b)[k] = n[a + k - 1]
  OBVIOUS

\* Characters a to b of n are digits and underscores between them.
Run(n, a, b) ==
  /\ a <= b /\ n[a] \in DigitsOf(10) /\ n[b] \in DigitsOf(10)
  /\ \A k \in a .. b : n[k] \in DigitsOf(10) \cup {Underscore}
  /\ \A k \in a .. b - 1 : n[k] \in DigitsOf(10) \/ n[k + 1] \in DigitsOf(10)

LEMMA RunIs ==
  ASSUME NEW C, NEW n \in Seq(C), NEW a \in Nat, NEW b \in Nat, 1 <= a, b <= Len(n)
  PROVE  TomlDigits(SubSeq(n, a, b), DigitsOf(10)) <=> Run(n, a, b)
<1> DEFINE m == SubSeq(n, a, b)
           ten == DigitsOf(10)
<1>1. /\ m \in Seq(C) /\ Len(m) = (IF a <= b THEN b - a + 1 ELSE 0)
      /\ \A k \in 1 .. b - a + 1 : m[k] = n[a + k - 1]
  BY SubIs
<1> HIDE DEF m, ten
<1>2. Len(m) \in Nat /\ DOMAIN m = 1 .. Len(m) /\ (m # << >> <=> Len(m) >= 1)
  BY <1>1
<1>3. ASSUME a > b PROVE ~TomlDigits(m, ten) /\ ~Run(n, a, b)
  BY <1>1, <1>2, <1>3 DEF TomlDigits, Run
<1>4. ASSUME a <= b PROVE TomlDigits(m, ten) <=> Run(n, a, b)
  <2>1. Len(m) = b - a + 1 /\ Len(m) >= 1 BY <1>1, <1>4
  <2>2. m[1] = n[a] /\ m[Len(m)] = n[b] BY <1>1, <2>1
  <2>3. OnlyOf(m, ten \cup {Underscore}) <=> \A k \in a .. b : n[k] \in ten \cup {Underscore}
    <3>1. ASSUME OnlyOf(m, ten \cup {Underscore}), NEW k \in a .. b PROVE n[k] \in ten \cup {Underscore}
      <4>1. k - a + 1 \in 1 .. b - a + 1 /\ a + (k - a + 1) - 1 = k BY <3>1
      <4>2. m[k - a + 1] = n[k] BY <1>1, <4>1
      <4>3. m[k - a + 1] \in ten \cup {Underscore} BY <3>1, <4>1, <1>2, <2>1 DEF OnlyOf
      <4> QED BY <4>2, <4>3
    <3>2. ASSUME \A k \in a .. b : n[k] \in ten \cup {Underscore}, NEW k \in 1 .. b - a + 1
          PROVE m[k] \in ten \cup {Underscore}
      <4>1. a + k - 1 \in a .. b BY <3>2
      <4> QED BY <1>1, <3>2, <4>1
    <3> QED BY <3>1, <3>2, <1>2, <2>1 DEF OnlyOf
  <2>4. (\A i \in 1 .. Len(m) - 1 : m[i] \in ten \/ m[i + 1] \in ten)
          <=> \A k \in a .. b - 1 : n[k] \in ten \/ n[k + 1] \in ten
    <3>1. ASSUME \A i \in 1 .. Len(m) - 1 : m[i] \in ten \/ m[i + 1] \in ten, NEW k \in a .. b - 1
          PROVE  n[k] \in ten \/ n[k + 1] \in ten
      <4>1. /\ k - a + 1 \in 1 .. b - a + 1 /\ a + (k - a + 1) - 1 = k
            /\ (k - a + 1) + 1 \in 1 .. b - a + 1 /\ a + ((k - a + 1) + 1) - 1 = k + 1
            /\ k - a + 1 \in 1 .. Len(m) - 1
        BY <2>1
      <4>2. m[k - a + 1] = n[k] /\ m[(k - a + 1) + 1] = n[k + 1] BY <1>1, <4>1
      <4>3. m[k - a + 1] \in ten \/ m[(k - a + 1) + 1] \in ten BY <3>1, <4>1
      <4> QED BY <4>2, <4>3
    <3>2. ASSUME \A k \in a .. b - 1 : n[k] \in ten \/ n[k + 1] \in ten, NEW i \in 1 .. Len(m) - 1
          PROVE  m[i] \in ten \/ m[i + 1] \in ten
      <4>1. /\ a + i - 1 \in a .. b - 1 /\ i \in 1 .. b - a + 1 /\ i + 1 \in 1 .. b - a + 1
            /\ a + (i + 1) - 1 = (a + i - 1) + 1
        BY <2>1
      <4>2. m[i] = n[a + i - 1] /\ m[i + 1] = n[(a + i - 1) + 1] BY <1>1, <4>1
      <4>3. n[a + i - 1] \in ten \/ n[(a + i - 1) + 1] \in ten BY <3>2, <4>1
      <4> QED BY <4>2, <4>3
    <3> QED BY <3>1, <3>2
  <2>5. TomlDigits(m, ten) <=> /\ m[1] \in ten /\ m[Len(m)] \in ten /\ OnlyOf(m, ten \cup {Underscore})
                               /\ \A i \in 1 .. Len(m) - 1 : m[i] \in ten \/ m[i + 1] \in ten
    BY <1>2, <2>1 DEF TomlDigits
  <2>6. Run(n, a, b) <=> /\ n[a] \in ten /\ n[b] \in ten
                         /\ \A k \in a .. b : n[k] \in ten \cup {Underscore}
                         /\ \A k \in a .. b - 1 : n[k] \in ten \/ n[k + 1] \in ten
    BY <1>4 DEF Run, ten
  <2> QED BY <2>2, <2>3, <2>4, <2>5, <2>6, Zenon
<1> QED BY <1>3, <1>4 DEF m, ten

\* The integer part of a float that ends before i.
Whole(n, i) == Run(n, 1, i - 1) /\ (n[1] = "0" => i = 2)

LEMMA WholeIs ==
  ASSUME NEW C, NEW n \in Seq(C), NEW i \in 1 .. Len(n)
  PROVE  TomlDecimal(SubSeq(n, 1, i - 1)) <=> Whole(n, i)
<1> DEFINE m == SubSeq(n, 1, i - 1)
<1>0. i - 1 \in Nat /\ i - 1 <= Len(n) /\ 1 \in Nat OBVIOUS
<1>1. TomlDigits(m, DigitsOf(10)) <=> Run(n, 1, i - 1)
  BY <1>0, RunIs
<1>2. /\ Len(m) = (IF 1 <= i - 1 THEN i - 1 - 1 + 1 ELSE 0)
      /\ \A k \in 1 .. i - 1 - 1 + 1 : m[k] = n[1 + k - 1]
  BY <1>0, SubIs
<1> HIDE DEF m
<1>3. Run(n, 1, i - 1) => 1 <= i - 1 BY DEF Run
<1>4. ASSUME 1 <= i - 1 PROVE m[1] = n[1] /\ (Len(m) = 1 <=> i = 2)
  <2>1. Len(m) = i - 1 BY <1>2, <1>4
  <2>2. 1 \in 1 .. i - 1 - 1 + 1 /\ 1 + 1 - 1 = 1 BY <1>4
  <2>3. m[1] = n[1] BY <1>2, <2>2
  <2>4. i \in Int OBVIOUS
  <2> QED BY <2>1, <2>3, <2>4
<1>5. TomlDecimal(m) <=> TomlDigits(m, DigitsOf(10)) /\ (m[1] = "0" => Len(m) = 1)
  BY Zenon DEF TomlDecimal
<1>6. TomlDecimal(m) <=> Whole(n, i)
  BY <1>1, <1>3, <1>4, <1>5, Zenon DEF Whole
<1> QED BY <1>6 DEF m

\* The exponent of a float whose e is at i.
Power(n, i) ==
  /\ n[i] \in {"e", "E"}
  /\ \/ Run(n, i + 1, Len(n))
     \/ n[i + 1] \in {"+", "-"} /\ i + 1 <= Len(n) /\ Run(n, i + 2, Len(n))

LEMMA TailOf ==
  ASSUME NEW C, NEW n \in Seq(C), NEW a \in Nat, NEW b \in Nat, 1 <= a, a <= b, b <= Len(n)
  PROVE  Tail(SubSeq(n, a, b)) = SubSeq(n, a + 1, b)
  OBVIOUS

LEMMA SubEmpty ==
  ASSUME NEW C, NEW n \in Seq(C), NEW a \in Nat, NEW b \in Nat, 1 <= a, b <= Len(n)
  PROVE  /\ a > b => SubSeq(n, a, b) = << >>
         /\ a <= b => SubSeq(n, a, b) # << >> /\ SubSeq(n, a, b)[1] = n[a]
<1> DEFINE m == SubSeq(n, a, b)
<1>1. /\ m \in Seq(C) /\ Len(m) = (IF a <= b THEN b - a + 1 ELSE 0)
      /\ \A k \in 1 .. b - a + 1 : m[k] = n[a + k - 1]
  BY SubIs
<1> HIDE DEF m
<1>2. ASSUME a > b PROVE m = << >>
  <2>1. Len(m) = 0 BY <1>1, <1>2
  <2> QED BY <1>1, <2>1
<1>3. ASSUME a <= b PROVE m # << >> /\ m[1] = n[a]
  <2>1. Len(m) = b - a + 1 /\ Len(m) > 0 BY <1>1, <1>3
  <2>2. 1 \in 1 .. b - a + 1 /\ a + 1 - 1 = a BY <1>3
  <2>3. m[1] = n[a] BY <1>1, <2>2
  <2> QED BY <1>1, <2>1, <2>3
<1> QED BY <1>2, <1>3 DEF m

\* What is left of a text behind its sign.
LEMMA UnsignedOf ==
  ASSUME NEW C, NEW n \in Seq(C), NEW a \in Nat, 1 <= a, a <= Len(n) + 1
  PROVE  Unsigned(SubSeq(n, a, Len(n)))
            = (IF a <= Len(n) /\ n[a] \in {"+", "-"} THEN SubSeq(n, a + 1, Len(n))
                                                       ELSE SubSeq(n, a, Len(n)))
<1> DEFINE m == SubSeq(n, a, Len(n))
<1>1. PICK L \in Nat : L = Len(n) OBVIOUS
<1>2. (a > Len(n) => m = << >>) /\ (a <= Len(n) => m # << >>)
  <2>1. Len(n) \in Nat /\ Len(n) <= Len(n) OBVIOUS
  <2> QED BY <2>1, SubEmpty, Zenon
<1>3. a <= Len(n) => m[1] = n[a] /\ Tail(m) = SubSeq(n, a + 1, Len(n))
  BY <1>1, SubEmpty, TailOf
<1>4. (a <= Len(n)) \/ (a > Len(n)) BY <1>1
<1> HIDE DEF m
<1>5. Signed(m) <=> a <= Len(n) /\ n[a] \in {"+", "-"}
  BY <1>2, <1>3, <1>4, Zenon DEF Signed
<1>6. Unsigned(m) = IF Signed(m) THEN Tail(m) ELSE m BY DEF Unsigned
<1>7. Unsigned(m) = IF a <= Len(n) /\ n[a] \in {"+", "-"} THEN SubSeq(n, a + 1, Len(n)) ELSE m
  BY <1>3, <1>5, <1>6, Zenon
<1> QED BY <1>2, <1>7 DEF m

LEMMA Chars ==
  /\ \A c \in DigitsOf(10) : c # "." /\ c \notin {"e", "E"} /\ c \notin {"+", "-"} /\ c # Underscore
  /\ Underscore # "." /\ Underscore \notin {"e", "E"} /\ Underscore \notin {"+", "-"}
  /\ Underscore # "0" /\ "0" \in DigitsOf(10)
<1>1. /\ Underscore # "." /\ Underscore \notin {"e", "E"} /\ Underscore \notin {"+", "-"}
      /\ Underscore # "0"
  BY Zenon DEF Underscore
<1>2. \A c \in {"0", "1", "2", "3", "4", "5", "6", "7", "8", "9"} : c # "." /\ c \notin {"e", "E"} /\ c \notin {"+", "-"}
  OBVIOUS
<1>3. \A c \in DigitsOf(10) : c # "." /\ c \notin {"e", "E"} /\ c \notin {"+", "-"}
  BY <1>2, Decimals, Zenon
<1>4. "0" \in DigitsOf(10) BY Decimals
<1> QED BY <1>1, <1>3, <1>4, NoUnderscore, Zenon

LEMMA PowerIs ==
  ASSUME NEW C, NEW n \in Seq(C), NEW i \in 1 .. Len(n)
  PROVE  TomlExponent(From(n, i)) <=> Power(n, i)
<1> DEFINE m == SubSeq(n, i, Len(n))
           r == SubSeq(n, i + 1, Len(n))
<1>1. m # << >> /\ m[1] = n[i] /\ Tail(m) = r
  <2>1. i \in Nat /\ Len(n) \in Nat /\ 1 <= i /\ i <= Len(n) /\ Len(n) <= Len(n) OBVIOUS
  <2> QED BY <2>1, SubEmpty, TailOf
<1>2. i + 1 \in Nat /\ 1 <= i + 1 /\ i + 1 <= Len(n) + 1 /\ (i + 1) + 1 = i + 2
  OBVIOUS
<1>3. Unsigned(r) = IF i + 1 <= Len(n) /\ n[i + 1] \in {"+", "-"} THEN SubSeq(n, i + 2, Len(n)) ELSE r
  BY <1>2, UnsignedOf
<1>4. TomlExponent(m) <=> n[i] \in {"e", "E"} /\ TomlDigits(Unsigned(r), DigitsOf(10))
  BY <1>1, Zenon DEF TomlExponent
<1>5. TomlDigits(r, DigitsOf(10)) <=> Run(n, i + 1, Len(n))
  BY <1>2, RunIs
<1>6. TomlDigits(SubSeq(n, i + 2, Len(n)), DigitsOf(10)) <=> Run(n, i + 2, Len(n))
  BY <1>2, RunIs
<1>7. Run(n, i + 1, Len(n)) => i + 1 <= Len(n) /\ n[i + 1] \notin {"+", "-"}
  BY Chars DEF Run
<1> HIDE DEF m, r
<1>8. CASE i + 1 <= Len(n) /\ n[i + 1] \in {"+", "-"}
  BY <1>3, <1>4, <1>6, <1>7, <1>8, Zenon DEF Power, From, m
<1>9. CASE ~(i + 1 <= Len(n) /\ n[i + 1] \in {"+", "-"})
  BY <1>3, <1>4, <1>5, <1>9, Zenon DEF Power, From, m
<1> QED BY <1>8, <1>9

\* The text of a float, by the places of its point and its e.
Float(n) ==
  \E i \in 1 .. Len(n) :
    /\ Whole(n, i)
    /\ \/ Power(n, i)
       \/ /\ n[i] = "."
          /\ \E j \in i + 1 .. Len(n) + 1 : /\ Run(n, i + 1, j - 1)
                                            /\ j <= Len(n) => Power(n, j)

LEMMA TomlFloatIs ==
  ASSUME NEW C, NEW t \in Seq(C)
  PROVE  TomlFloat(t) <=> Float(Unsigned(t))
<1> DEFINE n == Unsigned(t)
<1>0. n \in Seq(C) BY UnsignedSeq
<1>1. ASSUME NEW i \in 1 .. Len(n), NEW j \in i + 1 .. Len(n) + 1
      PROVE  /\ TomlDigits(SubSeq(n, i + 1, j - 1), DigitsOf(10)) <=> Run(n, i + 1, j - 1)
             /\ j <= Len(n) => (TomlExponent(From(n, j)) <=> Power(n, j))
  <2> HIDE DEF n
  <2>0. Len(n) \in Nat BY <1>0
  <2>1. i + 1 \in Nat /\ j - 1 \in Nat /\ 1 <= i + 1 /\ j - 1 <= Len(n) BY <2>0
  <2>2. TomlDigits(SubSeq(n, i + 1, j - 1), DigitsOf(10)) <=> Run(n, i + 1, j - 1)
    BY <1>0, <2>1, RunIs
  <2>3. j <= Len(n) => j \in 1 .. Len(n) BY <2>0
  <2> QED BY <1>0, <2>2, <2>3, PowerIs
<1>2. ASSUME NEW i \in 1 .. Len(n)
      PROVE  /\ TomlDecimal(SubSeq(n, 1, i - 1)) <=> Whole(n, i)
             /\ TomlExponent(From(n, i)) <=> Power(n, i)
  <2> HIDE DEF n
  <2> QED BY <1>0, WholeIs, PowerIs
<1>3. DOMAIN n = 1 .. Len(n) BY <1>0
<1>4. TomlFloat(t) <=>
        \E i \in 1 .. Len(n) :
          /\ TomlDecimal(SubSeq(n, 1, i - 1))
          /\ \/ TomlExponent(From(n, i))
             \/ /\ n[i] = "."
                /\ \E j \in i + 1 .. Len(n) + 1 :
                     /\ TomlDigits(SubSeq(n, i + 1, j - 1), DigitsOf(10))
                     /\ j <= Len(n) => TomlExponent(From(n, j))
  BY <1>3, Zenon DEF TomlFloat
<1> HIDE DEF n
<1>5. ASSUME NEW i \in 1 .. Len(n)
      PROVE  (\E j \in i + 1 .. Len(n) + 1 :
                     /\ TomlDigits(SubSeq(n, i + 1, j - 1), DigitsOf(10))
                     /\ j <= Len(n) => TomlExponent(From(n, j)))
             <=> \E j \in i + 1 .. Len(n) + 1 : Run(n, i + 1, j - 1) /\ (j <= Len(n) => Power(n, j))
  BY <1>1, Zenon
<1>6. TomlFloat(t) <=> Float(n)
  BY <1>2, <1>4, <1>5, Zenon DEF Float
<1> QED BY <1>6 DEF n

\* isFloatCandidate, by positions.
Candidate(n) ==
  /\ 1 <= Len(n) /\ ~ZeroLed(n)
  /\ \A i \in 1 .. Len(n) :
       /\ n[i] \in DigitsOf(10) \cup {".", "e", "E", "+", "-", Underscore}
       /\ n[i] = "." => i > 1 /\ i < Len(n) /\ n[i + 1] \in DigitsOf(10)
       /\ n[i] \in {"+", "-"} => i > 1 /\ n[i - 1] \in {"e", "E"}
       /\ n[i] = Underscore => /\ i > 1 /\ i < Len(n)
                               /\ n[i - 1] \in DigitsOf(10) /\ n[i + 1] \in DigitsOf(10)
  /\ \A i, j \in 1 .. Len(n) : n[i] = "." /\ n[j] = "." => i = j
  /\ \A i, j \in 1 .. Len(n) : n[i] \in {"e", "E"} /\ n[j] \in {"e", "E"} => i = j
  /\ \E i \in 1 .. Len(n) : n[i] \in {".", "e", "E"}

LEMMA CandidateIs ==
  ASSUME NEW C, NEW t \in Seq(C)
  PROVE  isFloatCandidate(t) <=> Candidate(Unsigned(t))
<1> DEFINE n == Unsigned(t)
           At(s) == {i \in 1 .. Len(n) : n[i] \in s}
           F == /\ n # << >> /\ ~ZeroLed(n)
                /\ OnlyOf(n, DigitsOf(10) \cup {".", "e", "E", "+", "-", Underscore})
                /\ \A i \in At({"."}) : i \in 2 .. Len(n) - 1 /\ n[i + 1] \in DigitsOf(10)
                /\ \A i, j \in At({"."}) : i = j
                /\ \A i, j \in At({"e", "E"}) : i = j
                /\ \A i \in At({"+", "-"}) : i > 1 /\ n[i - 1] \in {"e", "E"}
                /\ At({".", "e", "E"}) # {}
                /\ Underscored(n, DigitsOf(10))
<1>0. n \in Seq(C) BY UnsignedSeq
<1>1. DOMAIN n = 1 .. Len(n) BY <1>0
<1>2. isFloatCandidate(t) <=> F
  BY <1>1, Zenon DEF isFloatCandidate
<1> HIDE DEF n
<1>3. Len(n) \in Nat /\ (n # << >> <=> 1 <= Len(n)) BY <1>0
<1>4. \A i \in 1 .. Len(n) : i \in 2 .. Len(n) - 1 <=> i > 1 /\ i < Len(n)
  BY <1>3
<1>5. OnlyOf(n, DigitsOf(10) \cup {".", "e", "E", "+", "-", Underscore}) <=>
        \A i \in 1 .. Len(n) : n[i] \in DigitsOf(10) \cup {".", "e", "E", "+", "-", Underscore}
  BY <1>1, Zenon DEF OnlyOf
<1>6. Underscored(n, DigitsOf(10)) <=>
        /\ n # << >>
        /\ \A i \in 1 .. Len(n) :
             n[i] = Underscore => /\ i > 1 /\ i < Len(n)
                                  /\ n[i - 1] \in DigitsOf(10) /\ n[i + 1] \in DigitsOf(10)
  <2>1. \A i \in 1 .. Len(n) : {n[i - 1], n[i + 1]} \subseteq DigitsOf(10)
                                 <=> n[i - 1] \in DigitsOf(10) /\ n[i + 1] \in DigitsOf(10)
    OBVIOUS
  <2> QED BY <1>1, <1>4, <2>1, Zenon DEF Underscored
<1>7. (\A i \in At({"."}) : i \in 2 .. Len(n) - 1 /\ n[i + 1] \in DigitsOf(10)) <=>
        \A i \in 1 .. Len(n) : n[i] = "." => i > 1 /\ i < Len(n) /\ n[i + 1] \in DigitsOf(10)
  BY <1>4, Zenon
<1>8. (\A i \in At({"+", "-"}) : i > 1 /\ n[i - 1] \in {"e", "E"}) <=>
        \A i \in 1 .. Len(n) : n[i] \in {"+", "-"} => i > 1 /\ n[i - 1] \in {"e", "E"}
  BY Zenon
<1>9. (\A i, j \in At({"."}) : i = j) <=>
        \A i, j \in 1 .. Len(n) : n[i] = "." /\ n[j] = "." => i = j
  BY Zenon
<1>10. (\A i, j \in At({"e", "E"}) : i = j) <=>
        \A i, j \in 1 .. Len(n) : n[i] \in {"e", "E"} /\ n[j] \in {"e", "E"} => i = j
  BY Zenon
<1>11. At({".", "e", "E"}) # {} <=> \E i \in 1 .. Len(n) : n[i] \in {".", "e", "E"}
  OBVIOUS
<1> HIDE DEF At
<1>12. F <=> Candidate(n)
  BY <1>3, <1>5, <1>6, <1>7, <1>8, <1>9, <1>10, <1>11, Zenon DEF Candidate
<1> QED BY <1>2, <1>12 DEF n

\* What FloatShape says of the characters before b and of those behind an e at i.
Mantissa(n, b) == /\ \A k \in 1 .. b : n[k] \in DigitsOf(10) \cup {Underscore} \/ n[k] = "."
                  /\ \E k \in 1 .. b : n[k] \in DigitsOf(10)
DigitsFrom(n, s) == s <= Len(n) /\ \A k \in s .. Len(n) : n[k] \in DigitsOf(10) \cup {Underscore}
Exponent(n, i) == IF i + 1 <= Len(n) /\ n[i + 1] \in {"+", "-"} THEN DigitsFrom(n, i + 2)
                                                                ELSE DigitsFrom(n, i + 1)

MantissaText(m) == /\ OnlyOf(m, (DigitsOf(10) \cup {Underscore}) \cup {"."})
                   /\ \E i \in DOMAIN m : m[i] \in DigitsOf(10)

LEMMA MantissaIs ==
  ASSUME NEW C, NEW n \in Seq(C), NEW b \in Nat, b <= Len(n)
  PROVE  MantissaText(SubSeq(n, 1, b)) <=> Mantissa(n, b)
<1> DEFINE m == SubSeq(n, 1, b)
<1>1. m \in Seq(C) /\ Len(m) = b /\ \A k \in 1 .. b : m[k] = n[k]
  OBVIOUS
<1> HIDE DEF m
<1>2. DOMAIN m = 1 .. b BY <1>1
<1>3. OnlyOf(m, (DigitsOf(10) \cup {Underscore}) \cup {"."}) <=>
        \A k \in 1 .. b : n[k] \in DigitsOf(10) \cup {Underscore} \/ n[k] = "."
  BY <1>1, <1>2, Zenon DEF OnlyOf
<1>4. (\E i \in DOMAIN m : m[i] \in DigitsOf(10)) <=> \E k \in 1 .. b : n[k] \in DigitsOf(10)
  BY <1>1, <1>2, Zenon
<1> QED BY <1>3, <1>4, Zenon DEF Mantissa, MantissaText, m

LEMMA DigitsFromIs ==
  ASSUME NEW C, NEW n \in Seq(C), NEW s \in Nat, 1 <= s
  PROVE  (/\ SubSeq(n, s, Len(n)) # << >>
          /\ OnlyOf(SubSeq(n, s, Len(n)), DigitsOf(10) \cup {Underscore}))
         <=> DigitsFrom(n, s)
<1> DEFINE m == SubSeq(n, s, Len(n))
           D == DigitsOf(10) \cup {Underscore}
<1>0. Len(n) \in Nat /\ Len(n) <= Len(n) OBVIOUS
<1>1. /\ m \in Seq(C) /\ Len(m) = (IF s <= Len(n) THEN Len(n) - s + 1 ELSE 0)
      /\ \A k \in 1 .. Len(n) - s + 1 : m[k] = n[s + k - 1]
  BY <1>0, SubIs
<1>2. (m # << >> => s <= Len(n)) /\ (s <= Len(n) => m # << >>)
  <2>1. s <= Len(n) \/ s > Len(n) BY <1>0
  <2> QED BY <1>0, <2>1, SubEmpty, Zenon
<1> HIDE DEF m, D
<1>3. DOMAIN m = 1 .. Len(m) BY <1>1
<1>4. ASSUME s <= Len(n) PROVE OnlyOf(m, D) <=> \A k \in s .. Len(n) : n[k] \in D
  <2>1. Len(m) = Len(n) - s + 1 BY <1>1, <1>4
  <2>2. ASSUME OnlyOf(m, D), NEW k \in s .. Len(n) PROVE n[k] \in D
    <3>1. k - s + 1 \in 1 .. Len(n) - s + 1 /\ s + (k - s + 1) - 1 = k BY <1>0, <2>2
    <3>2. m[k - s + 1] = n[k] BY <1>1, <3>1
    <3>3. m[k - s + 1] \in D BY <2>2, <3>1, <2>1, <1>3 DEF OnlyOf
    <3> QED BY <3>2, <3>3
  <2>3. ASSUME \A k \in s .. Len(n) : n[k] \in D, NEW i \in DOMAIN m PROVE m[i] \in D
    <3>1. i \in 1 .. Len(n) - s + 1 BY <1>3, <2>1
    <3>2. s + i - 1 \in s .. Len(n) BY <1>0, <3>1
    <3> QED BY <1>1, <2>3, <3>1, <3>2
  <2> QED BY <2>2, <2>3, Zenon DEF OnlyOf
<1> QED BY <1>2, <1>4, Zenon DEF DigitsFrom, m, D

LEMMA ParsesIs ==
  ASSUME NEW C, NEW t \in Seq(C)
  PROVE  LET n == Unsigned(t) IN
         FloatShape(t) <=> \/ Mantissa(n, Len(n))
                            \/ \E i \in 1 .. Len(n) : /\ n[i] \in {"e", "E"}
                                                      /\ Mantissa(n, i - 1) /\ Exponent(n, i)
<1> DEFINE n == Unsigned(t)
           D == DigitsOf(10) \cup {Underscore}
           X(e) == e # << >> /\ Unsigned(e) # << >> /\ OnlyOf(Unsigned(e), D)
<1>0. n \in Seq(C) BY UnsignedSeq
<1>1. DOMAIN n = 1 .. Len(n) BY <1>0
<1>2. FloatShape(t) <=> \/ MantissaText(n)
                         \/ \E i \in 1 .. Len(n) : /\ n[i] \in {"e", "E"}
                                                   /\ MantissaText(SubSeq(n, 1, i - 1)) /\ X(From(n, i + 1))
  BY <1>1, Zenon DEF FloatShape, MantissaText
<1> HIDE DEF n
<1>3. MantissaText(n) <=> Mantissa(n, Len(n))
  <2>1. SubSeq(n, 1, Len(n)) = n /\ Len(n) \in Nat /\ Len(n) <= Len(n) BY <1>0
  <2> QED BY <1>0, <2>1, MantissaIs, Zenon
<1>4. ASSUME NEW i \in 1 .. Len(n) PROVE MantissaText(SubSeq(n, 1, i - 1)) <=> Mantissa(n, i - 1)
  <2>1. i - 1 \in Nat /\ i - 1 <= Len(n) BY <1>0
  <2> QED BY <1>0, <2>1, MantissaIs, Zenon
<1>5. ASSUME NEW i \in 1 .. Len(n) PROVE X(From(n, i + 1)) <=> Exponent(n, i)
  <2> DEFINE e == SubSeq(n, i + 1, Len(n))
             f == SubSeq(n, i + 2, Len(n))
  <2>1. /\ i + 1 \in Nat /\ 1 <= i + 1 /\ i + 1 <= Len(n) + 1 /\ (i + 1) + 1 = i + 2
        /\ i + 2 \in Nat /\ 1 <= i + 2 /\ Len(n) \in Nat /\ Len(n) <= Len(n)
    BY <1>0
  <2>2. Unsigned(e) = (IF i + 1 <= Len(n) /\ n[i + 1] \in {"+", "-"} THEN f ELSE e)
    BY <1>0, <2>1, UnsignedOf
  <2>3. f # << >> /\ OnlyOf(f, D) <=> DigitsFrom(n, i + 2)
    BY <1>0, <2>1, DigitsFromIs, Zenon
  <2>4. e # << >> /\ OnlyOf(e, D) <=> DigitsFrom(n, i + 1)
    BY <1>0, <2>1, DigitsFromIs, Zenon
  <2>5. i + 1 <= Len(n) => e # << >>
    BY <1>0, <2>1, SubEmpty, Zenon
  <2>6. From(n, i + 1) = e BY DEF From
  <2> HIDE DEF e, f, D
  <2> QED BY <2>2, <2>3, <2>4, <2>5, <2>6, Zenon DEF Exponent
<1> HIDE DEF X
<1> QED BY <1>2, <1>3, <1>4, <1>5, Zenon DEF n

\* Whatever isFloatCandidate lets pass has its digits in runs.
LEMMA RunBetween ==
  ASSUME NEW C, NEW n \in Seq(C), Candidate(n), NEW a \in 1 .. Len(n), NEW b \in 1 .. Len(n), a <= b,
         \A k \in a .. b : n[k] \in DigitsOf(10) \cup {Underscore},
         a = 1 \/ n[a - 1] \notin DigitsOf(10), b = Len(n) \/ n[b + 1] \notin DigitsOf(10)
  PROVE  Run(n, a, b)
<1> DEFINE ten == DigitsOf(10)
<1>0. PICK L \in Nat : L = Len(n) OBVIOUS
<1>1. \A k \in 1 .. L : n[k] = Underscore => k > 1 /\ k < L /\ n[k - 1] \in ten /\ n[k + 1] \in ten
  BY <1>0 DEF Candidate
<1>2. a \in 1 .. L /\ b \in 1 .. L BY <1>0
<1> HIDE DEF ten
<1>3. \A k \in a .. b : n[k] \in ten \/ n[k] = Underscore BY DEF ten
<1>4. (a = 1 \/ n[a - 1] \notin ten) /\ (b = L \/ n[b + 1] \notin ten) BY <1>0 DEF ten
<1>5. n[a] \in ten /\ n[b] \in ten BY <1>1, <1>2, <1>3, <1>4
<1>6. ASSUME NEW k \in a .. b - 1 PROVE n[k] \in ten \/ n[k + 1] \in ten
  <2>1. k \in 1 .. L /\ k \in a .. b BY <1>2
  <2> QED BY <1>1, <1>3, <2>1
<1> QED BY <1>3, <1>5, <1>6 DEF Run, ten

LEMMA WholeOf ==
  ASSUME NEW C, NEW n \in Seq(C), Candidate(n), NEW p \in 1 .. Len(n), p > 1,
         \A k \in 1 .. p - 1 : n[k] \in DigitsOf(10) \cup {Underscore}, n[p] \notin DigitsOf(10)
  PROVE  Whole(n, p)
<1>0. PICK L \in Nat : L = Len(n) OBVIOUS
<1>1. p - 1 \in 1 .. Len(n) /\ 1 \in 1 .. Len(n) /\ 1 <= p - 1 /\ (p - 1) + 1 = p BY <1>0
<1>2. Run(n, 1, p - 1) BY <1>1, RunBetween
<1>3. ASSUME n[1] = "0", p # 2 PROVE FALSE
  <2>1. 2 \in 1 .. p - 1 /\ Len(n) > 1 BY <1>0, <1>3
  <2>2. n[2] \in DigitsOf(10) \cup {Underscore} BY <2>1
  <2>3. ZeroLed(n) BY <1>3, <2>1, <2>2, Zenon DEF ZeroLed
  <2> QED BY <2>3 DEF Candidate
<1> QED BY <1>2, <1>3, Zenon DEF Whole

LEMMA PowerOf ==
  ASSUME NEW C, NEW n \in Seq(C), Candidate(n), NEW q \in 1 .. Len(n), n[q] \in {"e", "E"},
         Exponent(n, q)
  PROVE  Power(n, q)
<1>0. PICK L \in Nat : L = Len(n) OBVIOUS
<1>1. Len(n) = Len(n) OBVIOUS
<1>2. CASE q + 1 <= Len(n) /\ n[q + 1] \in {"+", "-"}
  <2>1. DigitsFrom(n, q + 2) BY <1>2, Zenon DEF Exponent
  <2>2. q + 2 <= Len(n) /\ \A k \in q + 2 .. Len(n) : n[k] \in DigitsOf(10) \cup {Underscore}
    BY <2>1, Zenon DEF DigitsFrom
  <2>3. q + 2 \in 1 .. Len(n) /\ Len(n) \in 1 .. Len(n) /\ (q + 2) - 1 = q + 1 BY <1>0, <2>2
  <2>4. n[(q + 2) - 1] \notin DigitsOf(10) BY <1>2, <2>3, Chars
  <2>5. Run(n, q + 2, Len(n)) BY <2>2, <2>3, <2>4, RunBetween
  <2> QED BY <1>2, <2>5, Zenon DEF Power
<1>3. CASE ~(q + 1 <= Len(n) /\ n[q + 1] \in {"+", "-"})
  <2>1. DigitsFrom(n, q + 1) BY <1>3, Zenon DEF Exponent
  <2>2. q + 1 <= Len(n) /\ \A k \in q + 1 .. Len(n) : n[k] \in DigitsOf(10) \cup {Underscore}
    BY <2>1, Zenon DEF DigitsFrom
  <2>3. q + 1 \in 1 .. Len(n) /\ Len(n) \in 1 .. Len(n) /\ (q + 1) - 1 = q BY <1>0, <2>2
  <2>4. n[(q + 1) - 1] \notin DigitsOf(10) BY <2>3, Chars
  <2>5. Run(n, q + 1, Len(n)) BY <2>2, <2>3, <2>4, RunBetween
  <2> QED BY <2>5, Zenon DEF Power
<1> QED BY <1>2, <1>3

Parsed10(n) == \/ Mantissa(n, Len(n))
               \/ \E i \in 1 .. Len(n) : n[i] \in {"e", "E"} /\ Mantissa(n, i - 1) /\ Exponent(n, i)

\* What the recogniser and strconv let pass is a float of TOML.
LEMMA FloatOf ==
  ASSUME NEW C, NEW n \in Seq(C), Candidate(n), Parsed10(n)
  PROVE  Float(n)
<1> DEFINE D == DigitsOf(10) \cup {Underscore}
<1>0. PICK L \in Nat : L = Len(n) OBVIOUS
<1>1. /\ \A i \in 1 .. Len(n) : n[i] = "." => i > 1 /\ i < Len(n) /\ n[i + 1] \in DigitsOf(10)
      /\ \A i, j \in 1 .. Len(n) : n[i] = "." /\ n[j] = "." => i = j
      /\ \E i \in 1 .. Len(n) : n[i] \in {".", "e", "E"}
  BY DEF Candidate
<1>2. CASE Mantissa(n, Len(n))
  <2>1. \A k \in 1 .. Len(n) : n[k] \in D \/ n[k] = "." BY <1>2, Zenon DEF Mantissa
  <2>2. PICK p \in 1 .. Len(n) : n[p] \in {".", "e", "E"} BY <1>1
  <2>3. n[p] = "." BY <2>1, <2>2, Chars
  <2>4. p > 1 /\ p < Len(n) BY <1>1, <2>3
  <2>5. \A k \in 1 .. Len(n) : k # p => n[k] \in D BY <1>1, <2>1, <2>3, Zenon
  <2>6. \A k \in 1 .. p - 1 : k \in 1 .. Len(n) /\ k # p BY <1>0
  <2>7. \A k \in p + 1 .. Len(n) : k \in 1 .. Len(n) /\ k # p BY <1>0
  <2>8. n[p] \notin DigitsOf(10) BY <2>3, Chars
  <2>9. Whole(n, p) BY <2>4, <2>5, <2>6, <2>8, WholeOf
  <2>10. /\ p + 1 \in 1 .. Len(n) /\ Len(n) \in 1 .. Len(n) /\ p + 1 <= Len(n) /\ (p + 1) - 1 = p
         /\ Len(n) + 1 \in p + 1 .. Len(n) + 1 /\ (Len(n) + 1) - 1 = Len(n)
    BY <1>0, <2>4
  <2>11. Run(n, p + 1, Len(n)) BY <2>5, <2>7, <2>8, <2>10, RunBetween
  <2>12. ~(Len(n) + 1 <= Len(n)) BY <1>0
  <2> QED BY <2>3, <2>9, <2>10, <2>11, <2>12, Zenon DEF Float
<1>3. ASSUME NEW q \in 1 .. Len(n), n[q] \in {"e", "E"}, Mantissa(n, q - 1), Exponent(n, q)
      PROVE  Float(n)
  <2>1. \A k \in 1 .. q - 1 : n[k] \in D \/ n[k] = "." BY <1>3, Zenon DEF Mantissa
  <2>2. q > 1
    <3>1. PICK k \in 1 .. q - 1 : TRUE BY <1>3, Zenon DEF Mantissa
    <3> QED BY <1>0, <3>1
  <2>3. Power(n, q) BY <1>3, PowerOf
  <2>4. n[q] \notin DigitsOf(10) BY <1>3, Chars
  <2>5. CASE \A k \in 1 .. q - 1 : n[k] # "."
    <3>1. \A k \in 1 .. q - 1 : n[k] \in D BY <2>1, <2>5, Zenon
    <3>2. Whole(n, q) BY <2>2, <2>4, <3>1, WholeOf
    <3> QED BY <2>3, <3>2, Zenon DEF Float
  <2>6. ASSUME NEW p \in 1 .. q - 1, n[p] = "." PROVE Float(n)
    <3>0. p \in 1 .. Len(n) /\ p + 1 \in 1 .. Len(n) /\ q - 1 \in 1 .. Len(n) BY <1>0
    <3>1. p > 1 /\ n[p + 1] \in DigitsOf(10) BY <1>1, <2>6, <3>0
    <3>2. p + 1 # q BY <2>4, <3>1
    <3>3. /\ p + 1 <= q - 1 /\ (p + 1) - 1 = p /\ (q - 1) + 1 = q /\ q <= Len(n)
          /\ q \in p + 1 .. Len(n) + 1
      BY <1>0, <3>2
    <3>4. \A k \in 1 .. q - 1 : k \in 1 .. Len(n) BY <1>0
    <3>5. \A k \in 1 .. q - 1 : k # p => n[k] \in D BY <1>1, <2>1, <2>6, <3>0, <3>4, Zenon
    <3>6. \A k \in 1 .. p - 1 : k \in 1 .. q - 1 /\ k # p BY <1>0
    <3>7. \A k \in p + 1 .. q - 1 : k \in 1 .. q - 1 /\ k # p BY <1>0
    <3>8. n[p] \notin DigitsOf(10) BY <2>6, Chars
    <3>9. Whole(n, p) BY <3>0, <3>1, <3>5, <3>6, <3>8, WholeOf
    <3>10. Run(n, p + 1, q - 1) BY <2>4, <3>0, <3>3, <3>5, <3>7, <3>8, RunBetween
    <3> QED BY <2>3, <2>6, <3>0, <3>3, <3>9, <3>10, Zenon DEF Float
  <2> QED BY <2>5, <2>6
<1> QED BY <1>2, <1>3 DEF Parsed10

\* A character of a run is a digit or an underscore between two.
Inner(n, k) == \/ n[k] \in DigitsOf(10)
               \/ /\ n[k] = Underscore /\ k > 1 /\ k < Len(n)
                  /\ n[k - 1] \in DigitsOf(10) /\ n[k + 1] \in DigitsOf(10)

LEMMA RunInner ==
  ASSUME NEW C, NEW n \in Seq(C), NEW a \in 1 .. Len(n), NEW b \in 1 .. Len(n), Run(n, a, b),
         NEW k \in a .. b
  PROVE  Inner(n, k)
<1> DEFINE ten == DigitsOf(10)
<1>0. PICK L \in Nat : L = Len(n) OBVIOUS
<1>1. /\ n[a] \in ten /\ n[b] \in ten /\ (n[k] \in ten \/ n[k] = Underscore)
      /\ \A i \in a .. b - 1 : n[i] \in ten \/ n[i + 1] \in ten
  BY DEF Run
<1>2. Underscore \notin ten BY NoUnderscore
<1> HIDE DEF ten
<1>3. ASSUME n[k] = Underscore
      PROVE  k > 1 /\ k < Len(n) /\ n[k - 1] \in ten /\ n[k + 1] \in ten
  <2>1. k # a /\ k # b BY <1>1, <1>2, <1>3
  <2>2. k \in a .. b - 1 /\ k - 1 \in a .. b - 1 /\ (k - 1) + 1 = k BY <1>0, <2>1
  <2>3. n[k] \in ten \/ n[k + 1] \in ten BY <1>1, <2>2
  <2>4. n[k - 1] \in ten \/ n[k] \in ten BY <1>1, <2>2
  <2> QED BY <1>0, <1>2, <1>3, <2>2, <2>3, <2>4
<1> QED BY <1>1, <1>3, Zenon DEF Inner, ten

\* What each character of a float is, whose point is at p, e at q and sign at g.
Placed(n, p, q, g, k) ==
  \/ Inner(n, k)
  \/ k = p /\ n[k] = "." /\ k > 1 /\ k < Len(n) /\ n[k + 1] \in DigitsOf(10)
  \/ k = q /\ n[k] \in {"e", "E"}
  \/ k = g /\ n[k] \in {"+", "-"} /\ k > 1 /\ n[k - 1] \in {"e", "E"}

LEMMA InnerPlaced == ASSUME NEW n, NEW k, Inner(n, k) PROVE \A p, q, g : Placed(n, p, q, g, k)
  BY Zenon DEF Placed

LEMMA CandidateOf ==
  ASSUME NEW C, NEW n \in Seq(C), NEW p, NEW q, NEW g,
         \A k \in 1 .. Len(n) : Placed(n, p, q, g, k),
         ~ZeroLed(n), NEW m \in 1 .. Len(n), n[m] \in {".", "e", "E"}
  PROVE  Candidate(n)
<1>0. 1 <= Len(n) OBVIOUS
<1>1. ASSUME NEW k \in 1 .. Len(n)
      PROVE  /\ n[k] \in DigitsOf(10) \cup {".", "e", "E", "+", "-", Underscore}
             /\ n[k] = "." => k = p /\ k > 1 /\ k < Len(n) /\ n[k + 1] \in DigitsOf(10)
             /\ n[k] \in {"e", "E"} => k = q
             /\ n[k] \in {"+", "-"} => k > 1 /\ n[k - 1] \in {"e", "E"}
             /\ n[k] = Underscore => /\ k > 1 /\ k < Len(n)
                                     /\ n[k - 1] \in DigitsOf(10) /\ n[k + 1] \in DigitsOf(10)
  <2>1. CASE n[k] \in DigitsOf(10) BY <2>1, Chars
  <2>2. CASE /\ n[k] = Underscore /\ k > 1 /\ k < Len(n)
             /\ n[k - 1] \in DigitsOf(10) /\ n[k + 1] \in DigitsOf(10)
    BY <2>2, Chars
  <2>3. CASE k = p /\ n[k] = "." /\ k > 1 /\ k < Len(n) /\ n[k + 1] \in DigitsOf(10)
    BY <2>3, Chars
  <2>4. CASE k = q /\ n[k] \in {"e", "E"} BY <2>4, Chars
  <2>5. CASE k = g /\ n[k] \in {"+", "-"} /\ k > 1 /\ n[k - 1] \in {"e", "E"}
    BY <2>5, Chars
  <2> QED BY <2>1, <2>2, <2>3, <2>4, <2>5, Zenon DEF Placed, Inner
<1>2. \A i, j \in 1 .. Len(n) : n[i] = "." /\ n[j] = "." => i = j
  <2>1. \A k \in 1 .. Len(n) : n[k] = "." => k = p BY <1>1, Zenon
  <2> QED BY <2>1
<1>3. \A i, j \in 1 .. Len(n) : n[i] \in {"e", "E"} /\ n[j] \in {"e", "E"} => i = j
  BY <1>1, Zenon
<1>4. \A i \in 1 .. Len(n) :
        /\ n[i] \in DigitsOf(10) \cup {".", "e", "E", "+", "-", Underscore}
        /\ n[i] = "." => i > 1 /\ i < Len(n) /\ n[i + 1] \in DigitsOf(10)
        /\ n[i] \in {"+", "-"} => i > 1 /\ n[i - 1] \in {"e", "E"}
        /\ n[i] = Underscore => /\ i > 1 /\ i < Len(n)
                                /\ n[i - 1] \in DigitsOf(10) /\ n[i + 1] \in DigitsOf(10)
  BY <1>1, Zenon
<1> QED BY <1>0, <1>2, <1>3, <1>4, Zenon DEF Candidate

\* Where the exponent of a float is.
LEMMA PowerParts ==
  ASSUME NEW C, NEW n \in Seq(C), NEW q \in 1 .. Len(n), Power(n, q)
  PROVE  /\ n[q] \in {"e", "E"} /\ Exponent(n, q) /\ q < Len(n)
         /\ \A k \in q .. Len(n) : \A p : Placed(n, p, q, q + 1, k)
<1>0. PICK L \in Nat : L = Len(n) OBVIOUS
<1>1. n[q] \in {"e", "E"} BY DEF Power
<1>2. \A p, g : Placed(n, p, q, g, q) BY <1>1, Zenon DEF Placed
<1>3. CASE Run(n, q + 1, Len(n))
  <2>1. /\ q + 1 <= Len(n) /\ n[q + 1] \in DigitsOf(10)
        /\ \A k \in q + 1 .. Len(n) : n[k] \in DigitsOf(10) \cup {Underscore}
    BY <1>3 DEF Run
  <2>2. n[q + 1] \notin {"+", "-"} BY <2>1, Chars
  <2>3. Exponent(n, q) BY <2>1, <2>2, Zenon DEF Exponent, DigitsFrom
  <2>4. q + 1 \in 1 .. Len(n) /\ Len(n) \in 1 .. Len(n) BY <1>0, <2>1
  <2>5. \A k \in q + 1 .. Len(n) : Inner(n, k) BY <1>3, <2>4, RunInner
  <2>6. \A k \in q .. Len(n) : k = q \/ k \in q + 1 .. Len(n) BY <1>0
  <2>7. q < Len(n) BY <1>0, <2>1
  <2>8. \A k \in q .. Len(n) : \A p : Placed(n, p, q, q + 1, k)
    BY <1>2, <2>5, <2>6, Zenon DEF Placed
  <2> QED BY <1>1, <2>3, <2>7, <2>8
<1>4. CASE n[q + 1] \in {"+", "-"} /\ q + 1 <= Len(n) /\ Run(n, q + 2, Len(n))
  <2>1. /\ q + 2 <= Len(n)
        /\ \A k \in q + 2 .. Len(n) : n[k] \in DigitsOf(10) \cup {Underscore}
    BY <1>4 DEF Run
  <2>3. Exponent(n, q) BY <1>4, <2>1, Zenon DEF Exponent, DigitsFrom
  <2>4. q + 2 \in 1 .. Len(n) /\ Len(n) \in 1 .. Len(n) BY <1>0, <2>1
  <2>5. \A k \in q + 2 .. Len(n) : Inner(n, k) BY <1>4, <2>4, RunInner
  <2>6. \A k \in q .. Len(n) : k = q \/ k = q + 1 \/ k \in q + 2 .. Len(n) BY <1>0
  <2>7. q < Len(n) /\ q + 1 > 1 /\ (q + 1) - 1 = q BY <1>0, <2>1
  <2>8. \A p : Placed(n, p, q, q + 1, q + 1)
    BY <1>1, <1>4, <2>7, Zenon DEF Placed
  <2>9. \A k \in q .. Len(n) : \A p : Placed(n, p, q, q + 1, k)
    BY <1>2, <2>5, <2>6, <2>8, InnerPlaced, Zenon
  <2> QED BY <1>1, <2>3, <2>7, <2>9
<1> QED BY <1>3, <1>4, Zenon DEF Power

\* A float of TOML is let pass.
LEMMA OfFloat ==
  ASSUME NEW C, NEW n \in Seq(C), Float(n)
  PROVE  Candidate(n) /\ Parsed10(n)
<1> DEFINE D == DigitsOf(10) \cup {Underscore}
<1>0. PICK L \in Nat : L = Len(n) OBVIOUS
<1>1. PICK i \in 1 .. Len(n) :
        /\ Whole(n, i)
        /\ \/ Power(n, i)
           \/ /\ n[i] = "."
              /\ \E j \in i + 1 .. Len(n) + 1 : Run(n, i + 1, j - 1) /\ (j <= Len(n) => Power(n, j))
  BY Zenon DEF Float
<1>2. /\ 1 <= i - 1 /\ n[1] \in DigitsOf(10) /\ \A k \in 1 .. i - 1 : n[k] \in D
      /\ Run(n, 1, i - 1) /\ (n[1] = "0" => i = 2)
  BY <1>1 DEF Whole, Run
<1>3. 1 \in 1 .. Len(n) /\ i - 1 \in 1 .. Len(n) /\ 1 \in 1 .. i - 1 /\ i > 1 BY <1>0, <1>2
<1>4. \A k \in 1 .. i - 1 : Inner(n, k) BY <1>2, <1>3, RunInner
<1>5. n[i] \in {".", "e", "E"} BY <1>1 DEF Power
<1>6. ~ZeroLed(n)
  <2> SUFFICES ASSUME ZeroLed(n) PROVE FALSE
    OBVIOUS
  <2>1. n[1] = "0" /\ n[2] \in D BY Zenon DEF ZeroLed
  <2>2. n[i] \in D BY <1>2, <2>1
  <2> QED BY <1>5, <2>2, Chars
<1>7. CASE Power(n, i)
  <2>1. n[i] \in {"e", "E"} /\ Exponent(n, i) /\ \A k \in i .. Len(n) : Placed(n, 0, i, i + 1, k)
    BY <1>7, PowerParts
  <2>2. \A k \in 1 .. Len(n) : k \in 1 .. i - 1 \/ k \in i .. Len(n) BY <1>0
  <2>3. \A k \in 1 .. Len(n) : Placed(n, 0, i, i + 1, k)
    BY <1>4, <2>1, <2>2, Zenon DEF Placed
  <2>4. Candidate(n) BY <1>5, <1>6, <2>3, CandidateOf
  <2>5. Mantissa(n, i - 1) BY <1>2, <1>3, Zenon DEF Mantissa
  <2> QED BY <2>1, <2>4, <2>5, Zenon DEF Parsed10
<1>8. ASSUME n[i] = ".", NEW j \in i + 1 .. Len(n) + 1, Run(n, i + 1, j - 1),
             j <= Len(n) => Power(n, j)
      PROVE  Candidate(n) /\ Parsed10(n)
  <2>1. /\ i + 1 <= j - 1 /\ n[i + 1] \in DigitsOf(10)
        /\ \A k \in i + 1 .. j - 1 : n[k] \in D
    BY <1>8 DEF Run
  <2>2. i + 1 \in 1 .. Len(n) /\ j - 1 \in 1 .. Len(n) /\ i < Len(n) BY <1>0, <2>1
  <2>3. \A k \in i + 1 .. j - 1 : Inner(n, k) BY <1>8, <2>2, RunInner
  <2>4. \A q, g : Placed(n, i, q, g, i) BY <1>3, <1>8, <2>1, <2>2, Zenon DEF Placed
  <2>5. CASE j <= Len(n)
    <3>0. j \in 1 .. Len(n) BY <1>0, <2>5
    <3>1. n[j] \in {"e", "E"} /\ Exponent(n, j) /\ \A k \in j .. Len(n) : Placed(n, i, j, j + 1, k)
      BY <1>8, <2>5, <3>0, PowerParts
    <3>2. \A k \in 1 .. Len(n) : k \in 1 .. i - 1 \/ k = i \/ k \in i + 1 .. j - 1 \/ k \in j .. Len(n)
      BY <1>0
    <3>3. \A k \in 1 .. Len(n) : Placed(n, i, j, j + 1, k)
      BY <1>4, <2>3, <2>4, <3>1, <3>2, InnerPlaced, Zenon
    <3>4. Candidate(n) BY <1>5, <1>6, <3>3, CandidateOf
    <3>5. \A k \in 1 .. j - 1 : k \in 1 .. i - 1 \/ k = i \/ k \in i + 1 .. j - 1 BY <1>0
    <3>6. 1 \in 1 .. j - 1 BY <1>0, <1>3, <2>1
    <3>7. Mantissa(n, j - 1) BY <1>2, <1>8, <2>1, <3>5, <3>6, Zenon DEF Mantissa
    <3> QED BY <3>0, <3>1, <3>4, <3>7, Zenon DEF Parsed10
  <2>6. CASE ~(j <= Len(n))
    <3>1. j - 1 = Len(n) BY <1>0, <2>6
    <3>2. \A k \in 1 .. Len(n) : k \in 1 .. i - 1 \/ k = i \/ k \in i + 1 .. j - 1
      BY <1>0, <3>1
    <3>3. \A k \in 1 .. Len(n) : Placed(n, i, 0, 0, k)
      BY <1>4, <2>3, <2>4, <3>2, InnerPlaced, Zenon
    <3>4. Candidate(n) BY <1>5, <1>6, <3>3, CandidateOf
    <3>5. Mantissa(n, Len(n)) BY <1>2, <1>3, <1>8, <2>1, <3>2, Zenon DEF Mantissa
    <3> QED BY <3>4, <3>5, Zenon DEF Parsed10
  <2> QED BY <2>5, <2>6
<1> QED BY <1>1, <1>7, <1>8

\* What TOML calls a float passes isFloatCandidate and has the shape of one for
\* strconv.ParseFloat, and nothing else does.
LEMMA FloatIs ==
  ASSUME NEW C, NEW t \in Seq(C)
  PROVE  isFloatCandidate(t) /\ FloatShape(t) <=> TomlFloat(t)
<1>0. Unsigned(t) \in Seq(C) BY UnsignedSeq
<1>1. isFloatCandidate(t) <=> Candidate(Unsigned(t)) BY CandidateIs
<1>2. FloatShape(t) <=> Parsed10(Unsigned(t)) BY ParsesIs, Zenon DEF Parsed10
<1>3. TomlFloat(t) <=> Float(Unsigned(t)) BY TomlFloatIs
<1>4. Candidate(Unsigned(t)) /\ Parsed10(Unsigned(t)) => Float(Unsigned(t)) BY <1>0, FloatOf
<1>5. Float(Unsigned(t)) => Candidate(Unsigned(t)) /\ Parsed10(Unsigned(t)) BY <1>0, OfFloat
<1> QED BY <1>1, <1>2, <1>3, <1>4, <1>5, Zenon

\* What is taken for an integer is no float, whatever its prefix.
LEMMA NoFloat ==
  ASSUME NEW C, NEW t \in Seq(C), isIntCandidate(t)
  PROVE  ~TomlFloat(t)
<1> DEFINE n == Unsigned(t)
<1>0. n \in Seq(C) BY UnsignedSeq
<1>1. TomlFloat(t) <=> Float(n) BY TomlFloatIs
<1>2. TomlDecimal(n) \/ IsPrefixed(t) BY IntegerIs, Zenon
<1>3. IsPrefixed(t) => n[1] = "0" /\ n[2] \in DOMAIN BaseOf BY DEF IsPrefixed, Prefixed
<1> HIDE DEF n
<1>4. ASSUME NEW i \in 1 .. Len(n), Whole(n, i), Power(n, i) \/ n[i] = "." PROVE FALSE
  <2>1. n[i] \in {".", "e", "E"} BY <1>4 DEF Power
  <2>2. CASE TomlDecimal(n)
    <3>1. i \in DOMAIN n BY <1>0
    <3>2. n[i] \in DigitsOf(10) \cup {Underscore}
      BY <2>2, <3>1, Zenon DEF TomlDecimal, TomlDigits, OnlyOf
    <3>3. Underscore \notin {".", "e", "E"} BY Zenon DEF Underscore
    <3> QED BY <2>1, <3>2, <3>3, Decimals
  <2>3. CASE IsPrefixed(t)
    <3>1. i = 2 BY <1>3, <1>4, <2>3, Zenon DEF Whole
    <3> QED BY <1>3, <2>1, <2>3, <3>1, Decimals
  <2> QED BY <1>2, <2>2, <2>3
<1> QED BY <1>1, <1>4, Zenon DEF Float

-----------------------------------------------------------------------------
(* What a text of digits denotes, and what it means up to a character.     *)

\* b is a base, and its powers are as they should be up to m.
Powers(b, m) == b \in Nat \ {0} /\ b ^ 0 = 1 /\ \A k \in 1 .. m : b ^ k = b * b ^ (k - 1)

LEMMA PowerNat ==
  ASSUME NEW b, NEW m \in Nat, Powers(b, m)
  PROVE  \A k \in 0 .. m : b ^ k \in Nat /\ b ^ k >= 1
<1> DEFINE S == {k \in Nat : k <= m => b ^ k \in Nat /\ b ^ k >= 1}
<1>1. 0 \in S BY DEF Powers
<1>2. ASSUME NEW k \in Nat, k \in S PROVE k + 1 \in S
  <2> SUFFICES ASSUME k + 1 <= m PROVE b ^ (k + 1) \in Nat /\ b ^ (k + 1) >= 1
    OBVIOUS
  <2>1. PICK p \in Nat : p = b ^ k /\ p >= 1 BY <1>2
  <2>2. k + 1 \in 1 .. m /\ (k + 1) - 1 = k OBVIOUS
  <2>3. b ^ (k + 1) = b * p BY <2>1, <2>2 DEF Powers
  <2>4. b \in Nat /\ b >= 1 BY DEF Powers
  <2>5. b * p \in Nat /\ b * p >= 1 BY <2>1, <2>4
  <2> QED BY <2>3, <2>5
<1>3. Nat \subseteq S
  <2> HIDE DEF S
  <2> QED BY <1>1, <1>2, Induct
<1> QED BY <1>3

Marks(r)    == {i \in 1 .. Len(r) : r[i] # Underscore}
Left(r, k)  == {i \in Marks(r) : i > k}
Weight(r, b) == [i \in Marks(r) |-> DigitValue[r[i]] * b ^ Cardinality(Left(r, i))]

\* The first k characters mean e.
Means(r, b, k, e) ==
  /\ e \in Nat
  /\ Places(r, b) = e * b ^ Cardinality(Left(r, k)) + SumFunctionOnSet(Weight(r, b), Left(r, k))

\* A text of digits of b.
Numeral(r, b) == /\ \A i \in Marks(r) : r[i] \in DigitsOf(b)
                 /\ Powers(b, Len(r))

LEMMA ValueOf == ASSUME NEW b, NEW c \in DigitsOf(b) PROVE DigitValue[c] \in Nat
  BY DEF DigitsOf, DigitValue

LEMMA UpTo == ASSUME NEW L \in Nat PROVE IsFiniteSet(1 .. L) /\ Cardinality(1 .. L) = L
<1>1. 1 \in Int /\ L \in Int OBVIOUS
<1>2. IsFiniteSet(1 .. L) BY <1>1, FS_Interval
<1>3. Cardinality(1 .. L) = IF 1 > L THEN 0 ELSE L - 1 + 1 BY <1>1, FS_Interval
<1>4. (IF 1 > L THEN 0 ELSE L - 1 + 1) = L OBVIOUS
<1> QED BY <1>2, <1>3, <1>4

LEMMA LeftIs ==
  ASSUME NEW C, NEW r \in Seq(C), NEW k \in 0 .. Len(r)
  PROVE  /\ IsFiniteSet(Marks(r)) /\ Left(r, k) \in SUBSET Marks(r) /\ IsFiniteSet(Left(r, k))
         /\ Cardinality(Left(r, k)) \in 0 .. Len(r)
<1>0. Len(r) \in Nat /\ IsFiniteSet(1 .. Len(r)) /\ Cardinality(1 .. Len(r)) = Len(r)
  <2>1. Len(r) \in Nat OBVIOUS
  <2> QED BY <2>1, UpTo
<1>1. IsFiniteSet(Marks(r)) BY <1>0, FS_Subset DEF Marks
<1>2. Left(r, k) \in SUBSET Marks(r) /\ Left(r, k) \in SUBSET (1 .. Len(r)) BY DEF Left, Marks
<1>3. IsFiniteSet(Left(r, k)) /\ Cardinality(Left(r, k)) <= Len(r) BY <1>0, <1>2, FS_Subset
<1>4. Cardinality(Left(r, k)) \in Nat BY <1>3, FS_CardinalityType
<1> QED BY <1>0, <1>1, <1>2, <1>3, <1>4

LEMMA WeightIs ==
  ASSUME NEW C, NEW r \in Seq(C), NEW b, Numeral(r, b)
  PROVE  Weight(r, b) \in [Marks(r) -> Nat]
<1>1. ASSUME NEW i \in Marks(r) PROVE DigitValue[r[i]] * b ^ Cardinality(Left(r, i)) \in Nat
  <2>1. DigitValue[r[i]] \in Nat BY ValueOf DEF Numeral
  <2>2. i \in 0 .. Len(r) /\ Len(r) \in Nat BY DEF Marks
  <2>3. Cardinality(Left(r, i)) \in 0 .. Len(r) BY <2>2, LeftIs
  <2>4. b ^ Cardinality(Left(r, i)) \in Nat BY <2>2, <2>3, PowerNat DEF Numeral
  <2> QED BY <2>1, <2>4
<1> QED BY <1>1 DEF Weight

LEMMA MeansFirst ==
  ASSUME NEW C, NEW r \in Seq(C), NEW b, Numeral(r, b)
  PROVE  Means(r, b, 0, 0)
<1>1. Left(r, 0) = Marks(r) BY DEF Left, Marks
<1>2. DOMAIN r = 1 .. Len(r) OBVIOUS
<1>3. Places(r, b) = SumFunction(Weight(r, b))
  BY <1>2, Zenon DEF Places, Weight, Left, Marks
<1>4. DOMAIN Weight(r, b) = Marks(r) BY DEF Weight
<1>5. Places(r, b) = SumFunctionOnSet(Weight(r, b), Left(r, 0))
  BY <1>1, <1>3, <1>4, Zenon DEF SumFunction
<1>6. 0 \in 0 .. Len(r) /\ Len(r) \in Nat OBVIOUS
<1>7. Cardinality(Left(r, 0)) \in 0 .. Len(r) /\ IsFiniteSet(Marks(r)) BY <1>6, LeftIs
<1>8. b ^ Cardinality(Left(r, 0)) \in Nat BY <1>6, <1>7, PowerNat DEF Numeral
<1>9. SumFunctionOnSet(Weight(r, b), Left(r, 0)) \in Nat
  <2>1. Weight(r, b) \in [Marks(r) -> Nat] BY WeightIs
  <2>2. Left(r, 0) \in SUBSET Marks(r) BY <1>1
  <2> QED BY <1>7, <2>1, <2>2, SumStep
<1> QED BY <1>5, <1>8, <1>9 DEF Means

LEMMA MeansLast ==
  ASSUME NEW C, NEW r \in Seq(C), NEW b, Numeral(r, b), NEW e, Means(r, b, Len(r), e)
  PROVE  Places(r, b) = e
<1>1. Left(r, Len(r)) = {} BY DEF Left, Marks
<1>2. Cardinality(Left(r, Len(r))) = 0 BY <1>1, FS_EmptySet
<1>3. b ^ 0 = 1 BY DEF Numeral, Powers
<1>4. 0 \in 0 .. Len(r) OBVIOUS
<1>5. SumFunctionOnSet(Weight(r, b), {}) = 0
  <2>1. Weight(r, b) \in [Marks(r) -> Nat] /\ IsFiniteSet(Marks(r)) BY <1>4, WeightIs, LeftIs
  <2> QED BY <2>1, SumStep
<1> QED BY <1>1, <1>2, <1>3, <1>5 DEF Means

\* Nothing that follows makes a number smaller.
LEMMA MeansBound ==
  ASSUME NEW C, NEW r \in Seq(C), NEW b, Numeral(r, b), NEW k \in 0 .. Len(r), NEW e, Means(r, b, k, e)
  PROVE  Places(r, b) \in Nat /\ Places(r, b) >= e
<1>1. /\ IsFiniteSet(Marks(r)) /\ Left(r, k) \in SUBSET Marks(r)
      /\ Cardinality(Left(r, k)) \in 0 .. Len(r) /\ Len(r) \in Nat
  BY LeftIs
<1>2. PICK p \in Nat : p = b ^ Cardinality(Left(r, k)) /\ p >= 1 BY <1>1, PowerNat DEF Numeral
<1>3. PICK s \in Nat : s = SumFunctionOnSet(Weight(r, b), Left(r, k))
  <2>1. Weight(r, b) \in [Marks(r) -> Nat] BY WeightIs
  <2> QED BY <1>1, <2>1, SumStep
<1>4. e \in Nat /\ Places(r, b) = e * p + s BY <1>2, <1>3 DEF Means
<1>5. e * p \in Nat /\ e * p >= e
  <2>1. PICK q \in Nat : p = 1 + q
    <3>1. p - 1 \in Nat /\ p = 1 + (p - 1) BY <1>2
    <3> QED BY <3>1
  <2>2. e * p = e + e * q BY <1>4, <2>1
  <2>3. e * q \in Nat BY <1>4, <2>1
  <2> QED BY <1>4, <2>2, <2>3
<1> QED BY <1>3, <1>4, <1>5

\* One more character.
LEMMA MeansSkip ==
  ASSUME NEW C, NEW r \in Seq(C), NEW b, NEW k \in 0 .. Len(r) - 1, NEW e, Means(r, b, k, e),
         r[k + 1] = Underscore
  PROVE  Means(r, b, k + 1, e)
<1>1. Left(r, k + 1) = Left(r, k) BY DEF Left, Marks
<1> QED BY <1>1 DEF Means

LEMMA MeansDigit ==
  ASSUME NEW C, NEW r \in Seq(C), NEW b, Numeral(r, b), NEW k \in 0 .. Len(r) - 1, NEW e,
         Means(r, b, k, e), r[k + 1] # Underscore
  PROVE  Means(r, b, k + 1, e * b + DigitValue[r[k + 1]])
<1> DEFINE i == k + 1
           d == DigitValue[r[i]]
           w == Weight(r, b)
           c == Cardinality(Left(r, i))
<1>1. i \in Marks(r) /\ i \in 0 .. Len(r) /\ k \in 0 .. Len(r) /\ Len(r) \in Nat BY DEF Marks
<1>2. Left(r, i) = Left(r, k) \ {i} /\ i \in Left(r, k) BY <1>1 DEF Left, Marks
<1>3. /\ IsFiniteSet(Marks(r)) /\ Left(r, k) \in SUBSET Marks(r) /\ IsFiniteSet(Left(r, k))
      /\ Cardinality(Left(r, k)) \in 0 .. Len(r)
  BY <1>1, LeftIs
<1>4. Left(r, i) \in SUBSET Marks(r) /\ c \in 0 .. Len(r) BY <1>1, LeftIs
<1>5. c = Cardinality(Left(r, k)) - 1 BY <1>2, <1>3, FS_RemoveElement
<1>6. PICK p \in Nat : p = b ^ c BY <1>1, <1>4, PowerNat DEF Numeral
<1>7. b ^ Cardinality(Left(r, k)) = b * p
  <2>1. Cardinality(Left(r, k)) \in 1 .. Len(r) BY <1>3, <1>4, <1>5
  <2> QED BY <1>5, <1>6, <2>1 DEF Numeral, Powers
<1>8. d \in Nat BY <1>1, ValueOf DEF Numeral
<1>9. w \in [Marks(r) -> Nat] BY WeightIs
<1>10. w[i] = d * p BY <1>1, <1>6 DEF Weight
<1> HIDE DEF w
<1>11. PICK s \in Nat : s = SumFunctionOnSet(w, Left(r, i)) BY <1>3, <1>4, <1>9, SumStep
<1>12. SumFunctionOnSet(w, Left(r, k)) = w[i] + s BY <1>2, <1>3, <1>9, <1>11, SumStep
<1>13. e \in Nat /\ b \in Nat BY DEF Means, Numeral, Powers
<1> HIDE DEF i, d, c
<1>14. Places(r, b) = e * (b * p) + (d * p + s) BY <1>7, <1>10, <1>12 DEF Means, w
<1>15. e * (b * p) + (d * p + s) = (e * b + d) * p + s BY <1>6, <1>8, <1>11, <1>13
<1>16. e * b + d \in Nat BY <1>8, <1>13
<1>17. Means(r, b, i, e * b + d)
  BY <1>6, <1>11, <1>14, <1>15, <1>16 DEF Means, w, c
<1> QED BY <1>17 DEF i, d

-----------------------------------------------------------------------------
(* Reading a number.                                                       *)

\* The characters parseUintLiteralDigits is called with, and their base.
Figures(t) == IF Prefixed(Unsigned(t)) THEN From(Unsigned(t), 3) ELSE Unsigned(t)
Radix(t)   == IF Prefixed(Unsigned(t)) THEN BaseOf[Unsigned(t)[2]] ELSE 10

LEMMA RadixIs == ASSUME NEW t PROVE Radix(t) \in Bases /\ Radix(t) ^ 0 = 1
<1>1. Radix(t) \in Bases
  <2>1. \A c \in DOMAIN BaseOf : BaseOf[c] \in Bases BY DEF BaseOf, Bases
  <2>2. Prefixed(Unsigned(t)) => Unsigned(t)[2] \in DOMAIN BaseOf BY Zenon DEF Prefixed
  <2>3. 10 \in Bases BY DEF Bases
  <2> QED BY <2>1, <2>2, <2>3, Zenon DEF Radix
<1>2. 2 ^ 0 = 1 /\ 8 ^ 0 = 1 /\ 10 ^ 0 = 1 /\ 16 ^ 0 = 1 OBVIOUS
<1>3. \A b \in Bases : b = 2 \/ b = 8 \/ b = 10 \/ b = 16 BY DEF Bases
<1> QED BY <1>1, <1>2, <1>3, Zenon

LEMMA FiguresAre ==
  ASSUME NEW C, NEW t \in Seq(C)
  PROVE  /\ Figures(t) \in Seq(C) /\ Len(Figures(t)) <= Len(Unsigned(t))
         /\ isIntCandidate(t) => TomlDigits(Figures(t), DigitsOf(Radix(t)))
<1> DEFINE n == Unsigned(t)
<1>0. n \in Seq(C) BY UnsignedSeq
<1>1. CASE Prefixed(n)
  <2>1. Figures(t) = From(n, 3) /\ Radix(t) = BaseOf[n[2]] BY <1>1 DEF Figures, Radix
  <2>2. From(n, 3) \in Seq(C) /\ Len(From(n, 3)) = (IF 3 <= Len(n) THEN Len(n) - 3 + 1 ELSE 0)
    <3>1. 3 \in Nat /\ 1 <= 3 OBVIOUS
    <3> HIDE DEF n
    <3> QED BY <1>0, <3>1, FromSeq
  <2>3. Len(n) \in Nat BY <1>0
  <2>4. Len(From(n, 3)) <= Len(n) BY <2>2, <2>3
  <2>5. ~TomlDecimal(n) BY <1>0, <1>1, DecimalIs
  <2>6. isIntCandidate(t) => IsPrefixed(t) BY <2>5, IntegerIs, Zenon
  <2> QED BY <2>1, <2>2, <2>4, <2>6, Zenon DEF IsPrefixed
<1>2. CASE ~Prefixed(n)
  <2>1. Figures(t) = n /\ Radix(t) = 10 BY <1>2 DEF Figures, Radix
  <2>2. ~IsPrefixed(t) BY <1>2, Zenon DEF IsPrefixed
  <2>3. isIntCandidate(t) => TomlDecimal(n) BY <2>2, IntegerIs, Zenon
  <2>4. Len(n) \in Nat BY <1>0
  <2>5. Len(n) <= Len(n) BY <2>4
  <2> QED BY <1>0, <2>1, <2>3, <2>5, Zenon DEF TomlDecimal
<1> QED BY <1>1, <1>2

\* Both are a numeral.
LEMMA NumeralOf ==
  ASSUME NEW t \in Numbers, isIntCandidate(t)
  PROVE  /\ Figures(t) \in Seq(STRING) /\ Numeral(Figures(t), Radix(t)) /\ Len(Figures(t)) >= 1
         /\ \A i \in 1 .. Len(Figures(t)) : Figures(t)[i] \in DigitsOf(Radix(t)) \cup {Underscore}
         /\ Figures(t)[1] \in DigitsOf(Radix(t))
<1> DEFINE r == Figures(t)
           b == Radix(t)
           n == Unsigned(t)
<1>1. t \in Seq(STRING) BY TextsAssumption, Zenon
<1>2. r \in Seq(STRING) /\ Len(r) <= Len(n) /\ TomlDigits(r, DigitsOf(b)) BY <1>1, FiguresAre, Zenon
<1>3. \A k \in 1 .. Len(n) : b ^ k = b * b ^ (k - 1)
  BY PlacesAssumption, Zenon DEF Radix
<1>4. n \in Seq(STRING) BY <1>1, UnsignedSeq, Zenon
<1>5. b \in Bases /\ b ^ 0 = 1 BY RadixIs
<1>6. b \in Nat \ {0} BY <1>5 DEF Bases
<1> HIDE DEF r, b, n
<1>7. Len(r) \in Nat /\ Len(n) \in Nat /\ DOMAIN r = 1 .. Len(r) /\ (r # << >> => Len(r) >= 1)
  <2>1. ASSUME NEW C, NEW q \in Seq(C)
        PROVE  Len(q) \in Nat /\ DOMAIN q = 1 .. Len(q) /\ (q # << >> => Len(q) >= 1)
    OBVIOUS
  <2> QED BY <1>2, <1>4, <2>1, Zenon
<1>8. \A k \in 1 .. Len(r) : k \in 1 .. Len(n) BY <1>2, <1>7
<1>9. Powers(b, Len(r)) BY <1>3, <1>5, <1>6, <1>8, Zenon DEF Powers
<1>10. r # << >> /\ r[1] \in DigitsOf(b) /\ \A i \in 1 .. Len(r) : r[i] \in DigitsOf(b) \cup {Underscore}
  BY <1>2, <1>7, Zenon DEF TomlDigits, OnlyOf
<1>11. \A i \in Marks(r) : r[i] \in DigitsOf(b) BY <1>10 DEF Marks
<1>12. Numeral(r, b) BY <1>9, <1>11, Zenon DEF Numeral
<1> QED BY <1>2, <1>7, <1>10, <1>12, Zenon DEF r, b

\* What it denotes has the sign of the text.
LEMMA DenotedIs ==
  ASSUME NEW t \in Numbers, isIntCandidate(t)
  PROVE  /\ Places(Figures(t), Radix(t)) \in Nat
         /\ Denoted(t) = IF t[1] = "-" THEN -Places(Figures(t), Radix(t))
                         ELSE Places(Figures(t), Radix(t))
<1> DEFINE n == Unsigned(t)
<1>1. t \in Seq(STRING) BY TextsAssumption, Zenon
<1>2. Figures(t) \in Seq(STRING) /\ Numeral(Figures(t), Radix(t)) /\ Len(Figures(t)) >= 1
  BY NumeralOf
<1>3. PICK p \in Nat : p = Places(Figures(t), Radix(t))
  <2>1. Means(Figures(t), Radix(t), 0, 0) BY <1>2, MeansFirst, Zenon
  <2>2. 0 \in 0 .. Len(Figures(t))
    <3>1. ASSUME NEW C, NEW q \in Seq(C) PROVE 0 \in 0 .. Len(q) OBVIOUS
    <3> QED BY <1>2, <3>1, Zenon
  <2> QED BY <1>2, <2>1, <2>2, MeansBound, Zenon
<1>4. CASE Prefixed(n)
  <2>1. ~Signed(t) /\ Prefixed(t)
    <3>1. n \in Seq(STRING) BY <1>1, UnsignedSeq, Zenon
    <3>2. ~TomlDecimal(n) BY <1>4, <3>1, DecimalIs, Zenon
    <3>3. IsPrefixed(t) BY <1>1, <3>2, IntegerIs, Zenon
    <3> QED BY <1>4, <3>3, Zenon DEF IsPrefixed, Unsigned
  <2>2. t[1] # "-"
    <3>1. t # << >>
      <4>1. ASSUME NEW q, q = << >> PROVE ~(Len(q) > 2) BY <4>1
      <4> QED BY <2>1, <4>1, Zenon DEF Prefixed
    <3> QED BY <2>1, <3>1, Zenon DEF Signed
  <2>3. Denoted(t) = p BY <1>3, <1>4, Zenon DEF Denoted, Figures, Radix
  <2> QED BY <1>3, <2>2, <2>3
<1>5. CASE ~Prefixed(n)
  <2>1. Denoted(t) = (IF t[1] = "-" THEN -1 ELSE 1) * p
    BY <1>3, <1>5, Zenon DEF Denoted, Figures, Radix
  <2> QED BY <1>3, <2>1
<1> QED BY <1>4, <1>5

LEMMA Behind ==
  ASSUME NEW C, NEW r \in Seq(C), NEW k \in 0 .. Len(r)
  PROVE  /\ Len(r) \in Nat
         /\ (SubSeq(r, k + 1, Len(r)) # << >>) <=> k < Len(r)
         /\ k < Len(r) => /\ Head(SubSeq(r, k + 1, Len(r))) = r[k + 1]
                          /\ Tail(SubSeq(r, k + 1, Len(r))) = SubSeq(r, k + 2, Len(r))
<1>1. Len(r) \in Nat OBVIOUS
<1>2. k + 1 \in Nat /\ SubSeq(r, k + 1, Len(r)) \in Seq(C) BY <1>1
<1>3. Len(SubSeq(r, k + 1, Len(r))) = Len(r) - k BY <1>1
<1>4. (SubSeq(r, k + 1, Len(r)) # << >>) <=> k < Len(r)
  <2>1. PICK s \in Seq(C) : s = SubSeq(r, k + 1, Len(r)) BY <1>2
  <2>2. (s # << >>) <=> Len(s) > 0 OBVIOUS
  <2> QED BY <1>1, <1>3, <2>1, <2>2
<1>5. ASSUME k < Len(r)
      PROVE  /\ Head(SubSeq(r, k + 1, Len(r))) = r[k + 1]
             /\ Tail(SubSeq(r, k + 1, Len(r))) = SubSeq(r, k + 2, Len(r))
  BY <1>1, <1>5
<1> QED BY <1>1, <1>4, <1>5

\* The digits of an integer are read up to one of them, and are worth what they mean.
Progress(t) ==
  /\ isIntCandidate(t) /\ ~hasCapitalNumericPrefix(t)
  /\ base = Radix(t) /\ negative = (t[1] = "-")
  /\ \E k \in 0 .. Len(Figures(t)) :
       /\ rest = SubSeq(Figures(t), k + 1, Len(Figures(t)))
       /\ Means(Figures(t), Radix(t), k, exact)
       /\ k >= 1 => sawDigit

Verdict(t) == CASE TomlInteger(t) /\ Representable(t) -> "integer"
                [] TomlFloat(t) /\ ~OutOfRange(t)    -> "float"
                [] OTHER                             -> "malformed"

Going == Progress(text.chars)

\* A number is read to the end, as what it is.
NInv == ~IsStamp(text) =>
          /\ text.chars \in Numbers
          /\ pc \in {"bare", "digits", "done"}
          /\ pc = "digits" => Going
          /\ pc = "done" => /\ outcome = Verdict(text.chars)
                            /\ outcome = "integer" => value = Denoted(text.chars)

LEMMA Verdicts ==
  ASSUME NEW t, TomlInteger(t) => ~TomlFloat(t)
  PROVE  /\ TomlInteger(t) /\ Representable(t) => Verdict(t) = "integer"
         /\ TomlInteger(t) /\ ~Representable(t) => Verdict(t) = "malformed"
         /\ ~TomlInteger(t) /\ TomlFloat(t) /\ ~OutOfRange(t) => Verdict(t) = "float"
         /\ ~TomlInteger(t) /\ ~(TomlFloat(t) /\ ~OutOfRange(t)) => Verdict(t) = "malformed"
<1>1. ASSUME TomlInteger(t), Representable(t) PROVE Verdict(t) = "integer" BY <1>1 DEF Verdict
<1>2. ASSUME TomlInteger(t), ~Representable(t) PROVE Verdict(t) = "malformed" BY <1>2 DEF Verdict
<1>3. ASSUME ~TomlInteger(t), TomlFloat(t), ~OutOfRange(t) PROVE Verdict(t) = "float"
  BY <1>3 DEF Verdict
<1>4. ASSUME ~TomlInteger(t), ~(TomlFloat(t) /\ ~OutOfRange(t)) PROVE Verdict(t) = "malformed"
  BY <1>4 DEF Verdict
<1> QED BY <1>1, <1>2, <1>3, <1>4

LEMMA OfNumbers == ASSUME NEW t \in Numbers PROVE t \in Seq(STRING)
  BY TextsAssumption, Zenon

\* The value is begun with nothing read.
LEMMA ProgressBegins ==
  ASSUME NEW t \in Numbers, text.chars = t, isIntCandidate(t), ~hasCapitalNumericPrefix(t), BeginInteger
  PROVE  Progress(t)'
<1> DEFINE r == Figures(t)
<1>1. r \in Seq(STRING) /\ Numeral(r, Radix(t)) BY NumeralOf
<1>2. base' = Radix(t) /\ negative' = (t[1] = "-") /\ exact' = 0 /\ rest' = r
  BY Zenon DEF BeginInteger, Radix, Figures
<1>3. Means(r, Radix(t), 0, 0) BY <1>1, MeansFirst, Zenon
<1> HIDE DEF r
<1>4. ASSUME NEW C, NEW q \in Seq(C) PROVE q = SubSeq(q, 0 + 1, Len(q)) /\ 0 \in 0 .. Len(q)
  OBVIOUS
<1>5. rest' = SubSeq(r, 0 + 1, Len(r)) /\ 0 \in 0 .. Len(r) BY <1>1, <1>2, <1>4, Zenon
<1>6. ~(0 >= 1) OBVIOUS
<1>7. \E k \in 0 .. Len(r) : /\ rest' = SubSeq(r, k + 1, Len(r))
                             /\ Means(r, Radix(t), k, exact')
                             /\ k >= 1 => sawDigit'
  BY <1>2, <1>3, <1>5, <1>6, Zenon
<1> QED BY <1>2, <1>7, Zenon DEF Progress, r

\* What the first k characters mean with one more.
LEMMA ProgressStep ==
  ASSUME NEW t \in Numbers, text.chars = t, Progress(t), rest # << >>
  PROVE  \E k \in 0 .. Len(Figures(t)) - 1 :
           /\ Head(rest) = Figures(t)[k + 1]
           /\ Tail(rest) = SubSeq(Figures(t), (k + 1) + 1, Len(Figures(t)))
           /\ Head(rest) \in DigitsOf(base) \cup {Underscore}
           /\ k = 0 => Head(rest) \in DigitsOf(base)
           /\ k >= 1 => sawDigit
           /\ Head(rest) = Underscore => Means(Figures(t), Radix(t), k + 1, exact)
           /\ Head(rest) # Underscore =>
                Means(Figures(t), Radix(t), k + 1, exact * base + DigitValue[Head(rest)])
<1> DEFINE r == Figures(t)
           b == Radix(t)
<1>0. isIntCandidate(t) /\ base = b BY Zenon DEF Progress
<1>1. /\ r \in Seq(STRING) /\ Numeral(r, b) /\ Len(r) >= 1 /\ r[1] \in DigitsOf(b)
      /\ \A i \in 1 .. Len(r) : r[i] \in DigitsOf(b) \cup {Underscore}
  BY <1>0, NumeralOf
<1>2. PICK k \in 0 .. Len(r) : /\ rest = SubSeq(r, k + 1, Len(r))
                               /\ Means(r, b, k, exact) /\ (k >= 1 => sawDigit)
  BY Zenon DEF Progress
<1> HIDE DEF r, b
<1>3. /\ Len(r) \in Nat /\ ((rest # << >>) <=> k < Len(r))
      /\ k < Len(r) => Head(rest) = r[k + 1] /\ Tail(rest) = SubSeq(r, k + 2, Len(r))
  BY <1>1, <1>2, Behind, Zenon
<1>4. k < Len(r) /\ k \in 0 .. Len(r) - 1 /\ k + 1 \in 1 .. Len(r) /\ (k + 1) + 1 = k + 2
  BY <1>2, <1>3
<1>5. Head(rest) = r[k + 1] /\ Tail(rest) = SubSeq(r, (k + 1) + 1, Len(r)) BY <1>3, <1>4
<1>6. Head(rest) \in DigitsOf(base) \cup {Underscore} BY <1>0, <1>1, <1>4, <1>5
<1>7. k = 0 => Head(rest) \in DigitsOf(base) BY <1>0, <1>1, <1>5
<1>8. Head(rest) = Underscore => Means(r, b, k + 1, exact)
  BY <1>1, <1>2, <1>4, <1>5, MeansSkip, Zenon
<1>9. Head(rest) # Underscore => Means(r, b, k + 1, exact * base + DigitValue[Head(rest)])
  BY <1>0, <1>1, <1>2, <1>4, <1>5, MeansDigit, Zenon
<1> QED BY <1>2, <1>4, <1>5, <1>6, <1>7, <1>8, <1>9, Zenon DEF r, b

\* The cut-off test lets pass all that is within the limit.
LEMMA CutOffOnly ==
  ASSUME NEW b \in Bases, NEW l \in Nat, NEW n \in Nat, NEW d \in Nat, d < b,
         n > l \div b \/ (n = l \div b /\ d > l % b)
  PROVE  n * b + d > l
<1>1. CASE b = 2  BY <1>1
<1>2. CASE b = 8  BY <1>2
<1>3. CASE b = 10 BY <1>3
<1>4. CASE b = 16 BY <1>4
<1> QED BY <1>1, <1>2, <1>3, <1>4 DEF Bases

\* An integer that is refused does not fit.
LEMMA RefusedUnfit ==
  ASSUME NEW t \in Numbers, text.chars = t, IInv, Progress(t), pc = "digits", rest # << >>,
         Head(rest) \in DigitsOf(base), OverLimit(DigitValue[Head(rest)])
  PROVE  ~Representable(t)
<1> DEFINE r == Figures(t)
           b == Radix(t)
           c == Head(rest)
           d == DigitValue[c]
<1>0. isIntCandidate(t) /\ base = b /\ negative = (t[1] = "-") BY Zenon DEF Progress
<1>1. r \in Seq(STRING) /\ Numeral(r, b) BY <1>0, NumeralOf
<1>2. Reading BY DEF IInv
<1>3. d \in Nat /\ d < base BY DigitRange
<1>4. c # Underscore BY NoUnderscore, Zenon
<1>5. PICK k \in 0 .. Len(r) - 1 : Means(r, b, k + 1, exact * base + d)
  BY <1>4, ProgressStep, Zenon
<1>6. Places(r, b) \in Nat /\ Places(r, b) >= exact * base + d
  <2>1. ASSUME NEW C, NEW q \in Seq(C), NEW i \in 0 .. Len(q) - 1 PROVE i + 1 \in 0 .. Len(q)
    OBVIOUS
  <2>2. k + 1 \in 0 .. Len(r) BY <1>1, <1>5, <2>1, Zenon
  <2> QED BY <1>1, <1>5, <2>2, MeansBound, Zenon
<1>7. exact * base + d > limit
  <2>1. u > limit \div base \/ (u = limit \div base /\ d > limit % base) BY Zenon DEF OverLimit
  <2>2. u * base + d > limit BY <1>2, <1>3, <2>1, CutOffOnly DEF Reading
  <2> QED BY <1>2, <2>2 DEF Reading
<1>8. PICK p \in Nat : p = Places(r, b) BY <1>6
<1>9. p > limit
  <2>1. exact \in Nat /\ base \in Nat /\ limit \in Nat BY <1>2 DEF Reading, Bases
  <2>2. PICK e \in Nat : e = exact * base + d BY <1>3, <2>1
  <2> QED BY <1>6, <1>7, <1>8, <2>1, <2>2
<1>10. Denoted(t) = IF negative THEN -p ELSE p BY <1>0, <1>8, DenotedIs
<1>11. limit = Limit(negative) /\ negative \in BOOLEAN BY <1>2 DEF Reading
<1> HIDE DEF r, b, c, d
<1> QED BY <1>9, <1>10, <1>11, WidthAssumption DEF Representable, Limit

\* One that is taken fits, and is its digits.
LEMMA TakenExact ==
  ASSUME NEW t \in Numbers, text.chars = t, IInv, Progress(t), pc = "digits", rest = << >>
  PROVE  /\ sawDigit /\ Representable(t)
         /\ Denoted(t) = IF negative THEN -exact ELSE exact
<1> DEFINE r == Figures(t)
           b == Radix(t)
<1>0. isIntCandidate(t) /\ base = b /\ negative = (t[1] = "-") BY Zenon DEF Progress
<1>1. r \in Seq(STRING) /\ Numeral(r, b) /\ Len(r) >= 1 BY <1>0, NumeralOf
<1>2. Reading BY DEF IInv
<1>3. PICK k \in 0 .. Len(r) : /\ rest = SubSeq(r, k + 1, Len(r))
                               /\ Means(r, b, k, exact) /\ (k >= 1 => sawDigit)
  BY Zenon DEF Progress
<1> HIDE DEF r, b
<1>4. Len(r) \in Nat /\ ((rest # << >>) <=> k < Len(r)) BY <1>1, <1>3, Behind, Zenon
<1>5. k = Len(r) /\ k >= 1 BY <1>1, <1>3, <1>4
<1>6. Places(r, b) = exact BY <1>1, <1>3, <1>5, MeansLast, Zenon
<1>7. Denoted(t) = IF negative THEN -exact ELSE exact BY <1>0, <1>6, DenotedIs DEF r, b
<1>8. Representable(t)
  BY <1>2, <1>7, WidthAssumption DEF Reading, Representable, Limit
<1> QED BY <1>3, <1>5, <1>7, <1>8

LEMMA NumberStarts == Init => NInv
<1> SUFFICES ASSUME Init, ~IsStamp(text) PROVE text.chars \in Numbers /\ pc = "bare"
  BY DEF NInv
<1>1. text \notin Stamps BY TextsAssumption DEF IsStamp
<1>2. PICK n \in Numbers : text = [chars |-> n] BY <1>1 DEF Init
<1>3. text.chars \in Numbers BY <1>2
<1> QED BY <1>3 DEF Init

\* Where the text of a number is not a number, it is refused for its own sake.
LEMMA Classified ==
  ASSUME NEW t \in Numbers, text.chars = t, ~IsStamp(text), ClassifyBareValue, pc' # "digits"
  PROVE  outcome' = Verdict(t) /\ outcome' # "integer" /\ pc' = "done" /\ text' = text
<1>1. t \in Seq(STRING) BY OfNumbers
<1>2. /\ TomlInteger(t) <=> isIntCandidate(t) /\ ~hasCapitalNumericPrefix(t)
      /\ isIntCandidate(t) => ~TomlFloat(t)
  BY <1>1, IntegerIs, NoFloat, Zenon
<1>3. (isFloatCandidate(t) /\ ParsesFloat(t)) <=> (TomlFloat(t) /\ ~OutOfRange(t))
  BY <1>1, FloatIs, Zenon DEF ParsesFloat
<1>4. CASE isIntCandidate(t) /\ hasCapitalNumericPrefix(t) /\ Reject
  <2>1. ~TomlInteger(t) /\ ~TomlFloat(t) BY <1>2, <1>4, Zenon
  <2>2. Verdict(t) = "malformed" BY <1>2, <2>1, Verdicts, Zenon
  <2> QED BY <1>4, <2>2 DEF Reject
<1>5. CASE /\ ~isIntCandidate(t) /\ isFloatCandidate(t) /\ ParsesFloat(t)
           /\ outcome' = "float" /\ pc' = "done" /\ text' = text
  <2>1. ~TomlInteger(t) /\ TomlFloat(t) /\ ~OutOfRange(t) BY <1>2, <1>3, <1>5, Zenon
  <2>2. Verdict(t) = "float" BY <1>2, <2>1, Verdicts, Zenon
  <2> QED BY <1>5, <2>2
<1>6. CASE ~isIntCandidate(t) /\ ~(isFloatCandidate(t) /\ ParsesFloat(t)) /\ Reject
  <2>1. ~TomlInteger(t) /\ ~(TomlFloat(t) /\ ~OutOfRange(t)) BY <1>2, <1>3, <1>6, Zenon
  <2>2. Verdict(t) = "malformed" BY <1>2, <2>1, Verdicts, Zenon
  <2> QED BY <1>6, <2>2 DEF Reject
<1>7. ~BeginInteger BY DEF BeginInteger
<1> QED BY <1>4, <1>5, <1>6, <1>7 DEF ClassifyBareValue

\* One more character.
LEMMA ProgressReads ==
  ASSUME NEW t \in Numbers, text.chars = t, IInv, Progress(t), ReadDigit, ~Reject
  PROVE  Progress(t)'
<1> DEFINE r == Figures(t)
           b == Radix(t)
           c == Head(rest)
<1>0. isIntCandidate(t) /\ ~hasCapitalNumericPrefix(t) /\ base = b /\ negative = (t[1] = "-")
  BY Zenon DEF Progress
<1>1. rest # << >> BY DEF ReadDigit
<1>2. PICK k \in 0 .. Len(r) - 1 :
        /\ Tail(rest) = SubSeq(r, (k + 1) + 1, Len(r))
        /\ k = 0 => c \in DigitsOf(base)
        /\ k >= 1 => sawDigit
        /\ c = Underscore => Means(r, b, k + 1, exact)
        /\ c # Underscore => Means(r, b, k + 1, exact * base + DigitValue[c])
  BY <1>1, ProgressStep, Zenon
<1>3. rest' = Tail(rest) /\ base' = base /\ negative' = negative BY Zenon DEF ReadDigit
<1>4. c = Underscore \/ c # Underscore OBVIOUS
<1>5. \/ c = Underscore /\ exact' = exact /\ sawDigit' = sawDigit
      \/ c \in DigitsOf(base) /\ exact' = exact * base + DigitValue[c] /\ sawDigit'
  BY Zenon DEF ReadDigit
<1>6. Underscore \notin DigitsOf(base) BY NoUnderscore
<1>7. Means(r, b, k + 1, exact') BY <1>2, <1>5, <1>6, Zenon
<1>8. sawDigit'
  <2>1. k = 0 \/ k >= 1 BY <1>2
  <2> QED BY <1>2, <1>5, <1>6, <2>1, Zenon
<1>9. k + 1 \in 0 .. Len(r)
  <2>1. ASSUME NEW C, NEW q \in Seq(C), NEW i \in 0 .. Len(q) - 1 PROVE i + 1 \in 0 .. Len(q)
    OBVIOUS
  <2>2. r \in Seq(STRING) BY <1>0, NumeralOf
  <2> QED BY <1>2, <2>1, <2>2, Zenon
<1> QED BY <1>0, <1>2, <1>3, <1>7, <1>8, <1>9, Zenon DEF Progress

LEMMA GoingIs == ASSUME NEW t, text.chars = t, text'.chars = t
                 PROVE  (Going <=> Progress(t)) /\ (Progress(t)' => Going')
  BY DEF Going, Progress

LEMMA NumberInductive == IInv /\ SInv /\ NInv /\ [Next]_vars => NInv'
<1> SUFFICES ASSUME IInv, SInv, NInv, [Next]_vars, ~IsStamp(text')
             PROVE  /\ text'.chars \in Numbers
                    /\ pc' \in {"bare", "digits", "done"}
                    /\ pc' = "digits" => Going'
                    /\ pc' = "done" => /\ outcome' = Verdict(text'.chars)
                                       /\ outcome' = "integer" => value' = Denoted(text'.chars)
  BY DEF NInv
<1>1. CASE WriteStamp
  <2>1. pc = "value" BY <1>1 DEF WriteStamp
  <2>2. IsStamp(text) BY <2>1 DEF NInv
  <2>3. text' = text \/ text' = Marshalled(value) BY <1>1 DEF WriteStamp, Reject
  <2>4. IsStamp(Marshalled(value)) BY DEF IsStamp, Marshalled
  <2>5. IsStamp(text') BY <2>2, <2>3, <2>4
  <2> QED BY <2>5
<1>2. CASE ~WriteStamp
  <2>0. text' = text
    BY <1>2 DEF Next, ClassifyBareValue, BeginInteger, ReadDigit, EndInteger, ReadStamp, Assign, Reject, vars
  <2>1. ~IsStamp(text) BY <2>0
  <2>9. PICK t \in Numbers : text.chars = t BY <2>1 DEF NInv
  <2>10. (Going <=> Progress(t)) /\ (Progress(t)' => Going') BY <2>0, <2>9, GoingIs
  <2>2. /\ pc \in {"bare", "digits", "done"}
        /\ pc = "digits" => Progress(t)
        /\ pc = "done" => /\ outcome = Verdict(t)
                          /\ outcome = "integer" => value = Denoted(t)
    BY <2>1, <2>9, <2>10 DEF NInv
  <2> SUFFICES /\ pc' \in {"bare", "digits", "done"}
               /\ pc' = "digits" => Progress(t)'
               /\ pc' = "done" => /\ outcome' = Verdict(t)
                                  /\ outcome' = "integer" => value' = Denoted(t)
    BY <2>0, <2>9, <2>10
  <2>3. CASE ClassifyBareValue
    <3>1. CASE pc' # "digits"
      <4>1. outcome' = Verdict(t) /\ outcome' # "integer" /\ pc' = "done"
        BY <2>1, <2>9, <2>3, <3>1, Classified
      <4> QED BY <4>1
    <3>2. CASE pc' = "digits"
      <4>1. isIntCandidate(t) /\ ~hasCapitalNumericPrefix(t) /\ BeginInteger
        BY <2>3, <2>9, <3>2 DEF ClassifyBareValue, Reject
      <4>2. Progress(t)' BY <2>9, <4>1, ProgressBegins
      <4> QED BY <3>2, <4>2
    <3> QED BY <3>1, <3>2
  <2>4. CASE ReadDigit
    <3>1. pc = "digits" /\ rest # << >> /\ Progress(t) BY <2>2, <2>4 DEF ReadDigit
    <3>2. CASE Reject
      <4>1. Head(rest) # Underscore /\ (Head(rest) \in DigitsOf(base) => OverLimit(DigitValue[Head(rest)]))
        BY <2>4, <3>1, <3>2 DEF ReadDigit, Reject
      <4>2. Head(rest) \in DigitsOf(base) BY <2>9, <3>1, <4>1, ProgressStep
      <4>3. ~Representable(t) BY <2>9, <3>1, <4>1, <4>2, RefusedUnfit
      <4>4. isIntCandidate(t) /\ ~hasCapitalNumericPrefix(t) BY <3>1, Zenon DEF Progress
      <4>5. TomlInteger(t) /\ ~TomlFloat(t) BY <4>4, OfNumbers, IntegerIs, NoFloat, Zenon
      <4>6. Verdict(t) = "malformed" BY <4>3, <4>5, Verdicts, Zenon
      <4> QED BY <3>2, <4>6 DEF Reject
    <3>3. CASE ~Reject
      <4>1. Progress(t)' BY <2>9, <2>4, <3>1, <3>3, ProgressReads
      <4>2. pc' = "digits" BY <2>4, <3>1, <3>3 DEF ReadDigit
      <4> QED BY <4>1, <4>2
    <3> QED BY <3>2, <3>3
  <2>5. CASE EndInteger
    <3>1. pc = "digits" /\ rest = << >> /\ Progress(t) BY <2>2, <2>5 DEF EndInteger
    <3>2. sawDigit /\ Representable(t) /\ Denoted(t) = IF negative THEN -exact ELSE exact
      BY <2>9, <3>1, TakenExact
    <3>3. outcome' = "integer" /\ pc' = "done" /\ negative' = negative /\ exact' = exact
      BY <2>5, <3>2 DEF EndInteger, number
    <3>4. value' = Denoted(t) BY <2>5, <3>2, <3>3, Signs
    <3>5. TomlInteger(t) /\ ~TomlFloat(t)
      <4>1. isIntCandidate(t) /\ ~hasCapitalNumericPrefix(t) BY <3>1, Zenon DEF Progress
      <4> QED BY <4>1, OfNumbers, IntegerIs, NoFloat, Zenon
    <3>6. Verdict(t) = "integer" BY <3>2, <3>5, Verdicts, Zenon
    <3> QED BY <3>3, <3>4, <3>6
  <2>6. CASE ReadStamp BY <2>1, <2>6 DEF ReadStamp
  <2>7. CASE Assign BY <2>2, <2>7 DEF Assign
  <2>8. CASE UNCHANGED vars
    <3>1. Progress(t)' <=> Progress(t) BY <2>8 DEF vars, number, Progress
    <3> QED BY <2>2, <2>8, <3>1 DEF vars
  <2> QED BY <1>2, <2>3, <2>4, <2>5, <2>6, <2>7, <2>8 DEF Next
<1> QED BY <1>1, <1>2

\* What TOML calls a number is taken as what it is and has its exact value, and an integer
\* is refused only when it does not fit, for all texts and integers of any width: the
\* recognisers of classifyBareValue, parseIntegerLiteral and parseUintLiteralDigits
\* together (decoder.go:1177-1390, value.go:1243-1316).
THEOREM Exactness == Spec => []NumbersExact
<1>1. NInv => NumbersExact BY DEF NInv, NumbersExact, Verdict
<1>2. Init => SInv BY DEF Init, SInv, SignExact
<1> QED BY <1>1, <1>2, NumberStarts, Starts, Inductive, SignInductive, NumberInductive, PTL DEF Spec

-----------------------------------------------------------------------------
(* The digits of a fraction.                                               *)

\* A quotient and a remainder are known by what they make up.
LEMMA Division ==
  ASSUME NEW p \in Nat, p >= 1, NEW e \in Nat, NEW s \in Nat, s < p, NEW n, n = p * e + s
  PROVE  n \div p = e /\ n % p = s
<1>1. n \in Nat /\ n \in Int BY SMT
<1>2. PICK d \in Int, m \in Int : d = n \div p /\ m = n % p /\ n = p * d + m /\ 0 <= m /\ m < p
  BY <1>1, SMT
<1>3. ~(d < e)
  <2> SUFFICES ASSUME d < e PROVE FALSE OBVIOUS
  <2>1. PICK x \in Nat : e = d + 1 + x
    <3>1. e - d - 1 \in Nat /\ e = d + 1 + (e - d - 1) OBVIOUS
    <3> QED BY <3>1
  <2>2. p * e = p * d + p + p * x BY <2>1
  <2>3. p * x \in Nat BY <2>1
  <2>4. p * d \in Int OBVIOUS
  <2> QED BY <1>2, <2>2, <2>3, <2>4
<1>4. ~(d > e)
  <2> SUFFICES ASSUME d > e PROVE FALSE OBVIOUS
  <2>1. PICK x \in Nat : d = e + 1 + x
    <3>1. d - e - 1 \in Nat /\ d = e + 1 + (d - e - 1) OBVIOUS
    <3> QED BY <3>1
  <2>2. p * d = p * e + p + p * x BY <2>1
  <2>3. p * x \in Nat BY <2>1
  <2>4. p * e \in Int OBVIOUS
  <2> QED BY <1>2, <2>2, <2>3, <2>4
<1>5. d = e BY <1>2, <1>3, <1>4
<1> QED BY <1>2, <1>5

LEMMA Quotient ==
  ASSUME NEW p \in Nat, p >= 1, NEW n \in Nat
  PROVE  n \div p \in Nat /\ n % p \in Nat /\ n % p < p /\ n = p * (n \div p) + (n % p)
  OBVIOUS

\* Taking one digit more.
LEMMA NextDigit ==
  ASSUME NEW q \in Nat, q >= 1, NEW n \in Nat
  PROVE  q * (n \div q) = (10 * q) * (n \div (10 * q)) + q * ((n \div q) % 10)
<1>1. PICK a \in Nat, r \in Nat : a = n \div q /\ r < q /\ n = q * a + r BY Quotient
<1>2. PICK e \in Nat, f \in Nat : e = a \div 10 /\ f = a % 10 /\ f <= 9 /\ a = 10 * e + f BY <1>1
<1>3. q * a = (10 * q) * e + q * f BY <1>2
<1>4. q * f + r \in Nat /\ q * f + r < 10 * q
  <2>1. PICK g \in Nat : 9 = f + g
    <3>1. 9 - f \in Nat /\ 9 = f + (9 - f) BY <1>2
    <3> QED BY <3>1
  <2>2. q * 9 = q * f + q * g BY <2>1
  <2>3. q * g \in Nat /\ q * f \in Nat BY <1>2, <2>1
  <2> QED BY <1>1, <2>2, <2>3
<1>5. n = (10 * q) * e + (q * f + r) BY <1>1, <1>3
<1>6. 10 * q \in Nat /\ 10 * q >= 1 BY SMT
<1>7. n \div (10 * q) = e BY <1>4, <1>5, <1>6, Division
<1> QED BY <1>1, <1>2, <1>3, <1>7

Ten(k) == 10 ^ (FractionDigits - k)

LEMMA TenIs ==
  /\ FractionDigits \in Nat
  /\ \A k \in 0 .. FractionDigits : Ten(k) \in Nat /\ Ten(k) >= 1
  /\ \A k \in 0 .. FractionDigits - 1 : Ten(k) = 10 * Ten(k + 1)
<1>1. FractionDigits \in Nat /\ Powers(10, FractionDigits)
  <2>1. 10 ^ 0 = 1 /\ 10 \in Nat \ {0} OBVIOUS
  <2> QED BY <2>1, TenAssumption, Zenon DEF Powers
<1>2. \A k \in 0 .. FractionDigits : 10 ^ k \in Nat /\ 10 ^ k >= 1 BY <1>1, PowerNat
<1>3. \A k \in 0 .. FractionDigits : FractionDigits - k \in 0 .. FractionDigits BY <1>1
<1>4. ASSUME NEW k \in 0 .. FractionDigits - 1 PROVE Ten(k) = 10 * Ten(k + 1)
  <2>1. FractionDigits - k \in 1 .. FractionDigits /\ (FractionDigits - k) - 1 = FractionDigits - (k + 1)
    BY <1>1
  <2> QED BY <2>1, TenAssumption DEF Ten
<1> QED BY <1>1, <1>2, <1>3, <1>4 DEF Ten

\* The first k digits of a fraction in nanoseconds.
Worth(frac) == [i \in 1 .. Len(frac) |-> frac[i] * Ten(i)]
UpToDigit(frac, k) == SumFunctionOnSet(Worth(frac), 1 .. k)

AddsUp(w, s, x) == SumFunctionOnSet(w, s) = w[x] + SumFunctionOnSet(w, s \ {x})

LEMMA SumOne ==
  ASSUME NEW D, IsFiniteSet(D), NEW w \in [D -> Nat], NEW s \in SUBSET D, NEW x \in s
  PROVE  AddsUp(w, s, x)
<1>1. \A y \in s : SumFunctionOnSet(w, s) = w[y] + SumFunctionOnSet(w, s \ {y}) BY SumStep
<1> QED BY <1>1 DEF AddsUp

LEMMA WorthStep ==
  ASSUME NEW frac \in Seq(0 .. 9), Len(frac) <= FractionDigits
  PROVE  /\ UpToDigit(frac, 0) = 0
         /\ \A k \in 0 .. Len(frac) : UpToDigit(frac, k) \in Nat
         /\ \A k \in 0 .. Len(frac) - 1 :
              UpToDigit(frac, k + 1) = frac[k + 1] * Ten(k + 1) + UpToDigit(frac, k)
         /\ nanoseconds(frac) = IF frac = Absent THEN 0 ELSE UpToDigit(frac, Len(frac))
<1> DEFINE L == Len(frac)
<1>1. L \in Nat /\ DOMAIN frac = 1 .. L /\ \A i \in 1 .. L : frac[i] \in Nat OBVIOUS
<1>2. IsFiniteSet(1 .. L) BY <1>1, UpTo
<1>3. Worth(frac) \in [1 .. L -> Nat]
  <2>1. ASSUME NEW i \in 1 .. L PROVE frac[i] * Ten(i) \in Nat
    <3>1. i \in 0 .. FractionDigits BY <1>1, TenIs
    <3>2. Ten(i) \in Nat BY <3>1, TenIs
    <3> QED BY <1>1, <3>2
  <2> QED BY <2>1 DEF Worth
<1>4. \A k \in 0 .. L : (1 .. k) \in SUBSET (1 .. L) BY <1>1
<1>5. UpToDigit(frac, 0) = 0
  <2>1. 1 .. 0 = {} /\ {} \in SUBSET (1 .. L) OBVIOUS
  <2> QED BY <1>2, <1>3, <2>1, SumStep DEF UpToDigit
<1>6. \A k \in 0 .. L : UpToDigit(frac, k) \in Nat BY <1>2, <1>3, <1>4, SumStep DEF UpToDigit
<1>7. ASSUME NEW k \in 0 .. L - 1
      PROVE  UpToDigit(frac, k + 1) = frac[k + 1] * Ten(k + 1) + UpToDigit(frac, k)
  <2>1. k + 1 \in 1 .. k + 1 /\ (1 .. k + 1) \ {k + 1} = 1 .. k /\ k + 1 \in 0 .. L /\ k + 1 \in 1 .. L
    BY <1>1
  <2>2. UpToDigit(frac, k + 1) = Worth(frac)[k + 1] + SumFunctionOnSet(Worth(frac), (1 .. k + 1) \ {k + 1})
    <3>1. PICK T \in SUBSET (1 .. L) : T = 1 .. k + 1 BY <1>4, <2>1
    <3>2. k + 1 \in T BY <2>1, <3>1
    <3>3. AddsUp(Worth(frac), T, k + 1) BY <1>2, <1>3, <3>2, SumOne
    <3> QED BY <3>1, <3>3, Zenon DEF UpToDigit, AddsUp
  <2>3. Worth(frac)[k + 1] = frac[k + 1] * Ten(k + 1) BY <2>1 DEF Worth
  <2> QED BY <2>1, <2>2, <2>3 DEF UpToDigit
<1>8. frac # Absent => nanoseconds(frac) = UpToDigit(frac, L)
  <2>1. Worth(frac) = [i \in DOMAIN frac |-> frac[i] * 10 ^ (FractionDigits - i)]
    BY <1>1 DEF Worth, Ten
  <2>2. DOMAIN Worth(frac) = 1 .. L BY DEF Worth
  <2>3. frac # Absent => nanoseconds(frac) = SumFunction(Worth(frac))
    BY <2>1, Zenon DEF nanoseconds
  <2> QED BY <2>2, <2>3, Zenon DEF UpToDigit, SumFunction
<1>9. frac = Absent => nanoseconds(frac) = 0 BY Zenon DEF nanoseconds
<1> QED BY <1>5, <1>6, <1>7, <1>8, <1>9

\* What is read has no more digits than the fraction.
LEMMA ReadDigits ==
  ASSUME NEW frac \in Seq(0 .. 9), Len(frac) <= FractionDigits, frac # Absent
  PROVE  nanoseconds(frac) \in Nat /\ nanoseconds(frac) % Ten(Len(frac)) = 0
<1> DEFINE L == Len(frac)
           S == {k \in Nat : k <= L => \E e \in Nat : UpToDigit(frac, k) = Ten(k) * e}
<1>0. L \in Nat /\ \A i \in 1 .. L : frac[i] \in Nat OBVIOUS
<1>1. 0 \in S
  <2>1. UpToDigit(frac, 0) = 0 BY WorthStep
  <2>2. 0 \in 0 .. FractionDigits BY TenIs
  <2>3. Ten(0) * 0 = 0 BY <2>2, TenIs
  <2> QED BY <2>1, <2>3
<1>2. ASSUME NEW k \in Nat, k \in S PROVE k + 1 \in S
  <2> SUFFICES ASSUME k + 1 <= L PROVE \E e \in Nat : UpToDigit(frac, k + 1) = Ten(k + 1) * e
    OBVIOUS
  <2>1. PICK e \in Nat : UpToDigit(frac, k) = Ten(k) * e BY <1>2
  <2>2. /\ k \in 0 .. FractionDigits - 1 /\ k + 1 \in 0 .. FractionDigits
        /\ k \in 0 .. L - 1 /\ k + 1 \in 1 .. L
    BY <1>0, TenIs
  <2>3. PICK q \in Nat : q = Ten(k + 1) BY <2>2, TenIs
  <2>4. Ten(k) = 10 * q BY <2>2, <2>3, TenIs
  <2>5. PICK f \in Nat : f = frac[k + 1] BY <1>0, <2>2
  <2>6. UpToDigit(frac, k + 1) = f * q + UpToDigit(frac, k) BY <2>2, <2>3, <2>5, WorthStep
  <2>7. UpToDigit(frac, k + 1) = f * q + (10 * q) * e BY <2>1, <2>4, <2>6
  <2>8. f * q + (10 * q) * e = q * (10 * e + f) BY SMT
  <2>9. 10 * e + f \in Nat OBVIOUS
  <2> QED BY <2>3, <2>7, <2>8, <2>9
<1>3. Nat \subseteq S
  <2> HIDE DEF S
  <2> QED BY <1>1, <1>2, Induct
<1>4. PICK e \in Nat : UpToDigit(frac, L) = Ten(L) * e
  <2>1. L \in S BY <1>0, <1>3
  <2> QED BY <1>0, <2>1
<1>5. nanoseconds(frac) = Ten(L) * e BY <1>4, WorthStep
<1>6. L \in 0 .. FractionDigits BY <1>0, TenIs
<1>7. PICK p \in Nat : p = Ten(L) /\ p >= 1 BY <1>6, TenIs
<1>8. p * e = p * e + 0 /\ p * e \in Nat /\ 0 < p BY <1>7
<1>9. (p * e) % p = 0 BY <1>7, <1>8, Division
<1> QED BY <1>5, <1>7, <1>8, <1>9

LEMMA DigitsInt ==
  ASSUME NEW n \in Nat, NEW g \in 0 .. FractionDigits, NEW i \in 1 .. g
  PROVE  (n \div 10 ^ (FractionDigits - i)) % 10 \in 0 .. 9
<1>1. i \in 0 .. FractionDigits
  <2>1. FractionDigits \in Nat BY TenIs
  <2> QED BY <2>1
<1>2. PICK a \in Nat : a = n \div Ten(i) BY <1>1, TenIs, Quotient
<1>3. a % 10 \in 0 .. 9 OBVIOUS
<1> QED BY <1>2, <1>3, Zenon DEF Ten

\* What is written from a number of nanoseconds is worth them again, if they have no more
\* digits than are written.
LEMMA WrittenDigits ==
  ASSUME NEW n \in Nat, n < Second, NEW digits \in 0 .. FractionDigits, n % Ten(digits) = 0,
         NEW frac, frac = [i \in 1 .. digits |-> (n \div 10 ^ (FractionDigits - i)) % 10],
         frac # Absent
  PROVE  frac \in Seq(0 .. 9) /\ Len(frac) = digits /\ nanoseconds(frac) = n
<1> DEFINE S == {k \in Nat : k <= digits => UpToDigit(frac, k) = Ten(k) * (n \div Ten(k))}
<1>0. digits \in Nat /\ digits <= FractionDigits /\ FractionDigits \in Nat
  <2>1. FractionDigits \in Nat BY TenIs
  <2> QED BY <2>1
<1>1. \A i \in 1 .. digits : frac[i] = (n \div Ten(i)) % 10 /\ frac[i] \in 0 .. 9
  <2>1. ASSUME NEW i \in 1 .. digits PROVE frac[i] = (n \div Ten(i)) % 10 /\ frac[i] \in 0 .. 9
    <3>1. i \in 0 .. FractionDigits BY <1>0
    <3>2. PICK a \in Nat : a = n \div Ten(i) BY <3>1, TenIs, Quotient
    <3>3. frac[i] = a % 10 BY <3>2 DEF Ten
    <3>4. a % 10 \in 0 .. 9 OBVIOUS
    <3> QED BY <3>2, <3>3, <3>4
  <2> QED BY <2>1
<1>2. frac \in Seq(0 .. 9) /\ Len(frac) = digits
  <2>1. frac \in [1 .. digits -> 0 .. 9] BY <1>1
  <2> QED BY <1>0, <2>1
<1> HIDE DEF S
<1>3. 0 \in S
  <2>1. UpToDigit(frac, 0) = 0 BY <1>0, <1>2, WorthStep
  <2>2. Ten(0) = Second BY TenIs DEF Ten, Second
  <2>3. PICK p \in Nat : p = Ten(0) /\ p >= 1 /\ n < p
    <3>1. 0 \in 0 .. FractionDigits BY TenIs
    <3> QED BY <2>2, <3>1, TenIs
  <2>4. n = p * 0 + n /\ p * 0 = 0 BY <2>3
  <2>5. n \div p = 0 BY <2>3, <2>4, Division
  <2>6. Ten(0) * (n \div Ten(0)) = 0 BY <2>3, <2>4, <2>5
  <2> QED BY <2>1, <2>6 DEF S
<1>4. ASSUME NEW k \in Nat, k \in S PROVE k + 1 \in S
  <2> SUFFICES ASSUME k + 1 <= digits
               PROVE  UpToDigit(frac, k + 1) = Ten(k + 1) * (n \div Ten(k + 1))
    BY DEF S
  <2>1. UpToDigit(frac, k) = Ten(k) * (n \div Ten(k)) BY <1>4, <1>0 DEF S
  <2>2. /\ k \in 0 .. FractionDigits - 1 /\ k + 1 \in 0 .. FractionDigits
        /\ k \in 0 .. Len(frac) - 1 /\ k + 1 \in 1 .. digits
    BY <1>0, <1>2, TenIs
  <2>3. PICK q \in Nat : q = Ten(k + 1) /\ q >= 1 BY <2>2, TenIs
  <2>4. Ten(k) = 10 * q BY <2>2, <2>3, TenIs
  <2>5. UpToDigit(frac, k + 1) = frac[k + 1] * Ten(k + 1) + UpToDigit(frac, k)
    BY <1>0, <1>2, <2>2, WorthStep
  <2>6. PICK f \in Nat : f = frac[k + 1] /\ f = (n \div q) % 10 BY <1>1, <2>2, <2>3
  <2>7. q * (n \div q) = (10 * q) * (n \div (10 * q)) + q * f
    <3>1. q * (n \div q) = (10 * q) * (n \div (10 * q)) + q * ((n \div q) % 10)
      BY <2>3, NextDigit, Zenon
    <3> QED BY <2>6, <3>1, Zenon
  <2>8. UpToDigit(frac, k + 1) = f * q + (10 * q) * (n \div (10 * q))
    BY <2>1, <2>3, <2>4, <2>5, <2>6
  <2>9. PICK z \in Nat : z = (10 * q) * (n \div (10 * q))
    <3>1. 10 * q \in Nat /\ 10 * q >= 1 BY <2>3
    <3>2. PICK a \in Nat : a = n \div (10 * q) BY <3>1, Quotient
    <3> QED BY <3>1, <3>2
  <2>10. f * q + z = z + q * f OBVIOUS
  <2> QED BY <2>3, <2>7, <2>8, <2>9, <2>10
<1>5. digits \in S
  <2>1. Nat \subseteq S BY <1>3, <1>4, Induct
  <2> QED BY <1>0, <2>1
<1>6. UpToDigit(frac, digits) = Ten(digits) * (n \div Ten(digits)) BY <1>0, <1>5 DEF S
<1>7. PICK p \in Nat : p = Ten(digits) /\ p >= 1 BY TenIs
<1>8. n = p * (n \div p) + (n % p) /\ n \div p \in Nat BY <1>7, Quotient
<1>9. p * (n \div p) = n
  <2>1. PICK a \in Nat : a = n \div p BY <1>8
  <2>2. n % p = 0 BY <1>7
  <2>3. n = p * a + 0 BY <1>8, <2>1, <2>2
  <2> QED BY <1>7, <2>1, <2>3
<1>10. nanoseconds(frac) = UpToDigit(frac, digits) BY <1>0, <1>2, WorthStep
<1> QED BY <1>2, <1>6, <1>7, <1>9, <1>10

-----------------------------------------------------------------------------
(* Dates and times read back.                                              *)

ClockOf(h, m, s, n, g, b) ==
  [h |-> h, m |-> m, s |-> s, nanos |-> n, digits |-> g, hasSecond |-> b]

\* A time as it is read, perhaps with other numbers in its public fields.
Timed(c) == \E h, m, s, n \in Int, g \in 0 .. FractionDigits, b \in BOOLEAN :
              c = ClockOf(h, m, s, n, g, b) /\ (~b => g = 0)

LEMMA TimedPresent == ASSUME NEW c, Timed(c) PROVE c # Absent
<1>1. PICK h \in Int, m \in Int, s \in Int, n \in Int, g \in 0 .. FractionDigits, b \in BOOLEAN :
        c = ClockOf(h, m, s, n, g, b)
  BY DEF Timed
<1>2. g \in Int BY TenIs
<1>3. c \in [h : Int, m : Int, s : Int, nanos : Int, digits : Int, hasSecond : BOOLEAN]
  BY <1>1, <1>2 DEF ClockOf
<1> QED BY <1>3, AbsentAssumption, Zenon

\* A time that is read has lost nothing yet.
LEMMA ReadTimed ==
  ASSUME NEW t, Subseconds(t), validateLocalClock(Clock(t)), t.frac \in Seq(0 .. 9) \cup {Absent}
  PROVE  Timed(Clock(t)) /\ ~Dropped(Clock(t))
<1> DEFINE c == Clock(t)
           b == (t.s # Absent)
           g == IF t.frac = Absent THEN 0 ELSE Len(t.frac)
           n == nanoseconds(t.frac)
           s == IF t.s = Absent THEN 0 ELSE t.s
<1>1. c = ClockOf(t.h, t.m, s, n, g, b) /\ b \in BOOLEAN BY DEF Clock, ClockOf
<1>2. n \in Nat /\ g \in 0 .. FractionDigits /\ n % Ten(g) = 0
  <2>1. CASE t.frac = Absent
    <3>1. n = 0 /\ g = 0 BY <2>1 DEF nanoseconds
    <3>2. 0 \in 0 .. FractionDigits BY TenIs
    <3>3. PICK p \in Nat : p = Ten(0) /\ p >= 1 BY <3>2, TenIs
    <3>4. 0 % p = 0 BY <3>3
    <3> QED BY <3>1, <3>2, <3>3, <3>4
  <2>2. CASE t.frac # Absent
    <3>1. t.frac \in Seq(0 .. 9) /\ Len(t.frac) \in 1 .. FractionDigits /\ g = Len(t.frac)
      BY <2>2 DEF Subseconds
    <3>2. Len(t.frac) <= FractionDigits /\ Len(t.frac) \in 0 .. FractionDigits BY <3>1, TenIs
    <3> QED BY <2>2, <3>1, <3>2, ReadDigits
  <2> QED BY <2>1, <2>2
<1>3. t.h \in Int /\ t.m \in Int /\ s \in Int
  <2>1. c.h = t.h /\ c.m = t.m /\ c.s = s BY <1>1 DEF ClockOf
  <2>2. c.h \in 0 .. 23 /\ c.m \in 0 .. 59 /\ c.s \in 0 .. 59 BY Zenon DEF validateLocalClock
  <2>3. (\A x \in 0 .. 23 : x \in Int) /\ (\A x \in 0 .. 59 : x \in Int) OBVIOUS
  <2> HIDE DEF c, s
  <2> QED BY <2>1, <2>2, <2>3, Zenon
<1>4. ~b => g = 0 /\ s = 0 BY DEF Subseconds
<1>5. n \in Int BY <1>2
<1> HIDE DEF c, b, g, n, s
<1>6. Timed(c) BY <1>1, <1>2, <1>3, <1>4, <1>5 DEF Timed
<1>7. c.s = s /\ c.nanos = n /\ c.digits = g /\ c.hasSecond = b BY <1>1 DEF ClockOf
<1>8. ~Dropped(c) BY <1>2, <1>4, <1>7 DEF Dropped, Ten
<1> QED BY <1>6, <1>8 DEF c

\* What is written of a time is read as that time.
LEMMA ClockReadsBack ==
  ASSUME NEW c, Timed(c), validateLocalClock(c), ~Dropped(c)
  PROVE  appendTime(c) # Absent /\ Subseconds(appendTime(c)) /\ Clock(appendTime(c)) = c
<1> DEFINE t == appendTime(c)
           frac == [i \in 1 .. c.digits |-> (c.nanos \div 10 ^ (FractionDigits - i)) % 10]
<1>1. PICK h \in Int, m \in Int, s \in Int, n \in Int, g \in 0 .. FractionDigits, b \in BOOLEAN :
        c = ClockOf(h, m, s, n, g, b) /\ (~b => g = 0)
  BY DEF Timed
<1>2. c.h = h /\ c.m = m /\ c.s = s /\ c.nanos = n /\ c.digits = g /\ c.hasSecond = b
  BY <1>1 DEF ClockOf
<1>3. n \in Nat /\ n < Second /\ (g = 0 => n = 0)
  <2>1. n \in 0 .. Second - 1 /\ (g = 0 => n = 0) BY <1>2 DEF validateLocalClock
  <2>2. Second \in Nat
    <3>1. 0 \in 0 .. FractionDigits /\ Second = Ten(0) BY TenIs DEF Second, Ten
    <3> QED BY <3>1, TenIs
  <2> QED BY <2>1, <2>2
<1>4. (~b => s = 0) /\ n % Ten(g) = 0 BY <1>2 DEF Dropped, Ten
<1>5. h # Absent /\ m # Absent /\ s # Absent BY AbsentAssumption
<1>6. g \in Nat /\ g <= FractionDigits BY TenIs
<1>7. t = ClockText(h, m, IF b THEN s ELSE Absent, IF b /\ g > 0 THEN frac ELSE Absent)
  BY <1>2, Zenon DEF appendTime
<1>8. frac \in Seq(0 .. 9) /\ Len(frac) = g /\ nanoseconds(frac) = n /\ frac # Absent
  <2>1. frac = [i \in 1 .. g |-> (n \div 10 ^ (FractionDigits - i)) % 10] BY <1>2
  <2> HIDE DEF frac
  <2>2. frac # Absent
    <3>0. \A i \in 1 .. g : (n \div 10 ^ (FractionDigits - i)) % 10 \in 0 .. 9 BY <1>3, DigitsInt
    <3>1. frac \in [1 .. g -> Int] BY <2>1, <3>0
    <3>2. frac \in Seq(Int) BY <1>6, <3>1
    <3> QED BY <3>2, AbsentAssumption, Zenon
  <2> QED BY <1>3, <1>4, <2>1, <2>2, WrittenDigits
<1> HIDE DEF frac, t
<1>9. CASE b /\ g > 0
  <2>1. t = ClockText(h, m, s, frac) BY <1>7, <1>9
  <2>2. t.h = h /\ t.m = m /\ t.s = s /\ t.frac = frac BY <2>1 DEF ClockText
  <2>3. frac \in Seq(Int)
    <3>1. Seq(0 .. 9) \subseteq Seq(Int) OBVIOUS
    <3> QED BY <1>8, <3>1, Zenon
  <2>4. t # Absent
    <3>1. t \in [h : Int, m : Int, s : Int \cup {Absent}, frac : Seq(Int) \cup {Absent}]
      BY <2>1, <2>3 DEF ClockText
    <3> QED BY <3>1, AbsentAssumption, Zenon
  <2>5. Subseconds(t) BY <1>5, <1>6, <1>8, <1>9, <2>2 DEF Subseconds
  <2>6. Clock(t) = ClockOf(h, m, s, n, g, TRUE) BY <1>5, <1>8, <2>2 DEF Clock, ClockOf
  <2> QED BY <1>1, <1>9, <2>4, <2>5, <2>6 DEF t
<1>10. CASE ~(b /\ g > 0)
  <2>0. g = 0 /\ n = 0 BY <1>1, <1>3, <1>6, <1>10
  <2>1. t = ClockText(h, m, IF b THEN s ELSE Absent, Absent) BY <1>7, <1>10
  <2>2. t.h = h /\ t.m = m /\ t.s = (IF b THEN s ELSE Absent) /\ t.frac = Absent
    BY <2>1 DEF ClockText
  <2>4. t # Absent
    <3>1. t \in [h : Int, m : Int, s : Int \cup {Absent}, frac : Seq(Int) \cup {Absent}]
      BY <2>1 DEF ClockText
    <3> QED BY <3>1, AbsentAssumption, Zenon
  <2>5. Subseconds(t) BY <2>2 DEF Subseconds
  <2>6. nanoseconds(t.frac) = 0 BY <2>2 DEF nanoseconds
  <2>7. Clock(t) = ClockOf(h, m, s, n, g, b)
    <3>1. CASE b BY <1>5, <2>0, <2>2, <2>6, <3>1 DEF Clock, ClockOf
    <3>2. CASE ~b BY <1>4, <2>0, <2>2, <2>6, <3>2 DEF Clock, ClockOf
    <3> QED BY <3>1, <3>2
  <2> QED BY <1>1, <2>4, <2>5, <2>7 DEF t
<1> QED BY <1>9, <1>10

\* A date and time of the program, read without a zone.
Stamped(v, d, c) == v = [date |-> d, zone |-> Absent, clock |-> c]

\* What MarshalText writes is read as what was written.
LEMMA RoundTrip ==
  ASSUME NEW v, NEW d, NEW c, Stamped(v, d, c), Marshals(v), d # Absent \/ c # Absent,
         c # Absent => Timed(c) /\ ~Dropped(c)
  PROVE  Parses(BareValue(Marshalled(v))) /\ Parsed(BareValue(Marshalled(v))) = v
<1> DEFINE k == IF c = Absent THEN Absent ELSE appendTime(c)
           sep == IF d # Absent /\ c # Absent THEN "T" ELSE "none"
           t == Marshalled(v)
<1>1. v.date = d /\ v.clock = c /\ v.zone = Absent BY DEF Stamped
<1>2. t = [date |-> d, zone |-> Absent, tail |-> FALSE, sep |-> sep, clock |-> k]
  BY <1>1 DEF Marshalled
<1>3. t.date = d /\ t.zone = Absent /\ t.tail = FALSE /\ t.sep = sep /\ t.clock = k BY <1>2
<1>4. sep # "space" /\ (c = Absent => k = Absent) /\ (d # Absent /\ c # Absent => sep = "T")
      /\ (d = Absent \/ c = Absent => sep = "none")
  OBVIOUS
<1>5. c # Absent => /\ k # Absent /\ Subseconds(k) /\ Clock(k) = c
                    /\ validateLocalClock(Clock(k))
  <2>1. c # Absent => validateLocalClock(c) BY <1>1 DEF Marshals
  <2>2. c # Absent => k = appendTime(c) OBVIOUS
  <2> HIDE DEF k
  <2> QED BY <2>1, <2>2, ClockReadsBack
<1>6. d # Absent => validateDate(d) BY <1>1, Zenon DEF Marshals
<1> HIDE DEF k, sep, t
<1>7. BareValue(t) = t BY <1>3, <1>4, Zenon DEF BareValue
<1>8. Parses(t)
  <2>1. CASE d # Absent /\ c = Absent
    <3>1. Shape(t) = "date" BY <1>3, <1>4, <2>1 DEF Shape
    <3> QED BY <1>3, <1>6, <2>1, <3>1 DEF Parses
  <2>2. CASE d # Absent /\ c # Absent
    <3>1. Shape(t) = "datetime" BY <1>3, <1>4, <2>2 DEF Shape
    <3> QED BY <1>3, <1>5, <1>6, <2>2, <3>1 DEF Parses
  <2>3. CASE d = Absent
    <3>1. Shape(t) = "time" BY <1>3, <1>4, <1>5, <2>3 DEF Shape
    <3> QED BY <1>3, <1>5, <2>3, <3>1 DEF Parses
  <2> QED BY <2>1, <2>2, <2>3
<1>9. Parsed(t) = v
  <2>1. Parsed(t) = [date |-> d, zone |-> Absent, clock |-> IF k = Absent THEN Absent ELSE Clock(k)]
    BY <1>3, Zenon DEF Parsed
  <2>2. (IF k = Absent THEN Absent ELSE Clock(k)) = c BY <1>4, <1>5
  <2> QED BY <2>1, <2>2 DEF Stamped
<1> QED BY <1>7, <1>8, <1>9 DEF t

\* A date or time that was read lost nothing yet; one the program changed is still one.
DInv == /\ pc = "bare" /\ IsStamp(text) => text \in Stamps
        /\ pc \in {"value", "written"} =>
             \E d, c : /\ Stamped(value, d, c) /\ (d # Absent \/ c # Absent)
                       /\ c # Absent => Timed(c) /\ (outcome # "edited" => ~Dropped(c))
        /\ pc = "written" => text = Marshalled(value) /\ Marshals(value)

LEMMA StampStarts == Init => DInv
<1> SUFFICES ASSUME Init PROVE IsStamp(text) => text \in Stamps
  BY DEF Init, DInv
<1>1. ASSUME NEW n PROVE ~IsStamp([chars |-> n])
  <2>1. DOMAIN [chars |-> n] = {"chars"} OBVIOUS
  <2> QED BY <2>1 DEF IsStamp
<1> QED BY <1>1 DEF Init

\* What is read of a text without a zone.
LEMMA ReadStamped ==
  ASSUME NEW t \in Stamps, NEW x, x = BareValue(t), Parses(x), x.zone = Absent
  PROVE  \E d, c : /\ Stamped(Parsed(x), d, c) /\ (d # Absent \/ c # Absent)
                   /\ c # Absent => Timed(c) /\ ~Dropped(c)
<1>1. /\ DOMAIN t = {"date", "sep", "clock", "zone", "tail"}
      /\ t.date # Absent /\ t.sep = "none" => t.clock = Absent
      /\ t.clock # Absent => t.clock.frac \in Seq(0 .. 9) \cup {Absent}
  BY TextsAssumption, Zenon
<1>2. /\ x.date # Absent /\ x.sep = "none" => x.clock = Absent
      /\ x.clock # Absent => x.clock.frac \in Seq(0 .. 9) \cup {Absent}
  <2>1. CASE x = t BY <1>1, <2>1
  <2>2. CASE x = [t EXCEPT !.sep = "none", !.clock = Absent, !.zone = Absent, !.tail = FALSE]
    <3>1. x.clock = Absent BY <1>1, <2>2
    <3> QED BY <3>1
  <2> QED BY <2>1, <2>2, Zenon DEF BareValue
<1> DEFINE c == IF x.clock = Absent THEN Absent ELSE Clock(x.clock)
<1>3. Stamped(Parsed(x), x.date, c) BY Zenon DEF Parsed, Stamped
<1>4. x.clock # Absent => Subseconds(x.clock) /\ validateLocalClock(Clock(x.clock))
  <2>1. Shape(x) = "date" => x.date # Absent /\ x.sep = "none" BY DEF Shape
  <2> QED BY <1>2, <2>1, Zenon DEF Parses
<1>5. x.clock # Absent => Timed(Clock(x.clock)) /\ ~Dropped(Clock(x.clock))
  BY <1>2, <1>4, ReadTimed
<1>6. x.clock # Absent => c # Absent BY <1>5, TimedPresent
<1>7. x.date # Absent \/ x.clock # Absent BY DEF Parses, Shape
<1>8. c # Absent => Timed(c) /\ ~Dropped(c) BY <1>5
<1> HIDE DEF c
<1> QED BY <1>3, <1>6, <1>7, <1>8, Zenon

LEMMA EditStamped ==
  ASSUME NEW v, NEW d, NEW c, Stamped(v, d, c), Timed(c), NEW e \in [1 .. 4 -> Int],
         NEW w, w = [v EXCEPT !.clock.h = e[1], !.clock.m = e[2], !.clock.s = e[3], !.clock.nanos = e[4]]
  PROVE  \E k : Stamped(w, d, k) /\ Timed(k)
<1>1. PICK h \in Int, m \in Int, s \in Int, n \in Int, g \in 0 .. FractionDigits, b \in BOOLEAN :
        c = ClockOf(h, m, s, n, g, b) /\ (~b => g = 0)
  BY DEF Timed
<1> DEFINE k == ClockOf(e[1], e[2], e[3], e[4], g, b)
<1>2. e[1] \in Int /\ e[2] \in Int /\ e[3] \in Int /\ e[4] \in Int OBVIOUS
<1>3. Timed(k) BY <1>1, <1>2 DEF Timed
<1>4. w = [date |-> d, zone |-> Absent, clock |-> k]
  <2>1. DOMAIN v = {"date", "zone", "clock"} /\ DOMAIN w = {"date", "zone", "clock"}
    BY DEF Stamped
  <2>2. w.date = v.date /\ w.zone = v.zone BY <2>1
  <2>3. w.clock = [v.clock EXCEPT !.h = e[1], !.m = e[2], !.s = e[3], !.nanos = e[4]]
    BY <2>1
  <2>4. v.date = d /\ v.zone = Absent /\ v.clock = ClockOf(h, m, s, n, g, b) BY <1>1 DEF Stamped
  <2>5. w.clock = k
    <3> DEFINE D == {"h", "m", "s", "nanos", "digits", "hasSecond"}
    <3>1. PICK y : y = ClockOf(h, m, s, n, g, b) OBVIOUS
    <3>2. DOMAIN y = D /\ y.digits = g /\ y.hasSecond = b BY <3>1 DEF ClockOf
    <3>3. PICK z : z = [y EXCEPT !.h = e[1], !.m = e[2], !.s = e[3], !.nanos = e[4]] OBVIOUS
    <3>4. z = [x \in D |-> z[x]] BY <3>2, <3>3
    <3>5. z.h = e[1] /\ z.m = e[2] BY <3>2, <3>3
    <3>6. z.s = e[3] /\ z.nanos = e[4] BY <3>2, <3>3
    <3>7. z.digits = g /\ z.hasSecond = b BY <3>2, <3>3
    <3>8. z = k BY <3>4, <3>5, <3>6, <3>7 DEF ClockOf
    <3> QED BY <2>3, <2>4, <3>1, <3>3, <3>8
  <2>6. w = [x \in {"date", "zone", "clock"} |-> w[x]] BY <2>1
  <2> HIDE DEF k
  <2> QED BY <2>2, <2>4, <2>5, <2>6
<1> QED BY <1>3, <1>4 DEF Stamped

LEMMA StampInductive == DInv /\ [Next]_vars => DInv'
<1> SUFFICES ASSUME DInv, [Next]_vars PROVE DInv'
  OBVIOUS
<1>1. CASE ClassifyBareValue
  BY <1>1 DEF ClassifyBareValue, BeginInteger, Reject, DInv
<1>2. CASE ReadDigit BY <1>2 DEF ReadDigit, Reject, DInv
<1>3. CASE EndInteger BY <1>3 DEF EndInteger, Reject, DInv
<1>4. CASE ReadStamp
  <2>1. text \in Stamps BY <1>4 DEF ReadStamp, DInv
  <2>2. CASE pc' = "done" BY <2>2 DEF DInv
  <2>3. CASE pc' # "done"
    <3>1. PICK x : x = BareValue(text) OBVIOUS
    <3>2. /\ Parses(x) /\ x.zone = Absent /\ value' = Parsed(x) /\ pc' = "value"
      BY <1>4, <2>3, <3>1 DEF ReadStamp, Reject
    <3>3. \E d, c : /\ Stamped(value', d, c) /\ (d # Absent \/ c # Absent)
                    /\ c # Absent => Timed(c) /\ ~Dropped(c)
      BY <2>1, <3>1, <3>2, ReadStamped
    <3> QED BY <3>2, <3>3 DEF DInv
  <2> QED BY <2>2, <2>3
<1>5. CASE Assign
  <2>1. pc = "value" /\ pc' = "value" /\ outcome' = "edited" /\ value.clock # Absent
    BY <1>5 DEF Assign
  <2>2. PICK e \in Edits :
          value' = [value EXCEPT !.clock.h = e[1], !.clock.m = e[2], !.clock.s = e[3], !.clock.nanos = e[4]]
    BY <1>5 DEF Assign
  <2>3. e \in [1 .. 4 -> Int] BY EditsAssumption
  <2>4. PICK d, c : Stamped(value, d, c) /\ (c # Absent => Timed(c)) BY <2>1 DEF DInv
  <2>5. c # Absent BY <2>1, <2>4 DEF Stamped
  <2>6. PICK k : Stamped(value', d, k) /\ Timed(k) BY <2>2, <2>3, <2>4, <2>5, EditStamped
  <2>7. k # Absent BY <2>6, TimedPresent
  <2> QED BY <2>1, <2>6, <2>7 DEF DInv
<1>6. CASE WriteStamp
  <2>1. CASE Reject BY <2>1 DEF Reject, DInv
  <2>2. CASE ~Reject
    <3>1. /\ pc = "value" /\ Marshals(value) /\ text' = Marshalled(value) /\ pc' = "written"
          /\ value' = value /\ outcome' = outcome
      BY <1>6, <2>2 DEF WriteStamp
    <3> QED BY <3>1 DEF DInv
  <2> QED BY <2>1, <2>2
<1>7. CASE UNCHANGED vars BY <1>7 DEF vars, DInv
<1> QED BY <1>1, <1>2, <1>3, <1>4, <1>5, <1>6, <1>7 DEF Next

\* What MarshalText writes is one value again, and the same: for every precision, every
\* date and time that can be read and all numbers a program may put into its fields, as
\* long as the text has room for them (datetime.go:51-233, datetime_parse.go:37-439,
\* decoder.go:1115-1175).
THEOREM StampsReadBack == Spec => []StampsKept
<1>1. DInv => StampsKept
  <2> SUFFICES ASSUME DInv, pc = "written",
                      ~(value.clock # Absent /\ outcome = "edited" /\ Dropped(value.clock))
               PROVE  Parses(BareValue(text)) /\ Parsed(BareValue(text)) = value
    BY DEF StampsKept
  <2>1. PICK d, c : /\ Stamped(value, d, c) /\ (d # Absent \/ c # Absent)
                    /\ c # Absent => Timed(c) /\ (outcome # "edited" => ~Dropped(c))
    BY DEF DInv
  <2>2. text = Marshalled(value) /\ Marshals(value) BY DEF DInv
  <2>3. value.clock = c BY <2>1 DEF Stamped
  <2>4. c # Absent => Timed(c) /\ ~Dropped(c) BY <2>1, <2>3
  <2> QED BY <2>1, <2>2, <2>4, RoundTrip
<1> QED BY <1>1, StampStarts, StampInductive, PTL DEF Spec
=============================================================================
