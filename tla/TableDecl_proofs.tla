--------------------------- MODULE TableDecl_proofs ---------------------------
(***************************************************************************)
(* Proofs about TableDecl.                                                 *)
(***************************************************************************)
EXTENDS TableDecl, SequenceTheorems, FiniteSetTheorems, WellFoundedInduction,
        NaturalsInduction, TLAPS

-----------------------------------------------------------------------------
(* Induction over the naturals, stated with sets.                          *)

\* The order of the naturals is well-founded.
LEMMA Less == \E R : IsWellFoundedOn(R, Nat) /\ \A x, y \in Nat : x < y => <<x, y>> \in R
<1>1. \A x, y \in Nat : x < y => <<x, y>> \in OpToRel(<, Nat)
  BY DEF OpToRel
<1> QED BY <1>1, NatLessThanWellFounded, Zenon

\* Every set of naturals with a member has a least one.
LEMMA Least == ASSUME NEW T, T \subseteq Nat, T # {}
               PROVE  \E n \in T : \A m \in T : n <= m
<1>0. PICK R : IsWellFoundedOn(R, Nat) /\ \A x, y \in Nat : x < y => <<x, y>> \in R
  BY Less
<1>1. PICK x \in T : \A y \in T : ~ (<<y, x>> \in R)
  <2>1. IsWellFoundedOn(R, Nat) BY <1>0
  <2> QED BY <2>1, WFMin, Zenon
<1>2. ASSUME NEW y \in T PROVE x <= y
  <2>1. x \in Nat /\ y \in Nat BY <1>1
  <2>2. ~ (<<y, x>> \in R) BY <1>1
  <2>3. ~ (y < x) BY <1>0, <2>1, <2>2
  <2> QED BY <2>1, <2>3
<1> QED BY <1>1, <1>2

\* A set with 0, and with every successor of its members, has every natural.
LEMMA Induct == ASSUME NEW S, 0 \in S, \A n \in Nat : n \in S => n + 1 \in S
                PROVE  Nat \subseteq S
<1> SUFFICES ASSUME Nat \ S # {} PROVE FALSE
  OBVIOUS
<1>1. PICK n \in Nat \ S : \A m \in Nat \ S : n <= m
  BY Least
<1>2. n # 0 /\ n - 1 \in Nat /\ n - 1 \in S
  BY <1>1
<1>3. (n - 1) + 1 \in S
  BY <1>2
<1> QED BY <1>1, <1>3

\* A set with every natural whose predecessors all belong to it has every natural.
LEMMA StrongInduct == ASSUME NEW S, \A n \in Nat : (\A m \in Nat : m < n => m \in S) => n \in S
                      PROVE  Nat \subseteq S
<1> SUFFICES ASSUME Nat \ S # {} PROVE FALSE
  OBVIOUS
<1>1. PICK n \in Nat \ S : \A m \in Nat \ S : n <= m
  BY Least
<1>2. \A m \in Nat : m < n => m \in S
  BY <1>1
<1> QED BY <1>1, <1>2

-----------------------------------------------------------------------------
(* Folds.                                                                  *)

\* The maximum of a set of positions.
LEMMA MaxIn == ASSUME NEW n \in Nat, NEW s \in SUBSET (1..n), s # {}
               PROVE  Max(s) \in s /\ \A y \in s : y <= Max(s)
<1> DEFINE U == {u \in Nat : \A y \in s : y <= u}
<1>1. n \in U
  OBVIOUS
<1>2. PICK u \in U : \A m \in U : u <= m
  <2> HIDE DEF U
  <2>1. U \subseteq Nat BY DEF U
  <2> QED BY <1>1, <2>1, Least
<1>3. u \in s
  <2> SUFFICES ASSUME u \notin s PROVE FALSE
    OBVIOUS
  <2>1. PICK y \in s : TRUE
    OBVIOUS
  <2>2. y \in Nat /\ y >= 1 /\ y <= u /\ u \in Nat
    BY <1>2
  <2>3. u - 1 \in Nat
    BY <2>2
  <2>4. ASSUME NEW z \in s PROVE z <= u - 1
    <3>1. z \in Nat /\ z <= u /\ z # u
      BY <1>2
    <3> QED BY <3>1, <2>2
  <2>5. u - 1 \in U
    BY <2>3, <2>4
  <2> QED BY <1>2, <2>2, <2>5
<1>4. \A y \in s : u >= y
  <2>1. \A y \in s : y \in Nat
    OBVIOUS
  <2> QED BY <1>2, <2>1
<1>5. \E x \in s : \A y \in s : x >= y
  BY <1>3, <1>4
<1>6. Max(s) \in s /\ \A y \in s : Max(s) >= y
  BY <1>5 DEF Max
<1>7. \A y \in s : y \in Nat
  OBVIOUS
<1> QED BY <1>6, <1>7

\* The largest of the first n positions, and what is left without it.
LEMMA MaxOfFirst == ASSUME NEW n \in Nat, n # 0
                    PROVE  Max(1..n) = n /\ (1..n) \ {Max(1..n)} = 1..(n - 1)
<1>1. n \in 1..n /\ 1..n \in SUBSET (1..n) /\ 1..n # {}
  OBVIOUS
<1>2. Max(1..n) \in 1..n /\ \A y \in 1..n : y <= Max(1..n)
  BY ONLY <1>1, n \in Nat, MaxIn
<1>3. Max(1..n) = n
  BY <1>1, <1>2
<1>4. (1..n) \ {n} = 1..(n - 1)
  OBVIOUS
<1> QED BY <1>3, <1>4

\* g is what a fold computes over every set of the first k positions.
Folds(base, step, k, g) ==
  \A s \in SUBSET (1..k) : g[s] = IF s = {} THEN base ELSE step[<<g[s \ {Max(s)}], Max(s)>>]

FoldsTo(A, base, step, k) == \E g \in [SUBSET (1..k) -> A] : Folds(base, step, k, g)

LEMMA FoldZero == ASSUME NEW A, NEW base \in A, NEW step PROVE FoldsTo(A, base, step, 0)
<1> DEFINE g == [s \in SUBSET (1..0) |-> base]
<1>1. \A s \in SUBSET (1..0) : s = {}
  OBVIOUS
<1>2. g \in [SUBSET (1..0) -> A]
  OBVIOUS
<1>3. Folds(base, step, 0, g)
  BY <1>1 DEF Folds
<1> QED BY <1>2, <1>3 DEF FoldsTo

LEMMA FoldMore ==
  ASSUME NEW A, NEW base \in A, NEW n \in Nat, NEW step \in [A \X (1..n) -> A],
         NEW k \in Nat, k + 1 <= n, FoldsTo(A, base, step, k)
  PROVE  FoldsTo(A, base, step, k + 1)
<1>1. PICK g \in [SUBSET (1..k) -> A] : Folds(base, step, k, g)
  BY DEF FoldsTo
<1> DEFINE h == [s \in SUBSET (1..(k + 1)) |->
                   IF k + 1 \in s THEN step[<<g[s \ {k + 1}], k + 1>>] ELSE g[s]]
<1>2. ASSUME NEW s \in SUBSET (1..(k + 1)), k + 1 \in s
      PROVE  s \ {k + 1} \in SUBSET (1..k) /\ Max(s) = k + 1
  <2>1. s # {} /\ k + 1 \in Nat
    BY <1>2
  <2>2. Max(s) \in s /\ \A y \in s : y <= Max(s)
    BY ONLY <2>1, s \in SUBSET (1..(k + 1)), MaxIn
  <2>3. Max(s) \in 1..(k + 1) /\ k + 1 <= Max(s)
    BY <2>2, <1>2
  <2>4. Max(s) = k + 1
    BY <2>3
  <2> QED BY <2>4, <1>2
<1>3. ASSUME NEW s \in SUBSET (1..(k + 1)), k + 1 \notin s
      PROVE  s \in SUBSET (1..k)
  BY <1>3
<1>4. k + 1 \in 1..n
  OBVIOUS
<1>5. h \in [SUBSET (1..(k + 1)) -> A]
  <2> SUFFICES ASSUME NEW s \in SUBSET (1..(k + 1)) PROVE h[s] \in A
    OBVIOUS
  <2>1. CASE k + 1 \in s
    <3>1. g[s \ {k + 1}] \in A
      BY <2>1, <1>2
    <3> QED BY <2>1, <3>1, <1>4
  <2>2. CASE k + 1 \notin s
    BY <2>2, <1>3
  <2> QED BY <2>1, <2>2
<1>6. ASSUME NEW s \in SUBSET (1..(k + 1))
      PROVE  h[s] = IF s = {} THEN base ELSE step[<<h[s \ {Max(s)}], Max(s)>>]
  <2>1. CASE k + 1 \in s
    <3>1. Max(s) = k + 1 /\ s \ {k + 1} \in SUBSET (1..(k + 1)) /\ k + 1 \notin s \ {k + 1}
      BY <2>1, <1>2
    <3>2. h[s \ {k + 1}] = g[s \ {k + 1}]
      BY <3>1
    <3> QED BY <2>1, <3>1, <3>2
  <2>2. CASE k + 1 \notin s
    <3>1. s \in SUBSET (1..k) /\ h[s] = g[s]
      BY <2>2, <1>3
    <3>2. s \ {Max(s)} \in SUBSET (1..(k + 1)) /\ k + 1 \notin s \ {Max(s)}
      BY <2>2
    <3>3. h[s \ {Max(s)}] = g[s \ {Max(s)}]
      BY <3>2
    <3>4. g[s] = IF s = {} THEN base ELSE step[<<g[s \ {Max(s)}], Max(s)>>]
      BY <3>1, <1>1 DEF Folds
    <3> QED BY <3>1, <3>3, <3>4
  <2> QED BY <2>1, <2>2
<1>7. Folds(base, step, k + 1, h)
  BY <1>6 DEF Folds
<1> QED BY <1>5, <1>7 DEF FoldsTo

\* The function that a fold computes, over every set of positions.
LEMMA FoldExists ==
  ASSUME NEW A, NEW base \in A, NEW n \in Nat, NEW step \in [A \X (1..n) -> A]
  PROVE  FoldsTo(A, base, step, n)
<1> DEFINE S == {k \in Nat : k <= n => FoldsTo(A, base, step, k)}
<1>1. 0 \in S
  BY FoldZero
<1>2. ASSUME NEW k \in Nat, k \in S PROVE k + 1 \in S
  <2> SUFFICES ASSUME k + 1 <= n PROVE FoldsTo(A, base, step, k + 1)
    OBVIOUS
  <2>1. k <= n
    OBVIOUS
  <2>2. FoldsTo(A, base, step, k)
    BY <1>2, <2>1
  <2> QED BY <2>2, FoldMore
<1>3. Nat \subseteq S
  <2> HIDE DEF S
  <2> QED BY <1>1, <1>2, Induct
<1> QED BY <1>3

\* h has the partial results of a fold.
Chains(A, base, step, n, h) ==
  h \in [0..n -> A] /\ h[0] = base /\ \A i \in 1..n : h[i] = step[<<h[i - 1], i>>]

LEMMA FoldChain ==
  ASSUME NEW A, NEW base \in A, NEW n \in Nat, NEW step \in [A \X (1..n) -> A]
  PROVE  \E h : Chains(A, base, step, n, h)
<1>1. PICK g \in [SUBSET (1..n) -> A] : Folds(base, step, n, g)
  <2>1. FoldsTo(A, base, step, n)
    BY FoldExists
  <2> QED BY <2>1 DEF FoldsTo
<1> DEFINE h == [i \in 0..n |-> g[1..i]]
<1>2. h \in [0..n -> A]
  OBVIOUS
<1>3. h[0] = base
  <2>1. 1..0 = {} /\ {} \in SUBSET (1..n)
    OBVIOUS
  <2>2. g[{}] = base
    BY <1>1, <2>1 DEF Folds
  <2>3. h[0] = g[1..0]
    OBVIOUS
  <2> QED BY <2>1, <2>2, <2>3
<1>4. ASSUME NEW i \in 1..n PROVE h[i] = step[<<h[i - 1], i>>]
  <2>1. 1..i \in SUBSET (1..n) /\ 1..i # {} /\ i - 1 \in 0..n /\ i \in Nat /\ i # 0
    OBVIOUS
  <2>2. Max(1..i) = i /\ (1..i) \ {Max(1..i)} = 1..(i - 1)
    BY ONLY <2>1, MaxOfFirst
  <2>3. g[1..i] = step[<<g[(1..i) \ {Max(1..i)}], Max(1..i)>>]
    BY <1>1, <2>1 DEF Folds
  <2>4. h[i] = g[1..i] /\ h[i - 1] = g[1..(i - 1)]
    BY <2>1
  <2> HIDE DEF h
  <2> QED BY <2>2, <2>3, <2>4
<1> HIDE DEF h
<1>5. Chains(A, base, step, n, h)
  BY <1>2, <1>3, <1>4 DEF Chains
<1> QED BY <1>5

-----------------------------------------------------------------------------
(* Encoded paths.                                                          *)

\* h has the encodings of the first components of p.
Encodings(p, h) == /\ h \in [0..Len(p) -> Seq(STRING)] /\ h[0] = << >>
                   /\ \A i \in 1..Len(p) : h[i] = h[i - 1] \o Pieces[p[i]]

LEMMA EncodeChain == ASSUME NEW p \in Seq(Names), NEW h, Encodings(p, h)
                     PROVE  Encode(p) = h[Len(p)]
<1> DEFINE n == Len(p)
           Folded(F) == F = [s \in SUBSET DOMAIN p |->
                               IF s = {} THEN << >> ELSE F[s \ {Max(s)}] \o Pieces[p[Max(s)]]]
<1>0. n \in Nat /\ DOMAIN p = 1..n
  OBVIOUS
<1>1. \E F : Folded(F)
  <2> DEFINE step == [w \in Seq(STRING) \X (1..n) |-> w[1] \o Pieces[p[w[2]]]]
  <2>1. step \in [Seq(STRING) \X (1..n) -> Seq(STRING)]
    <3>1. \A i \in 1..n : Pieces[p[i]] \in Seq(STRING)
      BY TreeAssumption
    <3> QED BY <3>1
  <2>2. << >> \in Seq(STRING)
    OBVIOUS
  <2>3. FoldsTo(Seq(STRING), << >>, step, n)
    <3> HIDE DEF step
    <3> QED BY <2>1, <2>2, <1>0, FoldExists
  <2>4. PICK g \in [SUBSET (1..n) -> Seq(STRING)] : Folds(<< >>, step, n, g)
    BY <2>3 DEF FoldsTo
  <2>5. ASSUME NEW s \in SUBSET (1..n)
        PROVE  g[s] = IF s = {} THEN << >> ELSE g[s \ {Max(s)}] \o Pieces[p[Max(s)]]
    <3>1. CASE s = {}
      BY <3>1, <2>4 DEF Folds
    <3>2. CASE s # {}
      <4>1. Max(s) \in s
        BY <3>2, <1>0, MaxIn
      <4>2. g[s] = step[<<g[s \ {Max(s)}], Max(s)>>]
        BY <3>2, <2>4 DEF Folds
      <4>3. Max(s) \in 1..n /\ g[s \ {Max(s)}] \in Seq(STRING)
        BY <4>1
      <4> QED BY <3>2, <4>2, <4>3
    <3> QED BY <3>1, <3>2
  <2>6. g = [s \in SUBSET (1..n) |-> g[s]]
    OBVIOUS
  <2>7. Folded(g)
    BY <2>5, <2>6, <1>0
  <2> QED BY <2>7
<1>2. PICK F : Folded(F) /\ Encode(p) = F[DOMAIN p]
  <2>1. Encode(p) = (CHOOSE F : Folded(F))[DOMAIN p]
    BY DEF Encode, FoldLeft, MapThenFoldSet
  <2>2. Folded(CHOOSE F : Folded(F))
    BY <1>1
  <2> QED BY <2>1, <2>2
<1> DEFINE S == {i \in Nat : i <= n => F[1..i] = h[i]}
<1>3. 0 \in S
  <2>1. 1..0 = {} /\ {} \in SUBSET DOMAIN p
    OBVIOUS
  <2> QED BY <2>1, <1>2 DEF Encodings
<1>4. ASSUME NEW i \in Nat, i \in S PROVE i + 1 \in S
  <2> SUFFICES ASSUME i + 1 <= n PROVE F[1..(i + 1)] = h[i + 1]
    OBVIOUS
  <2>1. i + 1 \in Nat /\ i + 1 # 0 /\ (i + 1) - 1 = i /\ i + 1 \in 1..n
    OBVIOUS
  <2>2. Max(1..(i + 1)) = i + 1 /\ (1..(i + 1)) \ {Max(1..(i + 1))} = 1..i
    BY ONLY <2>1, MaxOfFirst
  <2>3. 1..(i + 1) \in SUBSET DOMAIN p /\ 1..(i + 1) # {}
    <3>1. 1..(i + 1) \subseteq 1..n
      BY <1>0
    <3>2. i + 1 \in 1..(i + 1)
      OBVIOUS
    <3> QED BY <3>1, <3>2, <1>0
  <2>4. F[1..(i + 1)] = F[(1..(i + 1)) \ {Max(1..(i + 1))}] \o Pieces[p[Max(1..(i + 1))]]
    <3>1. ASSUME NEW s \in SUBSET DOMAIN p, s # {}
          PROVE  F[s] = F[s \ {Max(s)}] \o Pieces[p[Max(s)]]
      BY <1>2, <3>1
    <3> QED BY <2>3, <3>1
  <2>5. F[1..i] = h[i]
    BY <1>4
  <2>6. h[i + 1] = h[i] \o Pieces[p[i + 1]]
    BY <2>1 DEF Encodings
  <2> QED BY <2>2, <2>4, <2>5, <2>6
<1>5. Nat \subseteq S
  <2> HIDE DEF S
  <2> QED BY <1>3, <1>4, Induct
<1>6. F[1..n] = h[n]
  BY <1>5, <1>0
<1> QED BY <1>6, <1>2, <1>0

LEMMA EncodePartial == ASSUME NEW p \in Seq(Names) PROVE \E h : Encodings(p, h)
<1> DEFINE n == Len(p)
           step == [w \in Seq(STRING) \X (1..n) |-> w[1] \o Pieces[p[w[2]]]]
<1>1. n \in Nat /\ << >> \in Seq(STRING)
  OBVIOUS
<1>2. step \in [Seq(STRING) \X (1..n) -> Seq(STRING)]
  <2>1. \A i \in 1..n : Pieces[p[i]] \in Seq(STRING)
    BY TreeAssumption
  <2> QED BY <2>1
<1>3. PICK h : Chains(Seq(STRING), << >>, step, n, h)
  <2> HIDE DEF step, n
  <2> QED BY ONLY <1>1, <1>2, FoldChain
<1>4. h \in [0..n -> Seq(STRING)] /\ h[0] = << >>
  BY <1>3 DEF Chains
<1>5. ASSUME NEW i \in 1..n PROVE h[i] = h[i - 1] \o Pieces[p[i]]
  <2>1. h[i - 1] \in Seq(STRING)
    BY <1>4
  <2>2. h[i] = step[<<h[i - 1], i>>]
    BY <1>3 DEF Chains
  <2> QED BY <2>1, <2>2
<1> QED BY <1>4, <1>5 DEF Encodings

\* One more component is one more piece at the end.
LEMMA EncodeStep ==
  ASSUME NEW p \in Seq(Names), NEW x \in Names
  PROVE  Encode(p) \in Seq(STRING) /\ Encode(Append(p, x)) = Encode(p) \o Pieces[x]
<1> DEFINE q == Append(p, x)
           n == Len(p)
<1>1. q \in Seq(Names) /\ Len(q) = n + 1 /\ n \in Nat /\ q[n + 1] = x
      /\ \A i \in 1..n : q[i] = p[i]
  OBVIOUS
<1> HIDE DEF q
<1>2. PICK h : Encodings(q, h)
  BY <1>1, EncodePartial
<1>3. Encode(q) = h[n + 1]
  BY <1>1, <1>2, EncodeChain
<1>4. h \in [0..(n + 1) -> Seq(STRING)] /\ h[0] = << >>
  BY <1>1, <1>2 DEF Encodings
<1>5. \A i \in 1..(n + 1) : h[i] = h[i - 1] \o Pieces[q[i]]
  BY <1>1, <1>2 DEF Encodings
<1> DEFINE f == [i \in 0..n |-> h[i]]
<1>6. f \in [0..n -> Seq(STRING)] /\ f[0] = << >> /\ f[n] = h[n]
  BY <1>1, <1>4
<1>7. \A i \in 1..n : f[i] = f[i - 1] \o Pieces[p[i]]
  <2> SUFFICES ASSUME NEW i \in 1..n PROVE f[i] = f[i - 1] \o Pieces[p[i]]
    OBVIOUS
  <2>1. i \in 1..(n + 1) /\ f[i] = h[i] /\ f[i - 1] = h[i - 1]
    BY <1>1
  <2>2. h[i] = h[i - 1] \o Pieces[q[i]]
    BY <2>1, <1>5
  <2> QED BY <2>1, <2>2, <1>1
<1>8. Encode(p) = f[n]
  <2> HIDE DEF f
  <2>1. Encodings(p, f)
    BY <1>6, <1>7 DEF Encodings
  <2> QED BY <2>1, EncodeChain
<1>9. h[n + 1] = h[n] \o Pieces[x]
  <2>1. n + 1 \in 1..(n + 1) /\ (n + 1) - 1 = n
    BY <1>1
  <2>2. h[n + 1] = h[(n + 1) - 1] \o Pieces[q[n + 1]]
    BY <2>1, <1>5
  <2> QED BY <2>1, <2>2, <1>1
<1>10. h[n] \in Seq(STRING)
  BY <1>1, <1>4
<1> QED BY <1>3, <1>6, <1>8, <1>9, <1>10 DEF q

LEMMA EncodeEmpty == Encode(<< >>) = << >>
<1> DEFINE h == [i \in 0..0 |-> << >>]
<1>1. << >> \in Seq(Names) /\ Len(<< >>) = 0 /\ h \in [0..0 -> Seq(STRING)] /\ h[0] = << >>
  OBVIOUS
<1>2. \A i \in 1..0 : h[i] = h[i - 1] \o Pieces[<< >>[i]]
  OBVIOUS
<1> HIDE DEF h
<1>3. Encodings(<< >>, h)
  BY <1>1, <1>2 DEF Encodings
<1> QED BY <1>1, <1>3, EncodeChain

-----------------------------------------------------------------------------
(* The path of a location.                                                 *)

\* A location's step, and what it adds to the path.
Steps == Names \cup Nat
Longer(path, step) == IF step \in Names THEN Append(path, step) ELSE path

\* h has the paths of the first steps of l.
PathsOn(l, h) == /\ h \in [0..Len(l) -> Seq(Names)] /\ h[0] = << >>
                   /\ \A i \in 1..Len(l) : h[i] = Longer(h[i - 1], l[i])

LEMMA PathChain == ASSUME NEW l \in Seq(Steps), NEW h, PathsOn(l, h)
                     PROVE  PathOf(l) = h[Len(l)]
<1> DEFINE n == Len(l)
           Folded(F) == F = [s \in SUBSET DOMAIN l |->
                               IF s = {} THEN << >> ELSE Longer(F[s \ {Max(s)}], l[Max(s)])]
<1>0. n \in Nat /\ DOMAIN l = 1..n
  OBVIOUS
<1>1. \E F : Folded(F)
  <2> DEFINE step == [w \in Seq(Names) \X (1..n) |-> Longer(w[1], l[w[2]])]
  <2>1. step \in [Seq(Names) \X (1..n) -> Seq(Names)]
    <3>1. \A path \in Seq(Names), i \in 1..n : Longer(path, l[i]) \in Seq(Names)
      BY DEF Longer, Steps
    <3> QED BY <3>1
  <2>2. << >> \in Seq(Names)
    OBVIOUS
  <2>3. FoldsTo(Seq(Names), << >>, step, n)
    <3> HIDE DEF step
    <3> QED BY <2>1, <2>2, <1>0, FoldExists
  <2>4. PICK g \in [SUBSET (1..n) -> Seq(Names)] : Folds(<< >>, step, n, g)
    BY <2>3 DEF FoldsTo
  <2>5. ASSUME NEW s \in SUBSET (1..n)
        PROVE  g[s] = IF s = {} THEN << >> ELSE Longer(g[s \ {Max(s)}], l[Max(s)])
    <3>1. CASE s = {}
      BY <3>1, <2>4 DEF Folds
    <3>2. CASE s # {}
      <4>1. Max(s) \in s
        BY <3>2, <1>0, MaxIn
      <4>2. g[s] = step[<<g[s \ {Max(s)}], Max(s)>>]
        BY <3>2, <2>4 DEF Folds
      <4>3. Max(s) \in 1..n /\ g[s \ {Max(s)}] \in Seq(Names)
        BY <4>1
      <4> QED BY <3>2, <4>2, <4>3
    <3> QED BY <3>1, <3>2
  <2>6. g = [s \in SUBSET (1..n) |-> g[s]]
    OBVIOUS
  <2>7. Folded(g)
    BY <2>5, <2>6, <1>0
  <2> QED BY <2>7
<1>2. PICK F : Folded(F) /\ PathOf(l) = F[DOMAIN l]
  <2>1. PathOf(l) = (CHOOSE F : Folded(F))[DOMAIN l]
    BY DEF PathOf, Longer, FoldLeft, MapThenFoldSet
  <2>2. Folded(CHOOSE F : Folded(F))
    BY <1>1
  <2> QED BY <2>1, <2>2
<1> DEFINE S == {i \in Nat : i <= n => F[1..i] = h[i]}
<1>3. 0 \in S
  <2>1. 1..0 = {} /\ {} \in SUBSET DOMAIN l
    OBVIOUS
  <2> QED BY <2>1, <1>2 DEF PathsOn
<1>4. ASSUME NEW i \in Nat, i \in S PROVE i + 1 \in S
  <2> SUFFICES ASSUME i + 1 <= n PROVE F[1..(i + 1)] = h[i + 1]
    OBVIOUS
  <2>1. i + 1 \in Nat /\ i + 1 # 0 /\ (i + 1) - 1 = i /\ i + 1 \in 1..n
    OBVIOUS
  <2>2. Max(1..(i + 1)) = i + 1 /\ (1..(i + 1)) \ {Max(1..(i + 1))} = 1..i
    BY ONLY <2>1, MaxOfFirst
  <2>3. 1..(i + 1) \in SUBSET DOMAIN l /\ 1..(i + 1) # {}
    <3>1. 1..(i + 1) \subseteq 1..n
      BY <1>0
    <3>2. i + 1 \in 1..(i + 1)
      OBVIOUS
    <3> QED BY <3>1, <3>2, <1>0
  <2>4. F[1..(i + 1)] = Longer(F[(1..(i + 1)) \ {Max(1..(i + 1))}], l[Max(1..(i + 1))])
    <3>1. ASSUME NEW s \in SUBSET DOMAIN l, s # {}
          PROVE  F[s] = Longer(F[s \ {Max(s)}], l[Max(s)])
      BY <1>2, <3>1
    <3> QED BY <2>3, <3>1
  <2>5. F[1..i] = h[i]
    BY <1>4
  <2>6. h[i + 1] = Longer(h[i], l[i + 1])
    BY <2>1 DEF PathsOn
  <2> QED BY <2>2, <2>4, <2>5, <2>6
<1>5. Nat \subseteq S
  <2> HIDE DEF S
  <2> QED BY <1>3, <1>4, Induct
<1>6. F[1..n] = h[n]
  BY <1>5, <1>0
<1> QED BY <1>6, <1>2, <1>0

LEMMA PathPartial == ASSUME NEW l \in Seq(Steps) PROVE \E h : PathsOn(l, h)
<1> DEFINE n == Len(l)
           step == [w \in Seq(Names) \X (1..n) |-> Longer(w[1], l[w[2]])]
<1>1. n \in Nat /\ << >> \in Seq(Names)
  OBVIOUS
<1>2. step \in [Seq(Names) \X (1..n) -> Seq(Names)]
  <2>1. \A path \in Seq(Names), i \in 1..n : Longer(path, l[i]) \in Seq(Names)
    BY DEF Longer, Steps
  <2> QED BY <2>1
<1>3. PICK h : Chains(Seq(Names), << >>, step, n, h)
  <2> HIDE DEF step, n
  <2> QED BY ONLY <1>1, <1>2, FoldChain
<1>4. h \in [0..n -> Seq(Names)] /\ h[0] = << >>
  BY <1>3 DEF Chains
<1>5. ASSUME NEW i \in 1..n PROVE h[i] = Longer(h[i - 1], l[i])
  <2>1. h[i - 1] \in Seq(Names)
    BY <1>4
  <2>2. h[i] = step[<<h[i - 1], i>>]
    BY <1>3 DEF Chains
  <2> QED BY <2>1, <2>2
<1> QED BY <1>4, <1>5 DEF PathsOn

\* One more step is one more name at the end, or none.
LEMMA PathStep ==
  ASSUME NEW l \in Seq(Steps), NEW x \in Steps
  PROVE  PathOf(l) \in Seq(Names) /\ PathOf(Append(l, x)) = Longer(PathOf(l), x)
<1> DEFINE q == Append(l, x)
           n == Len(l)
<1>1. q \in Seq(Steps) /\ Len(q) = n + 1 /\ n \in Nat /\ q[n + 1] = x
      /\ \A i \in 1..n : q[i] = l[i]
  OBVIOUS
<1> HIDE DEF q
<1>2. PICK h : PathsOn(q, h)
  BY <1>1, PathPartial
<1>3. PathOf(q) = h[n + 1]
  BY <1>1, <1>2, PathChain
<1>4. h \in [0..(n + 1) -> Seq(Names)] /\ h[0] = << >>
  BY <1>1, <1>2 DEF PathsOn
<1>5. \A i \in 1..(n + 1) : h[i] = Longer(h[i - 1], q[i])
  BY <1>1, <1>2 DEF PathsOn
<1> DEFINE f == [i \in 0..n |-> h[i]]
<1>6. f \in [0..n -> Seq(Names)] /\ f[0] = << >> /\ f[n] = h[n]
  BY <1>1, <1>4
<1>7. \A i \in 1..n : f[i] = Longer(f[i - 1], l[i])
  <2> SUFFICES ASSUME NEW i \in 1..n PROVE f[i] = Longer(f[i - 1], l[i])
    OBVIOUS
  <2>1. i \in 1..(n + 1) /\ f[i] = h[i] /\ f[i - 1] = h[i - 1]
    BY <1>1
  <2>2. h[i] = Longer(h[i - 1], q[i])
    BY <2>1, <1>5
  <2> QED BY <2>1, <2>2, <1>1
<1>8. PathOf(l) = f[n]
  <2> HIDE DEF f
  <2>1. PathsOn(l, f)
    BY <1>6, <1>7 DEF PathsOn
  <2> QED BY <2>1, PathChain
<1>9. h[n + 1] = Longer(h[n], x)
  <2>1. n + 1 \in 1..(n + 1) /\ (n + 1) - 1 = n
    BY <1>1
  <2>2. h[n + 1] = Longer(h[(n + 1) - 1], q[n + 1])
    BY <2>1, <1>5
  <2> QED BY <2>1, <2>2, <1>1
<1>10. h[n] \in Seq(Names)
  BY <1>1, <1>4
<1> QED BY <1>3, <1>6, <1>8, <1>9, <1>10 DEF q

LEMMA PathEmpty == PathOf(<< >>) = << >>
<1> DEFINE h == [i \in 0..0 |-> << >>]
<1>1. << >> \in Seq(Steps) /\ Len(<< >>) = 0 /\ h \in [0..0 -> Seq(Names)] /\ h[0] = << >>
  OBVIOUS
<1>2. \A i \in 1..0 : h[i] = Longer(h[i - 1], << >>[i])
  OBVIOUS
<1> HIDE DEF h
<1>3. PathsOn(<< >>, h)
  BY <1>1, <1>2 DEF PathsOn
<1> QED BY <1>1, <1>3, PathChain

-----------------------------------------------------------------------------
(* The table of a path.                                                    *)

\* A place in the tree, or none, and the place one name further.
Places == Seq(Steps) \cup {Nowhere}
Further(loc, n) == IF loc = Nowhere THEN Nowhere ELSE Enter(loc, n)

LEMMA FurtherPlace ==
  ASSUME DOMAIN doc \subseteq Seq(Steps), NEW loc \in Places, NEW n \in Names
  PROVE  Further(loc, n) \in Places
<1>1. CASE loc = Nowhere
  BY <1>1 DEF Further, Places
<1>2. CASE loc # Nowhere
  <2>1. loc \in Seq(Steps) /\ n \in Steps
    BY <1>2 DEF Places, Steps
  <2>2. Append(loc, n) \in Seq(Steps)
    BY <2>1
  <2> QED BY <1>2, <2>2 DEF Further, Enter, Places
<1> QED BY <1>1, <1>2

\* h has the tables of the first components of p.
TablesOn(p, h) == /\ h \in [0..Len(p) -> Places] /\ h[0] = << >>
                  /\ \A i \in 1..Len(p) : h[i] = Further(h[i - 1], p[i])

LEMMA TableChain == ASSUME DOMAIN doc \subseteq Seq(Steps),
                           NEW p \in Seq(Names), NEW h, TablesOn(p, h)
                    PROVE  ensureTable(p) = h[Len(p)]
<1> DEFINE n == Len(p)
           Folded(F) == F = [s \in SUBSET DOMAIN p |->
                               IF s = {} THEN << >> ELSE Further(F[s \ {Max(s)}], p[Max(s)])]
<1>0. n \in Nat /\ DOMAIN p = 1..n
  OBVIOUS
<1>1. \E F : Folded(F)
  <2> DEFINE step == [w \in Places \X (1..n) |-> Further(w[1], p[w[2]])]
  <2>1. step \in [Places \X (1..n) -> Places]
    <3>1. \A loc \in Places, i \in 1..n : Further(loc, p[i]) \in Places
      BY FurtherPlace
    <3> QED BY <3>1
  <2>2. << >> \in Places
    BY DEF Places
  <2>3. FoldsTo(Places, << >>, step, n)
    <3> HIDE DEF step
    <3> QED BY <2>1, <2>2, <1>0, FoldExists
  <2>4. PICK g \in [SUBSET (1..n) -> Places] : Folds(<< >>, step, n, g)
    BY <2>3 DEF FoldsTo
  <2>5. ASSUME NEW s \in SUBSET (1..n)
        PROVE  g[s] = IF s = {} THEN << >> ELSE Further(g[s \ {Max(s)}], p[Max(s)])
    <3>1. CASE s = {}
      BY <3>1, <2>4 DEF Folds
    <3>2. CASE s # {}
      <4>1. Max(s) \in s
        BY <3>2, <1>0, MaxIn
      <4>2. g[s] = step[<<g[s \ {Max(s)}], Max(s)>>]
        BY <3>2, <2>4 DEF Folds
      <4>3. Max(s) \in 1..n /\ g[s \ {Max(s)}] \in Places
        BY <4>1
      <4> QED BY <3>2, <4>2, <4>3
    <3> QED BY <3>1, <3>2
  <2>6. g = [s \in SUBSET (1..n) |-> g[s]]
    OBVIOUS
  <2>7. Folded(g)
    BY <2>5, <2>6, <1>0
  <2> QED BY <2>7
<1>2. PICK F : Folded(F) /\ ensureTable(p) = F[DOMAIN p]
  <2>1. ensureTable(p) = (CHOOSE F : Folded(F))[DOMAIN p]
    BY DEF ensureTable, Further, FoldLeft, MapThenFoldSet
  <2>2. Folded(CHOOSE F : Folded(F))
    BY <1>1
  <2> QED BY <2>1, <2>2
<1> DEFINE S == {i \in Nat : i <= n => F[1..i] = h[i]}
<1>3. 0 \in S
  <2>1. 1..0 = {} /\ {} \in SUBSET DOMAIN p
    OBVIOUS
  <2> QED BY <2>1, <1>2 DEF TablesOn
<1>4. ASSUME NEW i \in Nat, i \in S PROVE i + 1 \in S
  <2> SUFFICES ASSUME i + 1 <= n PROVE F[1..(i + 1)] = h[i + 1]
    OBVIOUS
  <2>1. i + 1 \in Nat /\ i + 1 # 0 /\ (i + 1) - 1 = i /\ i + 1 \in 1..n
    OBVIOUS
  <2>2. Max(1..(i + 1)) = i + 1 /\ (1..(i + 1)) \ {Max(1..(i + 1))} = 1..i
    BY ONLY <2>1, MaxOfFirst
  <2>3. 1..(i + 1) \in SUBSET DOMAIN p /\ 1..(i + 1) # {}
    <3>1. 1..(i + 1) \subseteq 1..n
      BY <1>0
    <3>2. i + 1 \in 1..(i + 1)
      OBVIOUS
    <3> QED BY <3>1, <3>2, <1>0
  <2>4. F[1..(i + 1)] = Further(F[(1..(i + 1)) \ {Max(1..(i + 1))}], p[Max(1..(i + 1))])
    <3>1. ASSUME NEW s \in SUBSET DOMAIN p, s # {}
          PROVE  F[s] = Further(F[s \ {Max(s)}], p[Max(s)])
      BY <1>2, <3>1
    <3> QED BY <2>3, <3>1
  <2>5. F[1..i] = h[i]
    BY <1>4
  <2>6. h[i + 1] = Further(h[i], p[i + 1])
    BY <2>1 DEF TablesOn
  <2> QED BY <2>2, <2>4, <2>5, <2>6
<1>5. Nat \subseteq S
  <2> HIDE DEF S
  <2> QED BY <1>3, <1>4, Induct
<1>6. F[1..n] = h[n]
  BY <1>5, <1>0
<1> QED BY <1>6, <1>2, <1>0

LEMMA TablePartial == ASSUME DOMAIN doc \subseteq Seq(Steps), NEW p \in Seq(Names)
                      PROVE  \E h : TablesOn(p, h)
<1> DEFINE n == Len(p)
           step == [w \in Places \X (1..n) |-> Further(w[1], p[w[2]])]
<1>1. n \in Nat /\ << >> \in Places
  BY DEF Places
<1>2. step \in [Places \X (1..n) -> Places]
  <2>1. \A loc \in Places, i \in 1..n : Further(loc, p[i]) \in Places
    BY FurtherPlace
  <2> QED BY <2>1
<1>3. PICK h : Chains(Places, << >>, step, n, h)
  <2> HIDE DEF step, n
  <2> QED BY ONLY <1>1, <1>2, FoldChain
<1>4. h \in [0..n -> Places] /\ h[0] = << >>
  BY <1>3 DEF Chains
<1>5. ASSUME NEW i \in 1..n PROVE h[i] = Further(h[i - 1], p[i])
  <2>1. h[i - 1] \in Places
    BY <1>4
  <2>2. h[i] = step[<<h[i - 1], i>>]
    BY <1>3 DEF Chains
  <2> QED BY <2>1, <2>2
<1> QED BY <1>4, <1>5 DEF TablesOn

\* One more component is one step further.
LEMMA TableStep ==
  ASSUME DOMAIN doc \subseteq Seq(Steps), NEW p \in Seq(Names), NEW x \in Names
  PROVE  ensureTable(p) \in Places /\ ensureTable(Append(p, x)) = Further(ensureTable(p), x)
<1> DEFINE q == Append(p, x)
           n == Len(p)
<1>1. q \in Seq(Names) /\ Len(q) = n + 1 /\ n \in Nat /\ q[n + 1] = x
      /\ \A i \in 1..n : q[i] = p[i]
  OBVIOUS
<1> HIDE DEF q
<1>2. PICK h : TablesOn(q, h)
  BY <1>1, TablePartial
<1>3. ensureTable(q) = h[n + 1]
  BY <1>1, <1>2, TableChain
<1>4. h \in [0..(n + 1) -> Places] /\ h[0] = << >>
  BY <1>1, <1>2 DEF TablesOn
<1>5. \A i \in 1..(n + 1) : h[i] = Further(h[i - 1], q[i])
  BY <1>1, <1>2 DEF TablesOn
<1> DEFINE f == [i \in 0..n |-> h[i]]
<1>6. f \in [0..n -> Places] /\ f[0] = << >> /\ f[n] = h[n]
  BY <1>1, <1>4
<1>7. \A i \in 1..n : f[i] = Further(f[i - 1], p[i])
  <2> SUFFICES ASSUME NEW i \in 1..n PROVE f[i] = Further(f[i - 1], p[i])
    OBVIOUS
  <2>1. i \in 1..(n + 1) /\ f[i] = h[i] /\ f[i - 1] = h[i - 1]
    BY <1>1
  <2>2. h[i] = Further(h[i - 1], q[i])
    BY <2>1, <1>5
  <2> QED BY <2>1, <2>2, <1>1
<1>8. ensureTable(p) = f[n]
  <2> HIDE DEF f
  <2>1. TablesOn(p, f)
    BY <1>6, <1>7 DEF TablesOn
  <2> QED BY <2>1, TableChain
<1>9. h[n + 1] = Further(h[n], x)
  <2>1. n + 1 \in 1..(n + 1) /\ (n + 1) - 1 = n
    BY <1>1
  <2>2. h[n + 1] = Further(h[(n + 1) - 1], q[n + 1])
    BY <2>1, <1>5
  <2> QED BY <2>1, <2>2, <1>1
<1>10. h[n] \in Places
  BY <1>1, <1>4
<1> QED BY <1>3, <1>6, <1>8, <1>9, <1>10 DEF q

LEMMA TableEmpty == ASSUME DOMAIN doc \subseteq Seq(Steps) PROVE ensureTable(<< >>) = << >>
<1> DEFINE h == [i \in 0..0 |-> << >>]
<1>1. << >> \in Seq(Names) /\ Len(<< >>) = 0 /\ << >> \in Places /\ h[0] = << >>
  BY DEF Places
<1>2. \A i \in 1..0 : h[i] = Further(h[i - 1], << >>[i])
  OBVIOUS
<1>4. h \in [0..0 -> Places]
  BY <1>1
<1> HIDE DEF h
<1>3. TablesOn(<< >>, h)
  BY <1>1, <1>2, <1>4 DEF TablesOn
<1> QED BY <1>1, <1>3, TableChain

-----------------------------------------------------------------------------
(* Locations, taken apart at their last step.                              *)

\* A location other than the root is the last step after the others.
LEMMA LastStep ==
  ASSUME NEW A, NEW l \in Seq(A), l # << >>
  PROVE  /\ Front(l) \in Seq(A)
         /\ Last(l) \in A
         /\ l = Append(Front(l), Last(l))
         /\ Len(Front(l)) = Len(l) - 1
         /\ Len(l) \in Nat \ {0}
<1>1. PICK n \in Nat : Len(l) = n + 1
  <2>1. Len(l) \in Nat /\ Len(l) # 0
    OBVIOUS
  <2>2. Len(l) - 1 \in Nat /\ Len(l) = (Len(l) - 1) + 1
    BY <2>1
  <2> QED BY <2>2
<1>2. Front(l) = SubSeq(l, 1, n)
  BY <1>1 DEF Front
<1>3. Front(l) \in Seq(A)
  BY <1>1, <1>2
<1>6. Len(Front(l)) = n
  BY <1>1, <1>2
<1>7. \A i \in 1..n : Front(l)[i] = l[i]
  BY <1>1, <1>2
<1>4. Last(l) = l[n + 1] /\ Last(l) \in A
  BY <1>1 DEF Last
<1>5. l = Append(Front(l), Last(l))
  BY <1>1, <1>3, <1>4, <1>6, <1>7
<1>8. QED
  <2>1. Front(l) \in Seq(A) BY <1>3
  <2>2. Last(l) \in A BY <1>4
  <2>3. l = Append(Front(l), Last(l)) BY <1>5
  <2>4. Len(Front(l)) = Len(l) - 1 BY <1>1, <1>6
  <2>5. Len(l) \in Nat \ {0} BY <1>1
  <2> QED BY <2>1, <2>2, <2>3, <2>4, <2>5

LEMMA Appended ==
  ASSUME NEW A, NEW k \in Seq(A), NEW x \in A
  PROVE  /\ Append(k, x) \in Seq(A) /\ Append(k, x) # << >>
         /\ Front(Append(k, x)) = k /\ Last(Append(k, x)) = x
         /\ Len(Append(k, x)) = Len(k) + 1
<1>1. Append(k, x) \in Seq(A) /\ Len(Append(k, x)) = Len(k) + 1 /\ Append(k, x)[Len(k) + 1] = x
      /\ \A i \in 1..Len(k) : Append(k, x)[i] = k[i]
  OBVIOUS
<1>2. Front(Append(k, x)) = k
  <2>1. Front(Append(k, x)) \in Seq(A) /\ Len(Front(Append(k, x))) = Len(k)
        /\ \A i \in 1..Len(k) : Front(Append(k, x))[i] = k[i]
    BY <1>1 DEF Front
  <2> QED BY <2>1
<1> QED BY <1>1, <1>2 DEF Last

\* The prefixes of a longer location.
LEMMA PrefixesStep ==
  ASSUME NEW A, NEW k \in Seq(A), NEW x \in A
  PROVE  Prefixes(Append(k, x)) = Prefixes(k) \cup {Append(k, x)}
<1> DEFINE l == Append(k, x)
<1>1. l \in Seq(A) /\ Len(l) = Len(k) + 1 /\ Len(k) \in Nat
      /\ \A i \in 1..Len(k) : l[i] = k[i]
  OBVIOUS
<1> HIDE DEF l
<1>2. ASSUME NEW i \in 0..Len(k) PROVE SubSeq(l, 1, i) = SubSeq(k, 1, i)
  BY <1>1
<1>3. SubSeq(l, 1, Len(k) + 1) = l
  BY <1>1
<1>4. ASSUME NEW m \in Prefixes(l) PROVE m \in Prefixes(k) \cup {l}
  <2>1. PICK i \in 0..Len(l) : m = SubSeq(l, 1, i)
    BY DEF Prefixes
  <2>2. CASE i = Len(k) + 1
    BY <2>1, <2>2, <1>3
  <2>3. CASE i # Len(k) + 1
    <3>1. i \in 0..Len(k)
      BY <2>3, <1>1
    <3> QED BY <2>1, <3>1, <1>2 DEF Prefixes
  <2> QED BY <2>2, <2>3
<1>5. ASSUME NEW m \in Prefixes(k) PROVE m \in Prefixes(l)
  <2>1. PICK i \in 0..Len(k) : m = SubSeq(k, 1, i)
    BY DEF Prefixes
  <2>2. i \in 0..Len(l) /\ m = SubSeq(l, 1, i)
    BY <2>1, <1>1, <1>2
  <2> QED BY <2>2 DEF Prefixes
<1>6. l \in Prefixes(l)
  <2>1. Len(k) + 1 \in 0..Len(l)
    BY <1>1
  <2> QED BY <2>1, <1>3 DEF Prefixes
<1> QED BY <1>4, <1>5, <1>6 DEF l

LEMMA PrefixFacts ==
  ASSUME NEW A, NEW l \in Seq(A)
  PROVE  /\ << >> \in Prefixes(l) /\ l \in Prefixes(l)
         /\ \A m \in Prefixes(l) : m \in Seq(A) /\ Len(m) \in Nat /\ Len(m) <= Len(l)
         /\ \A m \in Prefixes(l) : m # l => Len(m) < Len(l)
         /\ \A m \in Prefixes(l) : m # << >> => Front(m) \in Prefixes(l)
         /\ IsFiniteSet(Prefixes(l))
<1>0. Len(l) \in Nat
  OBVIOUS
<1>1. << >> \in Prefixes(l)
  <2>1. SubSeq(l, 1, 0) = << >> /\ 0 \in 0..Len(l)
    OBVIOUS
  <2> QED BY <2>1 DEF Prefixes
<1>2. l \in Prefixes(l)
  <2>1. SubSeq(l, 1, Len(l)) = l /\ Len(l) \in 0..Len(l)
    OBVIOUS
  <2> QED BY <2>1 DEF Prefixes
<1>3. ASSUME NEW m \in Prefixes(l)
      PROVE  /\ m \in Seq(A) /\ Len(m) \in Nat /\ Len(m) <= Len(l)
             /\ m # l => Len(m) < Len(l)
             /\ m # << >> => Front(m) \in Prefixes(l)
  <2>1. PICK i \in 0..Len(l) : m = SubSeq(l, 1, i)
    BY DEF Prefixes
  <2>2. m \in Seq(A) /\ Len(m) = i /\ \A j \in 1..i : m[j] = l[j]
    BY <2>1
  <2>3. m # l => Len(m) < Len(l)
    <3> SUFFICES ASSUME i = Len(l) PROVE m = l
      BY <2>2, <1>0
    <3> QED BY <2>2
  <2>4. ASSUME m # << >> PROVE Front(m) \in Prefixes(l)
    <3>1. i # 0
      BY <2>2, <2>4
    <3>2. i - 1 \in 0..Len(l)
      BY <3>1
    <3>3. Front(m) = SubSeq(l, 1, i - 1)
      BY <2>2, <3>1, <3>2 DEF Front
    <3> QED BY <3>2, <3>3 DEF Prefixes
  <2> QED BY <2>2, <2>3, <2>4, <1>0
<1>4. IsFiniteSet(Prefixes(l))
  <2> DEFINE f == [i \in 0..Len(l) |-> SubSeq(l, 1, i)]
  <2>1. IsFiniteSet(0..Len(l))
    BY <1>0, FS_Interval
  <2>2. f \in Surjection(0..Len(l), Prefixes(l))
    BY DEF Prefixes, Surjection
  <2> HIDE DEF f
  <2> QED BY <2>1, <2>2, FS_Surjection
<1> QED BY <1>1, <1>2, <1>3, <1>4

LEMMA PrefixesOfEmpty == Prefixes(<< >>) = {<< >>}
<1>1. \A i \in 0..Len(<< >>) : SubSeq(<< >>, 1, i) = << >>
  OBVIOUS
<1>2. 0 \in 0..Len(<< >>)
  OBVIOUS
<1> QED BY <1>1, <1>2 DEF Prefixes

-----------------------------------------------------------------------------
(* What can be reached in a tree d with values at s.                       *)

LiveIn(d, loc) == \A i \in DOMAIN loc :
                    loc[i] \in Names \/ loc[i] = Size(d, SubSeq(loc, 1, i - 1))

LEMMA LiveStep ==
  ASSUME NEW d, NEW k \in Seq(Steps), NEW x \in Steps
  PROVE  LiveIn(d, Append(k, x)) <=> LiveIn(d, k) /\ (x \in Names \/ x = Size(d, k))
<1> DEFINE l == Append(k, x)
<1>1. l \in Seq(Steps) /\ Len(l) = Len(k) + 1 /\ l[Len(k) + 1] = x /\ Len(k) \in Nat
      /\ \A i \in 1..Len(k) : l[i] = k[i]
  OBVIOUS
<1> HIDE DEF l
<1>2. DOMAIN l = 1..(Len(k) + 1) /\ DOMAIN k = 1..Len(k)
  BY <1>1
<1>3. ASSUME NEW i \in 1..Len(k) PROVE SubSeq(l, 1, i - 1) = SubSeq(k, 1, i - 1)
  <2>1. i - 1 \in 0..Len(k) /\ i - 1 <= Len(l)
    BY <1>1
  <2> QED BY <2>1, <1>1
<1>4. SubSeq(l, 1, (Len(k) + 1) - 1) = k
  BY <1>1
<1>5. ASSUME LiveIn(d, l) PROVE LiveIn(d, k) /\ (x \in Names \/ x = Size(d, k))
  <2>1. ASSUME NEW i \in 1..Len(k) PROVE k[i] \in Names \/ k[i] = Size(d, SubSeq(k, 1, i - 1))
    <3>1. i \in DOMAIN l
      BY <1>2
    <3>2. l[i] \in Names \/ l[i] = Size(d, SubSeq(l, 1, i - 1))
      BY <3>1, <1>5 DEF LiveIn
    <3> QED BY <3>2, <1>1, <1>3
  <2>2. x \in Names \/ x = Size(d, k)
    <3>1. Len(k) + 1 \in DOMAIN l
      BY <1>1, <1>2
    <3>2. l[Len(k) + 1] \in Names \/ l[Len(k) + 1] = Size(d, SubSeq(l, 1, (Len(k) + 1) - 1))
      BY <3>1, <1>5 DEF LiveIn
    <3> QED BY <3>2, <1>1, <1>4
  <2> QED BY <2>1, <2>2, <1>2 DEF LiveIn
<1>6. ASSUME LiveIn(d, k), x \in Names \/ x = Size(d, k) PROVE LiveIn(d, l)
  <2> SUFFICES ASSUME NEW i \in DOMAIN l
               PROVE  l[i] \in Names \/ l[i] = Size(d, SubSeq(l, 1, i - 1))
    BY DEF LiveIn
  <2>1. CASE i = Len(k) + 1
    <3>1. l[i] = x /\ SubSeq(l, 1, i - 1) = k
      BY <2>1, <1>1, <1>4
    <3> QED BY <3>1, <1>6
  <2>2. CASE i # Len(k) + 1
    <3>1. i \in 1..Len(k)
      BY <2>2, <1>1, <1>2
    <3>2. k[i] \in Names \/ k[i] = Size(d, SubSeq(k, 1, i - 1))
      BY <3>1, <1>2, <1>6 DEF LiveIn
    <3> QED BY <3>1, <3>2, <1>1, <1>3
  <2> QED BY <2>1, <2>2
<1> QED BY <1>5, <1>6 DEF l

LEMMA LiveRoot == ASSUME NEW d PROVE LiveIn(d, << >>)
BY DEF LiveIn

\* The kinds on the way to a longer location.
LEMMA KindStep ==
  ASSUME NEW k \in Seq(Steps), NEW x \in Steps
  PROVE  /\ \A m \in Prefixes(k) : m # k => KindOnWay(m, Append(k, x)) = KindOnWay(m, k)
         /\ KindOnWay(k, Append(k, x)) = IF x \in Names THEN "table" ELSE "array"
         /\ KindOnWay(k, k) = "table"
<1> DEFINE l == Append(k, x)
<1>1. l \in Seq(Steps) /\ Len(l) = Len(k) + 1 /\ l[Len(k) + 1] = x /\ Len(k) \in Nat
      /\ \A i \in 1..Len(k) : l[i] = k[i]
  OBVIOUS
<1> HIDE DEF l
<1>2. ASSUME NEW m \in Prefixes(k), m # k PROVE KindOnWay(m, l) = KindOnWay(m, k)
  <2>1. Len(m) \in Nat /\ Len(m) < Len(k)
    BY <1>2, PrefixFacts
  <2>2. Len(m) < Len(l) /\ Len(m) + 1 \in 1..Len(k)
    BY <2>1, <1>1
  <2>3. l[Len(m) + 1] = k[Len(m) + 1]
    BY <2>2, <1>1
  <2> QED BY <2>1, <2>2, <2>3 DEF KindOnWay
<1>3. KindOnWay(k, l) = IF x \in Names THEN "table" ELSE "array"
  BY <1>1 DEF KindOnWay
<1>4. KindOnWay(k, k) = "table"
  BY <1>1 DEF KindOnWay
<1> QED BY <1>2, <1>3, <1>4 DEF l

\* Induction over locations, and paths: a set with the empty sequence, and with every
\* sequence one longer than a member, has them all.
LEMMA InductSeq ==
  ASSUME NEW A, NEW T, << >> \in T, \A k \in Seq(A), x \in A : k \in T => Append(k, x) \in T
  PROVE  Seq(A) \subseteq T
<1> DEFINE S == {n \in Nat : \A l \in Seq(A) : Len(l) = n => l \in T}
<1>1. 0 \in S
  <2>1. \A l \in Seq(A) : Len(l) = 0 => l = << >>
    OBVIOUS
  <2> QED BY <2>1
<1>2. ASSUME NEW n \in Nat, n \in S PROVE n + 1 \in S
  <2>1. ASSUME NEW l \in Seq(A), Len(l) = n + 1 PROVE l \in T
    <3>1. l # << >>
      BY <2>1
    <3>2. Front(l) \in Seq(A) /\ Last(l) \in A /\ l = Append(Front(l), Last(l))
          /\ Len(Front(l)) = n
      <4>1. Len(Front(l)) = Len(l) - 1
        BY <3>1, LastStep
      <4> QED BY <3>1, <4>1, <2>1, LastStep
    <3>3. Front(l) \in T
      BY <3>2, <1>2
    <3> QED BY <3>2, <3>3
  <2> QED BY <2>1
<1>3. Nat \subseteq S
  <2> HIDE DEF S
  <2> QED BY <1>1, <1>2, Induct
<1>4. ASSUME NEW l \in Seq(A) PROVE l \in T
  <2>1. Len(l) \in S
    BY <1>3
  <2> QED BY <2>1
<1> QED BY <1>4

LEMMA PathType == \A l \in Seq(Steps) : PathOf(l) \in Seq(Names)
<1> SUFFICES ASSUME NEW l \in Seq(Steps) PROVE PathOf(l) \in Seq(Names)
  OBVIOUS
<1>1. << >> \in Seq(Names)
  OBVIOUS
<1>2. CASE l = << >>
  BY ONLY <1>1, <1>2, PathEmpty
<1>3. CASE l # << >>
  <2>1. Front(l) \in Seq(Steps) /\ Last(l) \in Steps
    BY <1>3, LastStep
  <2> QED BY <2>1, PathStep
<1> QED BY <1>2, <1>3

\* The path of a prefix is a prefix of the path.
LEMMA PathOfPrefix ==
  ASSUME NEW l \in Seq(Steps), NEW m \in Prefixes(l)
  PROVE  PathOf(m) \in Prefixes(PathOf(l))
<1> DEFINE T == {k \in Seq(Steps) : \A j \in Prefixes(k) : PathOf(j) \in Prefixes(PathOf(k))}
<1>1. << >> \in T
  BY PrefixesOfEmpty, PathEmpty
<1>2. ASSUME NEW k \in Seq(Steps), NEW x \in Steps, k \in T PROVE Append(k, x) \in T
  <2>1. PathOf(k) \in Seq(Names) /\ PathOf(Append(k, x)) = Longer(PathOf(k), x)
        /\ PathOf(Append(k, x)) \in Seq(Names) /\ Append(k, x) \in Seq(Steps)
    BY PathStep, PathType, Appended
  <2>2. Prefixes(PathOf(k)) \subseteq Prefixes(PathOf(Append(k, x)))
    <3>1. CASE x \in Names
      BY <3>1, <2>1, PrefixesStep DEF Longer
    <3>2. CASE x \notin Names
      BY <3>2, <2>1 DEF Longer
    <3> QED BY <3>1, <3>2
  <2>3. PathOf(Append(k, x)) \in Prefixes(PathOf(Append(k, x)))
    BY <2>1, PrefixFacts
  <2>4. Prefixes(Append(k, x)) = Prefixes(k) \cup {Append(k, x)}
    BY PrefixesStep
  <2> QED BY <1>2, <2>1, <2>2, <2>3, <2>4
<1>3. Seq(Steps) \subseteq T
  <2> HIDE DEF T
  <2> QED BY <1>1, <1>2, InductSeq
<1> QED BY <1>3

\* A location that ends in a name has a path.
LEMMA PathThere ==
  ASSUME NEW l \in Seq(Steps), l # << >>, Last(l) \in Names
  PROVE  /\ PathOf(Front(l)) \in Seq(Names) /\ PathOf(l) = Append(PathOf(Front(l)), Last(l))
         /\ PathOf(l) # << >>
<1>1. Front(l) \in Seq(Steps) /\ Last(l) \in Steps /\ l = Append(Front(l), Last(l))
  BY LastStep
<1>2. PathOf(Append(Front(l), Last(l))) = Append(PathOf(Front(l)), Last(l))
      /\ PathOf(Front(l)) \in Seq(Names)
  BY <1>1, PathStep DEF Longer
<1>3. Append(PathOf(Front(l)), Last(l)) # << >>
  BY <1>2, Appended
<1> QED BY <1>1, <1>2, <1>3

\* Every part of a path is the path of a prefix that ends in a name.
LEMMA PrefixOfPath ==
  ASSUME NEW l \in Seq(Steps), NEW q \in Prefixes(PathOf(l)), q # << >>
  PROVE  \E m \in Prefixes(l) : m # << >> /\ Last(m) \in Names /\ PathOf(m) = q
<1> DEFINE Found(k, p) == \E m \in Prefixes(k) : m # << >> /\ Last(m) \in Names /\ PathOf(m) = p
           T == {k \in Seq(Steps) : \A p \in Prefixes(PathOf(k)) : p # << >> => Found(k, p)}
<1>1. << >> \in T
  BY PrefixesOfEmpty, PathEmpty
<1>2. ASSUME NEW k \in Seq(Steps), NEW x \in Steps, k \in T PROVE Append(k, x) \in T
  <2>1. PathOf(k) \in Seq(Names) /\ PathOf(Append(k, x)) = Longer(PathOf(k), x)
    BY PathStep
  <2>2. Prefixes(Append(k, x)) = Prefixes(k) \cup {Append(k, x)}
    BY PrefixesStep
  <2>3. Append(k, x) \in Seq(Steps) /\ Append(k, x) # << >> /\ Last(Append(k, x)) = x
    BY Appended
  <2>4. ASSUME NEW p \in Prefixes(PathOf(Append(k, x))), p # << >>
        PROVE  Found(Append(k, x), p)
    <3>1. CASE p \in Prefixes(PathOf(k))
      <4>1. Found(k, p)
        BY <3>1, <2>4, <1>2
      <4> QED BY <4>1, <2>2
    <3>2. CASE p \notin Prefixes(PathOf(k))
      <4>1. x \in Names
        BY <3>2, <2>1, <2>4 DEF Longer
      <4>2. p = PathOf(Append(k, x))
        <5>1. PathOf(Append(k, x)) = Append(PathOf(k), x)
          BY <2>1, <4>1 DEF Longer
        <5>2. Prefixes(Append(PathOf(k), x)) = Prefixes(PathOf(k)) \cup {Append(PathOf(k), x)}
          BY <2>1, <4>1, PrefixesStep
        <5> QED BY <5>1, <5>2, <3>2, <2>4
      <4> QED BY <4>1, <4>2, <2>2, <2>3
    <3> QED BY <3>1, <3>2
  <2> HIDE DEF Found
  <2> QED BY <2>3, <2>4
<1>3. Seq(Steps) \subseteq T
  <2> HIDE DEF T
  <2> QED BY <1>1, <1>2, InductSeq
<1> QED BY <1>3

LEMMA AppendConcat ==
  ASSUME NEW r \in Seq(Names), NEW q \in Seq(Names), NEW x \in Names
  PROVE  Append(r \o q, x) = r \o Append(q, x)
<1>1. <<x>> \in Seq(Names) /\ r \o q \in Seq(Names)
  OBVIOUS
<1>2. Append(r \o q, x) = (r \o q) \o <<x>> /\ Append(q, x) = q \o <<x>>
  BY <1>1, AppendIsConcat
<1>3. (r \o q) \o <<x>> = r \o (q \o <<x>>)
  BY <1>1, ConcatAssociative
<1> QED BY <1>2, <1>3

\* The path of names after a location is its path with the names at the end.
LEMMA PathOfConcat ==
  ASSUME NEW l \in Seq(Steps), NEW p \in Seq(Names)
  PROVE  l \o p \in Seq(Steps) /\ PathOf(l \o p) = PathOf(l) \o p
<1> DEFINE T == {q \in Seq(Names) : l \o q \in Seq(Steps) /\ PathOf(l \o q) = PathOf(l) \o q}
<1>0. PathOf(l) \in Seq(Names)
  BY PathType
<1>1. << >> \in T
  <2>1. l \o << >> = l /\ PathOf(l) \o << >> = PathOf(l) /\ << >> \in Seq(Names)
    BY <1>0
  <2> QED BY <2>1
<1>2. ASSUME NEW q \in Seq(Names), NEW x \in Names, q \in T PROVE Append(q, x) \in T
  <2>1. x \in Steps
    BY DEF Steps
  <2>2. q \in Seq(Steps)
    <3>1. Names \subseteq Steps
      BY DEF Steps
    <3> QED BY <3>1
  <2>3. l \o Append(q, x) = Append(l \o q, x)
    BY <2>1, <2>2
  <2>4. PathOf(Append(l \o q, x)) = Append(PathOf(l) \o q, x)
    BY <1>2, <2>1, PathStep DEF Longer
  <2>5. Append(PathOf(l) \o q, x) = PathOf(l) \o Append(q, x)
    BY <1>0, AppendConcat
  <2>6. Append(l \o q, x) \in Seq(Steps) /\ Append(q, x) \in Seq(Names)
    BY <1>2, <2>1
  <2> QED BY <2>3, <2>4, <2>5, <2>6
<1>3. Seq(Names) \subseteq T
  <2> HIDE DEF T
  <2> QED BY <1>1, <1>2, InductSeq
<1> QED BY <1>3

-----------------------------------------------------------------------------
(* Trees.                                                                  *)

\* The root is a table of the document; whatever is in the tree is in a node of it.
Rooted(d, s) ==
  /\ IsFiniteSet(DOMAIN d) /\ DOMAIN d \subseteq Seq(Steps) /\ s \subseteq DOMAIN d
  /\ << >> \in DOMAIN d /\ d[<< >>] = "table" /\ << >> \notin s
  /\ \A l \in DOMAIN d : /\ d[l] \in {"table", "array", "scalar"}
                         /\ l # << >> => Front(l) \in DOMAIN d

\* What did not come with a value is in a table, under a name, or an element of an array.
Nested(d, s) ==
  \A l \in DOMAIN d \ s : l # << >> =>
    /\ Front(l) \notin s /\ d[l] # "scalar"
    /\ Last(l) \in Names => d[Front(l)] = "table"
    /\ Last(l) \notin Names => d[Front(l)] = "array" /\ d[l] = "table"

\* A value is in a table, under a name.
ValuesNamed(d, s) == \A l \in s : Front(l) \in s \/ (Last(l) \in Names /\ d[Front(l)] = "table")

\* The elements of an array of tables are numbered from 1.
Counted(d, s) == \A l \in DOMAIN d \ s : d[l] = "array" =>
                   Children(d, l) = {Append(l, i) : i \in 1 .. Size(d, l)}

Shaped(d, s) == Rooted(d, s) /\ Nested(d, s) /\ ValuesNamed(d, s) /\ Counted(d, s)

\* A node that is no part of a value, though it may be one.
Outer(d, s, l) == l \in DOMAIN d /\ (l = << >> \/ Front(l) \notin s)

\* A location that statements can mean: live, with tables and arrays of tables on the way
\* and only tables, by their names, where the tree ends.
Way(d, s, l) ==
  /\ l \in Seq(Steps) /\ LiveIn(d, l)
  /\ \A k \in Prefixes(l) : /\ k \notin s
                            /\ k \in DOMAIN d => d[k] = KindOnWay(k, l)
                            /\ k \notin DOMAIN d => k # << >> /\ Last(k) \in Names

LEMMA SizeType ==
  ASSUME NEW d, IsFiniteSet(DOMAIN d), NEW k
  PROVE  Size(d, k) \in Nat /\ Size(d, k) \in Steps /\ Size(d, k) \notin Names
<1>1. IsFiniteSet(Children(d, k))
  <2>1. Children(d, k) \subseteq DOMAIN d
    BY DEF Children
  <2> QED BY <2>1, FS_Subset
<1>2. Size(d, k) \in Nat
  BY <1>1, FS_CardinalityType DEF Size
<1> QED BY <1>2, TreeAssumption DEF Steps

\* What is on the way to a node that is no part of a value.
LEMMA OnTheWay ==
  ASSUME NEW d, NEW s, Shaped(d, s), NEW l \in DOMAIN d, Outer(d, s, l)
  PROVE  \A m \in Prefixes(l) : m # l => m \in DOMAIN d \ s /\ d[m] = KindOnWay(m, l)
<1> DEFINE Good(k) == \A m \in Prefixes(k) : m # k => m \in DOMAIN d \ s /\ d[m] = KindOnWay(m, k)
           T == {k \in Seq(Steps) : Outer(d, s, k) => Good(k)}
<1>1. << >> \in T
  BY PrefixesOfEmpty
<1>2. ASSUME NEW k \in Seq(Steps), NEW x \in Steps, k \in T PROVE Append(k, x) \in T
  <2> DEFINE j == Append(k, x)
  <2>0. j \in Seq(Steps) /\ j # << >> /\ Front(j) = k /\ Last(j) = x
    BY Appended
  <2> HIDE DEF j
  <2> SUFFICES ASSUME Outer(d, s, j) PROVE Good(j)
    BY <2>0 DEF j
  <2>1. j \in DOMAIN d /\ k \notin s /\ k \in DOMAIN d
    BY <2>0 DEF Outer, Shaped, Rooted
  <2>2. Outer(d, s, k)
    BY <2>1 DEF Outer, Shaped, Nested
  <2>3. Good(k)
    BY <2>2, <1>2
  <2>4. d[k] = KindOnWay(k, j)
    <3>1. KindOnWay(k, j) = IF x \in Names THEN "table" ELSE "array"
      BY KindStep DEF j
    <3>2. CASE j \in s
      <4>1. Last(j) \in Names /\ d[Front(j)] = "table"
        BY <3>2, <2>0, <2>1 DEF Shaped, ValuesNamed
      <4> QED BY <4>1, <3>1, <2>0
    <3>3. CASE j \notin s
      <4>1. (x \in Names => d[k] = "table") /\ (x \notin Names => d[k] = "array")
        BY <3>3, <2>0, <2>1 DEF Shaped, Nested
      <4> QED BY <4>1, <3>1
    <3> QED BY <3>2, <3>3
  <2>5. Prefixes(j) = Prefixes(k) \cup {j}
    BY PrefixesStep DEF j
  <2>6. ASSUME NEW m \in Prefixes(k), m # k PROVE d[m] = KindOnWay(m, j)
    <3>1. KindOnWay(m, j) = KindOnWay(m, k)
      BY <2>6, KindStep DEF j
    <3> QED BY <3>1, <2>6, <2>3
  <2> QED BY <2>1, <2>3, <2>4, <2>5, <2>6
<1>3. Seq(Steps) \subseteq T
  <2> HIDE DEF T
  <2> QED BY <1>1, <1>2, InductSeq
<1>4. l \in Seq(Steps)
  BY DEF Shaped, Rooted
<1> QED BY <1>3, <1>4

\* A live table of the document is one that statements can mean.
LEMMA WayTo ==
  ASSUME NEW d, NEW s, Shaped(d, s), NEW l \in DOMAIN d \ s, LiveIn(d, l), d[l] = "table"
  PROVE  Way(d, s, l)
<1>1. Outer(d, s, l)
  BY DEF Outer, Shaped, Nested
<1>2. \A m \in Prefixes(l) : m # l => m \in DOMAIN d \ s /\ d[m] = KindOnWay(m, l)
  BY <1>1, OnTheWay
<1>3. l \in Seq(Steps)
  BY DEF Shaped, Rooted
<1>4. KindOnWay(l, l) = "table"
  BY DEF KindOnWay
<1> QED BY <1>2, <1>3, <1>4 DEF Way

LEMMA WayRoot == ASSUME NEW d, NEW s, Shaped(d, s) PROVE Way(d, s, << >>)
<1>1. << >> \in DOMAIN d \ s /\ d[<< >>] = "table"
  BY DEF Shaped, Rooted
<1> QED BY <1>1, LiveRoot, WayTo

\* The way to a table leads on to what is in it, unless that is a value.
LEMMA WayName ==
  ASSUME NEW d, NEW s, Shaped(d, s), NEW k, Way(d, s, k), NEW x \in Names,
         Append(k, x) \notin s,
         Append(k, x) \in DOMAIN d => d[Append(k, x)] = "table"
  PROVE  /\ Way(d, s, Append(k, x))
         /\ PathOf(Append(k, x)) = Append(PathOf(k), x)
<1> DEFINE l == Append(k, x)
<1>1. k \in Seq(Steps) /\ x \in Steps
  BY DEF Way, Steps
<1>2. l \in Seq(Steps) /\ l # << >> /\ Last(l) = x
  BY <1>1, Appended
<1>3. LiveIn(d, l)
  BY <1>1, LiveStep DEF Way
<1>4. Prefixes(l) = Prefixes(k) \cup {l}
  BY <1>1, PrefixesStep
<1>5. \A m \in Prefixes(k) : KindOnWay(m, l) = KindOnWay(m, k)
  BY <1>1, KindStep
<1>6. KindOnWay(l, l) = "table"
  BY <1>2, KindStep DEF KindOnWay
<1>7. PathOf(l) = Append(PathOf(k), x)
  BY <1>1, PathStep DEF Longer
<1> HIDE DEF l
<1>8. l \notin s /\ (l \in DOMAIN d => d[l] = "table")
  BY DEF l
<1>9. Way(d, s, l)
  BY <1>2, <1>3, <1>4, <1>5, <1>6, <1>8 DEF Way
<1> QED BY <1>7, <1>9 DEF l

\* The way to a table leads on to the last element of an array in it.
LEMMA WayElement ==
  ASSUME NEW d, NEW s, Shaped(d, s), NEW k, Way(d, s, k), NEW x \in Names,
         NEW slot, slot = Append(k, x), slot \in DOMAIN d \ s, d[slot] = "array",
         NEW last, last = Append(slot, Size(d, slot)), last \in DOMAIN d, d[last] = "table"
  PROVE  Way(d, s, last)
<1>1. k \in Seq(Steps) /\ x \in Steps
  BY DEF Way, Steps
<1>2. slot \in Seq(Steps)
  BY <1>1, Appended
<1>3. Size(d, slot) \in Steps /\ Size(d, slot) \notin Names
  BY SizeType DEF Shaped, Rooted
<1>4. last \in Seq(Steps) /\ last # << >> /\ Front(last) = slot /\ Last(last) = Size(d, slot)
  <2>1. PICK n \in Steps : n = Size(d, slot) /\ last = Append(slot, n)
    BY <1>3
  <2>2. Append(slot, n) \in Seq(Steps) /\ Append(slot, n) # << >>
        /\ Front(Append(slot, n)) = slot /\ Last(Append(slot, n)) = n
    BY ONLY <1>2, n \in Steps, Appended
  <2> QED BY <2>1, <2>2
<1>6. LiveIn(d, slot)
  BY <1>1, LiveStep DEF Way
<1>7. LiveIn(d, last)
  BY <1>2, <1>3, <1>6, LiveStep
<1>8. last \notin s
  <2> SUFFICES ASSUME last \in s PROVE FALSE
    OBVIOUS
  <2>1. Front(last) \in s \/ Last(last) \in Names
    BY DEF Shaped, ValuesNamed
  <2> QED BY <2>1, <1>3, <1>4
<1>9. Way(d, s, last)
  BY <1>7, <1>8, WayTo
<1> QED BY <1>9

-----------------------------------------------------------------------------
(* The maps, for any epochs E.                                             *)

ContextIn(E, path) ==
  LET counted == {i \in DOMAIN path : Encode(SubSeq(path, 1, i)) \in DOMAIN E}
      prefix  == Encode(SubSeq(path, 1, CHOOSE i \in counted : \A j \in counted : j <= i))
  IN  IF counted = {} THEN NoContext ELSE [prefix |-> prefix, epoch |-> E[prefix]]

RecordedIn(E, table, path) ==
  Encode(path) \in DOMAIN table /\ table[Encode(path)] = ContextIn(E, path)

\* Bookkeeping of any tree with any maps.
Kept(d, s, o, t, E, declared, dottedKey, closed) ==
  \A l \in DOMAIN d : LiveIn(d, l) =>
    /\ l \in o /\ Last(l) \in Names => RecordedIn(E, declared, PathOf(l))
    /\ l \in t => RecordedIn(E, dottedKey, PathOf(l))
    /\ l \in s /\ Front(l) \notin s /\ d[l] # "scalar" => RecordedIn(E, closed, PathOf(l))
    /\ d[l] = "array" /\ l \notin s => Encode(PathOf(l)) \in DOMAIN E

LEMMA Contextual == ASSUME NEW path PROVE declarationContext(path) = ContextIn(arrayTableEpochs, path)
BY DEF declarationContext, ContextIn, arrayTables

LEMMA RecordedEq ==
  ASSUME NEW table, NEW path
  PROVE  Recorded(table, path) <=> RecordedIn(arrayTableEpochs, table, path)
BY Contextual DEF Recorded, RecordedIn

LEMMA LiveEq == ASSUME NEW l PROVE Tree!Live(l) <=> LiveIn(doc, l)
<1>1. \A k : Tree!Children(doc, k) = Children(doc, k)
  BY DEF Tree!Children, Children, Tree!Front, Front
<1>2. \A S : Tree!Cardinality(S) = Cardinality(S)
  BY DEF Tree!Cardinality, Cardinality
<1>3. \A k : Tree!Size(doc, k) = Size(doc, k)
  BY <1>1, <1>2 DEF Tree!Size, Size
<1> QED BY <1>3 DEF Tree!Live, LiveIn

LEMMA BookkeepingEq ==
  Bookkeeping <=> Kept(doc, sealed, opened, dotted, arrayTableEpochs,
                       declaredTables, dottedKeyTables, closedInlineTables)
BY RecordedEq, LiveEq DEF Bookkeeping, Kept, arrayTables

\* A path with no closed prefix is not closed itself, nor is the path it goes on from.
LEMMA ClosedStep ==
  ASSUME NEW p \in Seq(Names), NEW x \in Names, ~closedInlinePrefix(Append(p, x))
  PROVE  ~closedInlinePrefix(p) /\ ~Recorded(closedInlineTables, Append(p, x))
<1> DEFINE q == Append(p, x)
<1>1. q \in Seq(Names) /\ Len(q) = Len(p) + 1 /\ Len(p) \in Nat /\ \A i \in 1..Len(p) : q[i] = p[i]
  OBVIOUS
<1>2. ~closedInlinePrefix(q)
  OBVIOUS
<1> HIDE DEF q
<1>3. \A i \in 1..(Len(p) + 1) : ~Recorded(closedInlineTables, SubSeq(q, 1, i))
  BY <1>1, <1>2 DEF closedInlinePrefix
<1>4. SubSeq(q, 1, Len(p) + 1) = q
  BY <1>1
<1>5. \A i \in 1..Len(p) : SubSeq(q, 1, i) = SubSeq(p, 1, i)
  BY <1>1
<1>6. ~closedInlinePrefix(p)
  <2> SUFFICES ASSUME NEW i \in DOMAIN p PROVE ~Recorded(closedInlineTables, SubSeq(p, 1, i))
    BY DEF closedInlinePrefix
  <2>1. i \in 1..Len(p) /\ i \in 1..(Len(p) + 1)
    BY <1>1
  <2> QED BY <2>1, <1>3, <1>5
<1>7. ~Recorded(closedInlineTables, q)
  <2>1. Len(p) + 1 \in 1..(Len(p) + 1)
    BY <1>1
  <2> QED BY <2>1, <1>3, <1>4
<1> QED BY <1>6, <1>7 DEF q

\* What a closed table's record says: where no path is recorded as closed, there is no value
\* with anything in it.
LEMMA NotClosed ==
  ASSUME Shaped(doc, sealed), Bookkeeping, NEW k, Way(doc, sealed, k), NEW x \in Names,
         NEW l, l = Append(k, x), l \in DOMAIN doc, doc[l] # "scalar",
         ~Recorded(closedInlineTables, Append(PathOf(k), x))
  PROVE  l \notin sealed
<1>1. k \in Seq(Steps) /\ x \in Steps
  BY DEF Way, Steps
<1>2. Front(l) = k /\ PathOf(l) = Append(PathOf(k), x) /\ LiveIn(doc, l)
  BY <1>1, Appended, PathStep, LiveStep DEF Longer, Way
<1>3. k \notin sealed
  BY <1>1, PrefixFacts DEF Way
<1>4. l \in sealed => RecordedIn(arrayTableEpochs, closedInlineTables, PathOf(l))
  BY <1>2, <1>3, BookkeepingEq DEF Kept
<1> QED BY <1>2, <1>4, RecordedEq

\* The table that a statement's path resolves to is one that the path means.
LEMMA Resolved ==
  ASSUME Shaped(doc, sealed), Bookkeeping, NEW path \in Seq(Names),
         ensureTable(path) # Nowhere, ~closedInlinePrefix(path)
  PROVE  Way(doc, sealed, ensureTable(path)) /\ PathOf(ensureTable(path)) = path
<1> DEFINE Good(p) == /\ Way(doc, sealed, ensureTable(p))
                      /\ PathOf(ensureTable(p)) = p
           T == {p \in Seq(Names) : ensureTable(p) # Nowhere /\ ~closedInlinePrefix(p) => Good(p)}
<1>0. DOMAIN doc \subseteq Seq(Steps)
  BY DEF Shaped, Rooted
<1>1. << >> \in T
  <2>1. << >> \in Seq(Names)
    OBVIOUS
  <2>2. Good(<< >>)
    BY <1>0, TableEmpty, PathEmpty, WayRoot
  <2> HIDE DEF Good
  <2> QED BY <2>1, <2>2
<1>2. ASSUME NEW p \in Seq(Names), NEW x \in Names, p \in T PROVE Append(p, x) \in T
  <2> DEFINE q == Append(p, x)
             k == ensureTable(p)
             slot == Append(k, x)
  <2>0. q \in Seq(Names)
    OBVIOUS
  <2> HIDE DEF q
  <2> SUFFICES ASSUME ensureTable(q) # Nowhere, ~closedInlinePrefix(q) PROVE Good(q)
    BY <2>0 DEF q
  <2>1. k # Nowhere /\ ensureTable(q) = Enter(k, x)
    BY <1>0, TableStep DEF Further, q
  <2>2. ~closedInlinePrefix(p) /\ ~Recorded(closedInlineTables, q)
    BY ClosedStep DEF q
  <2>3. Good(p)
    BY <2>1, <2>2, <1>2
  <2>4. Way(doc, sealed, k) /\ PathOf(k) = p
    BY <2>3
  <2> HIDE DEF k, slot, Good, T
  <2>5. CASE slot \notin DOMAIN doc
    <3>1. ensureTable(q) = slot
      BY <2>1, <2>5 DEF Enter, slot
    <3>2. slot \notin sealed
      BY <2>5 DEF Shaped, Rooted
    <3>3. Way(doc, sealed, slot) /\ PathOf(slot) = Append(p, x)
      BY <2>4, <2>5, <3>2, WayName DEF slot
    <3> QED BY <3>1, <3>3 DEF Good, q
  <2>6. CASE slot \in DOMAIN doc /\ doc[slot] = "table"
    <3>1. ensureTable(q) = slot
      BY <2>1, <2>6 DEF Enter, slot
    <3>2. slot \notin sealed
      BY <2>2, <2>4, <2>6, NotClosed DEF slot, q
    <3>3. Way(doc, sealed, slot) /\ PathOf(slot) = Append(p, x)
      BY <2>4, <2>6, <3>2, WayName DEF slot
    <3> QED BY <3>1, <3>3 DEF Good, q
  <2>7. CASE slot \in DOMAIN doc /\ doc[slot] # "table"
    <3> DEFINE last == Append(slot, Size(doc, slot))
    <3>1. doc[slot] = "array" /\ last \in DOMAIN doc /\ doc[last] = "table"
          /\ ensureTable(q) = last
      BY <2>1, <2>7 DEF Enter, slot
    <3>2. slot \notin sealed
      BY <2>2, <2>4, <2>7, <3>1, NotClosed DEF slot, q
    <3> HIDE DEF last
    <3>3. Way(doc, sealed, last) /\ PathOf(last) = Append(PathOf(k), x)
      <4>1. slot = Append(k, x) /\ slot \in DOMAIN doc \ sealed /\ last = Append(slot, Size(doc, slot))
        BY <2>7, <3>2 DEF slot, last
      <4>2. doc[slot] = "array" /\ last \in DOMAIN doc /\ doc[last] = "table"
        BY <3>1
      <4>3. Shaped(doc, sealed) /\ Way(doc, sealed, k) /\ x \in Names
        BY <2>4
      <4>4. Way(doc, sealed, last)
        BY ONLY <4>1, <4>2, <4>3, WayElement
      <4>5. PathOf(last) = PathOf(slot)
        <5>1. Size(doc, slot) \notin Names /\ Size(doc, slot) \in Steps /\ slot \in Seq(Steps)
          BY <4>1, SizeType DEF Shaped, Rooted
        <5>2. PathOf(Append(slot, Size(doc, slot))) = Longer(PathOf(slot), Size(doc, slot))
          BY <5>1, PathStep
        <5> QED BY <5>1, <5>2, <4>1 DEF Longer
      <4>6. k \in Seq(Steps) /\ x \in Steps
        BY <2>4 DEF Way, Steps
      <4>7. PathOf(slot) = Append(PathOf(k), x)
        BY <4>6, PathStep DEF Longer, slot
      <4> QED BY <4>4, <4>5, <4>7
    <3> QED BY <2>4, <3>1, <3>3 DEF Good, q
  <2> QED BY <2>5, <2>6, <2>7
<1>3. Seq(Names) \subseteq T
  <2> HIDE DEF T
  <2> QED BY <1>1, <1>2, InductSeq
<1> QED BY <1>3

\* A live table is the one its own path resolves to, and a live array of tables is in one.
LEMMA Placed ==
  ASSUME Shaped(doc, sealed), NEW l \in DOMAIN doc \ sealed, LiveIn(doc, l)
  PROVE  /\ doc[l] = "table" => ensureTable(PathOf(l)) = l
         /\ doc[l] = "array" => l # << >> /\ Last(l) \in Names
<1> DEFINE Good(k) == /\ doc[k] = "table" => ensureTable(PathOf(k)) = k
                      /\ doc[k] = "array" => /\ k # << >> /\ Last(k) \in Names
                                             /\ ensureTable(PathOf(Front(k))) = Front(k)
           T == {k \in Seq(Steps) : k \in DOMAIN doc \ sealed /\ LiveIn(doc, k) => Good(k)}
<1>0. DOMAIN doc \subseteq Seq(Steps)
  BY DEF Shaped, Rooted
<1>1. << >> \in T
  <2>1. << >> \in Seq(Steps) /\ doc[<< >>] = "table"
    BY DEF Shaped, Rooted
  <2> QED BY <2>1, <1>0, PathEmpty, TableEmpty
<1>2. ASSUME NEW k \in Seq(Steps), NEW x \in Steps, k \in T PROVE Append(k, x) \in T
  <2> DEFINE j == Append(k, x)
  <2>0. j \in Seq(Steps) /\ j # << >> /\ Front(j) = k /\ Last(j) = x
    BY Appended
  <2>1. PathOf(k) \in Seq(Names) /\ PathOf(j) = Longer(PathOf(k), x)
    BY PathStep
  <2>2. LiveIn(doc, j) <=> LiveIn(doc, k) /\ (x \in Names \/ x = Size(doc, k))
    BY LiveStep
  <2> SUFFICES ASSUME j \in DOMAIN doc \ sealed, LiveIn(doc, j) PROVE Good(j)
    BY <2>0
  <2>3. k \in DOMAIN doc \ sealed /\ LiveIn(doc, k)
    <3>1. k \in DOMAIN doc
      BY <2>0 DEF Shaped, Rooted
    <3>2. k \notin sealed
      BY <2>0 DEF Shaped, Nested
    <3> QED BY <3>1, <3>2, <2>2
  <2>4. Good(k)
    BY <2>3, <1>2
  <2>5. CASE x \in Names
    <3>1. doc[k] = "table"
      BY <2>5, <2>0 DEF Shaped, Nested
    <3>2. ensureTable(PathOf(k)) = k
      BY <3>1, <2>4
    <3>3. ensureTable(PathOf(j)) = Further(k, x)
      BY <2>1, <2>5, <3>2, <1>0, TableStep DEF Longer
    <3>4. k # Nowhere
      BY TreeAssumption DEF Steps
    <3>5. doc[j] = "table" => ensureTable(PathOf(j)) = j
      BY <3>3, <3>4 DEF Further, Enter
    <3> QED BY <2>0, <2>5, <3>2, <3>5
  <2>6. CASE x \notin Names
    <3>1. doc[k] = "array" /\ doc[j] = "table"
      BY <2>6, <2>0 DEF Shaped, Nested
    <3>2. k # << >> /\ Last(k) \in Names /\ ensureTable(PathOf(Front(k))) = Front(k)
      BY <3>1, <2>4
    <3>3. Front(k) \in Seq(Steps) /\ k = Append(Front(k), Last(k)) /\ Last(k) \in Steps
      BY <3>2, LastStep
    <3>4. PathOf(Front(k)) \in Seq(Names) /\ PathOf(k) = Append(PathOf(Front(k)), Last(k))
      BY <3>2, <3>3, PathStep DEF Longer
    <3>5. PathOf(j) = PathOf(k)
      BY <2>1, <2>6 DEF Longer
    <3>6. ensureTable(PathOf(j)) = Further(Front(k), Last(k))
      BY <3>2, <3>4, <3>5, <1>0, TableStep
    <3>7. Front(k) # Nowhere
      BY <3>3, TreeAssumption DEF Steps
    <3>8. x = Size(doc, k)
      BY <2>2, <2>6
    <3>9. Enter(Front(k), Last(k)) = j
      BY <3>1, <3>3, <3>8, <2>3 DEF Enter
    <3> QED BY <3>1, <3>6, <3>7, <3>9 DEF Further
  <2> QED BY <2>5, <2>6
<1>3. Seq(Steps) \subseteq T
  <2> HIDE DEF T
  <2> QED BY <1>1, <1>2, InductSeq
<1> QED BY <1>3, <1>0

-----------------------------------------------------------------------------
(* Records outlast what does not concern them.                             *)

\* Without NUL characters in names, different paths are encoded differently.
LEMMA EncodeInjective ==
  ASSUME Plain, NEW p \in Seq(Names), NEW q \in Seq(Names), Encode(p) = Encode(q)
  PROVE  p = q
<1>1. ASSUME NEW r \in Seq(Names), NEW x \in Names
      PROVE  /\ Encode(r) \in Seq(STRING) /\ Pieces[x][1] \in STRING
             /\ Encode(Append(r, x)) = Append(Encode(r), Pieces[x][1])
  <2>1. Pieces[x] \in Seq(STRING) /\ Len(Pieces[x]) = 1
    BY TreeAssumption DEF Plain
  <2>2. Pieces[x][1] \in STRING /\ Pieces[x] = <<Pieces[x][1]>>
    BY <2>1
  <2>3. Encode(r) \in Seq(STRING) /\ Encode(Append(r, x)) = Encode(r) \o Pieces[x]
    BY EncodeStep
  <2>4. Append(Encode(r), Pieces[x][1]) = Encode(r) \o <<Pieces[x][1]>>
    BY <2>2, <2>3, AppendIsConcat
  <2> QED BY <2>2, <2>3, <2>4
<1>2. ASSUME NEW r \in Seq(Names), NEW x \in Names PROVE Encode(Append(r, x)) # << >>
  <2>1. PICK e \in Seq(STRING), c \in STRING : Encode(Append(r, x)) = Append(e, c)
    BY <1>1
  <2>2. Append(e, c) # << >>
    BY Appended
  <2> QED BY <2>1, <2>2
<1> DEFINE T == {r \in Seq(Names) : \A t \in Seq(Names) : Encode(r) = Encode(t) => r = t}
<1>3. << >> \in T
  <2>1. << >> \in Seq(Names)
    OBVIOUS
  <2>2. ASSUME NEW t \in Seq(Names), t # << >> PROVE Encode(t) # << >>
    <3>1. Front(t) \in Seq(Names) /\ Last(t) \in Names /\ t = Append(Front(t), Last(t))
      BY <2>2, LastStep
    <3> QED BY <3>1, <1>2
  <2> QED BY <2>1, <2>2, EncodeEmpty
<1>4. ASSUME NEW r \in Seq(Names), NEW x \in Names, r \in T PROVE Append(r, x) \in T
  <2>1. Append(r, x) \in Seq(Names)
    OBVIOUS
  <2>2. ASSUME NEW t \in Seq(Names), Encode(Append(r, x)) = Encode(t) PROVE Append(r, x) = t
    <3>1. t # << >>
      BY <2>2, <1>2, EncodeEmpty
    <3>2. Front(t) \in Seq(Names) /\ Last(t) \in Names /\ t = Append(Front(t), Last(t))
      BY <3>1, LastStep
    <3>3. Encode(t) = Append(Encode(Front(t)), Pieces[Last(t)][1])
      BY <3>2, <1>1
    <3>4. Append(Encode(r), Pieces[x][1]) = Append(Encode(Front(t)), Pieces[Last(t)][1])
      BY <2>2, <1>1, <3>3
    <3>5. Encode(r) = Encode(Front(t)) /\ Pieces[x][1] = Pieces[Last(t)][1]
      <4>1. /\ Encode(r) \in Seq(STRING) /\ Encode(Front(t)) \in Seq(STRING)
            /\ Pieces[x][1] \in STRING /\ Pieces[Last(t)][1] \in STRING
        BY <3>2, <1>1
      <4> QED BY ONLY <4>1, <3>4, AppendInjective
    <3>6. Pieces[x] = Pieces[Last(t)]
      <4>1. \A n \in Names : Pieces[n] \in Seq(STRING) /\ Len(Pieces[n]) = 1
        BY TreeAssumption DEF Plain
      <4> QED BY <4>1, <3>2, <3>5
    <3>7. x = Last(t)
      BY <3>2, <3>6 DEF Plain
    <3>8. r = Front(t)
      BY <3>2, <3>5, <1>4
    <3> QED BY <3>2, <3>7, <3>8
  <2> QED BY <2>1, <2>2
<1>5. Seq(Names) \subseteq T
  <2> HIDE DEF T
  <2> QED BY <1>3, <1>4, InductSeq
<1> QED BY <1>5

\* A context is that of the longest counted part of the path.
LEMMA ContextOf ==
  ASSUME NEW E, NEW p \in Seq(Names)
  PROVE  \/ /\ ContextIn(E, p) = NoContext
            /\ \A i \in DOMAIN p : Encode(SubSeq(p, 1, i)) \notin DOMAIN E
         \/ \E i \in DOMAIN p :
              /\ Encode(SubSeq(p, 1, i)) \in DOMAIN E
              /\ \A j \in DOMAIN p : Encode(SubSeq(p, 1, j)) \in DOMAIN E => j <= i
              /\ ContextIn(E, p) = [prefix |-> Encode(SubSeq(p, 1, i)),
                                    epoch |-> E[Encode(SubSeq(p, 1, i))]]
<1> DEFINE counted == {i \in DOMAIN p : Encode(SubSeq(p, 1, i)) \in DOMAIN E}
           i == CHOOSE i \in counted : \A j \in counted : j <= i
<1>1. CASE counted = {}
  BY <1>1 DEF ContextIn
<1>2. CASE counted # {}
  <2>1. counted \in SUBSET (1..Len(p)) /\ Len(p) \in Nat
    OBVIOUS
  <2>2. \E m \in counted : \A j \in counted : j <= m
    <3> HIDE DEF counted
    <3> QED BY <1>2, <2>1, MaxIn
  <2>3. i \in counted /\ \A j \in counted : j <= i
    <3> HIDE DEF counted
    <3> QED BY <2>2
  <2>4. ContextIn(E, p) = [prefix |-> Encode(SubSeq(p, 1, i)),
                           epoch |-> E[Encode(SubSeq(p, 1, i))]]
    BY <1>2 DEF ContextIn
  <2> HIDE DEF i
  <2> QED BY <2>3, <2>4
<1> QED BY <1>1, <1>2

\* The context of a path changes only with the counts of its own parts.
LEMMA ContextSame ==
  ASSUME NEW E, NEW F, NEW p \in Seq(Names),
         \A i \in DOMAIN p :
           /\ Encode(SubSeq(p, 1, i)) \in DOMAIN E <=> Encode(SubSeq(p, 1, i)) \in DOMAIN F
           /\ Encode(SubSeq(p, 1, i)) \in DOMAIN E =>
                E[Encode(SubSeq(p, 1, i))] = F[Encode(SubSeq(p, 1, i))]
  PROVE  ContextIn(E, p) = ContextIn(F, p)
<1>1. CASE \A i \in DOMAIN p : Encode(SubSeq(p, 1, i)) \notin DOMAIN E
  <2>1. ContextIn(E, p) = NoContext
    BY <1>1, ContextOf
  <2>2. ContextIn(F, p) = NoContext
    BY <1>1, ContextOf
  <2> QED BY <2>1, <2>2
<1>2. CASE \E i \in DOMAIN p : Encode(SubSeq(p, 1, i)) \in DOMAIN E
  <2>1. PICK i \in DOMAIN p :
              /\ Encode(SubSeq(p, 1, i)) \in DOMAIN E
              /\ \A j \in DOMAIN p : Encode(SubSeq(p, 1, j)) \in DOMAIN E => j <= i
              /\ ContextIn(E, p) = [prefix |-> Encode(SubSeq(p, 1, i)),
                                    epoch |-> E[Encode(SubSeq(p, 1, i))]]
    BY <1>2, ContextOf
  <2>2. PICK j \in DOMAIN p :
              /\ Encode(SubSeq(p, 1, j)) \in DOMAIN F
              /\ \A k \in DOMAIN p : Encode(SubSeq(p, 1, k)) \in DOMAIN F => k <= j
              /\ ContextIn(F, p) = [prefix |-> Encode(SubSeq(p, 1, j)),
                                    epoch |-> F[Encode(SubSeq(p, 1, j))]]
    BY <1>2, ContextOf
  <2>3. i <= j /\ j <= i /\ i \in Nat /\ j \in Nat
    BY <2>1, <2>2
  <2>4. i = j
    BY <2>3
  <2> QED BY <2>1, <2>2, <2>4
<1> QED BY <1>1, <1>2

\* What recording paths does to a table, for any epochs E.
RecordIn(E, table, paths) ==
  LET encoded == {Encode(p) : p \in paths}
  IN  [e \in DOMAIN table \cup encoded |->
         IF e \in encoded THEN ContextIn(E, CHOOSE p \in paths : Encode(p) = e) ELSE table[e]]

LEMMA RecordEq ==
  ASSUME NEW table, NEW paths
  PROVE  Record(table, paths) = RecordIn(arrayTableEpochs, table, paths)
BY Contextual DEF Record, RecordIn

LEMMA RecordKeeps ==
  ASSUME Plain, NEW E, NEW table, NEW paths, paths \subseteq Seq(Names), NEW p \in Seq(Names),
         p \in paths \/ RecordedIn(E, table, p)
  PROVE  RecordedIn(E, RecordIn(E, table, paths), p)
<1> DEFINE encoded == {Encode(q) : q \in paths}
           new == RecordIn(E, table, paths)
<1>1. DOMAIN new = DOMAIN table \cup encoded
  BY DEF RecordIn
<1>2. CASE Encode(p) \in encoded
  <2>1. PICK q \in paths : Encode(q) = Encode(p)
    BY <1>2
  <2>2. \A r \in paths : Encode(r) = Encode(p) => r = p
    BY EncodeInjective
  <2>3. (CHOOSE r \in paths : Encode(r) = Encode(p)) = p
    BY <2>1, <2>2
  <2>4. new[Encode(p)] = ContextIn(E, CHOOSE r \in paths : Encode(r) = Encode(p))
    BY <1>2 DEF RecordIn
  <2> QED BY <1>1, <1>2, <2>3, <2>4 DEF RecordedIn
<1>3. CASE Encode(p) \notin encoded
  <2>1. p \notin paths
    BY <1>3
  <2>2. Encode(p) \in DOMAIN table /\ table[Encode(p)] = ContextIn(E, p)
    BY <2>1 DEF RecordedIn
  <2>3. new[Encode(p)] = table[Encode(p)]
    BY <1>3, <2>2 DEF RecordIn
  <2> QED BY <1>1, <2>2, <2>3 DEF RecordedIn
<1> QED BY <1>2, <1>3

-----------------------------------------------------------------------------
(* Trees that grow.                                                        *)

\* Prefixes by their length.
LEMMA PrefixAt ==
  ASSUME NEW l \in Seq(Steps), NEW i \in 0..Len(l)
  PROVE  /\ SubSeq(l, 1, i) \in Prefixes(l) /\ SubSeq(l, 1, i) \in Seq(Steps)
         /\ Len(SubSeq(l, 1, i)) = i
         /\ i # 0 => /\ SubSeq(l, 1, i) # << >> /\ Last(SubSeq(l, 1, i)) = l[i]
                     /\ Front(SubSeq(l, 1, i)) = SubSeq(l, 1, i - 1)
<1> DEFINE m == SubSeq(l, 1, i)
<1>1. m \in Seq(Steps) /\ Len(m) = i /\ \A j \in 1..i : m[j] = l[j]
  OBVIOUS
<1>2. m \in Prefixes(l)
  BY DEF Prefixes
<1> HIDE DEF m
<1>3. ASSUME i # 0 PROVE m # << >> /\ Last(m) = l[i] /\ Front(m) = SubSeq(l, 1, i - 1)
  <2>1. i \in 1..i /\ i - 1 \in Nat
    BY <1>3
  <2>2. m # << >> /\ Last(m) = l[i]
    BY <2>1, <1>1 DEF Last
  <2>3. Front(m) = SubSeq(l, 1, i - 1)
    BY <2>1, <1>1 DEF Front
  <2> QED BY <2>2, <2>3
<1> QED BY <1>1, <1>2, <1>3 DEF m

\* The kind that the step behind a prefix asks for.
LEMMA KindAt ==
  ASSUME NEW l \in Seq(Steps), NEW m \in Prefixes(l), m # << >>
  PROVE  KindOnWay(Front(m), l) = IF Last(m) \in Names THEN "table" ELSE "array"
<1>1. PICK i \in 0..Len(l) : m = SubSeq(l, 1, i)
  BY DEF Prefixes
<1>2. i # 0
  <2>1. Len(m) = i
    BY <1>1, PrefixAt
  <2> QED BY <2>1
<1>3. Last(m) = l[i] /\ Front(m) = SubSeq(l, 1, i - 1)
  BY <1>1, <1>2, PrefixAt
<1>4. i - 1 \in 0..Len(l) /\ i - 1 < Len(l) /\ (i - 1) + 1 = i
  BY <1>2
<1>5. Len(Front(m)) = i - 1
  BY <1>3, <1>4, PrefixAt
<1> QED BY <1>3, <1>4, <1>5 DEF KindOnWay

\* A location is as live in a tree whose arrays on the way to it have the same size.
LEMMA LiveSame ==
  ASSUME NEW d, NEW e, NEW l \in Seq(Steps),
         \A m \in Prefixes(l) : m # << >> /\ Last(m) \notin Names => Size(e, Front(m)) = Size(d, Front(m))
  PROVE  LiveIn(e, l) <=> LiveIn(d, l)
<1>1. ASSUME NEW i \in DOMAIN l, l[i] \notin Names
      PROVE  Size(e, SubSeq(l, 1, i - 1)) = Size(d, SubSeq(l, 1, i - 1))
  <2>1. i \in 0..Len(l) /\ i # 0
    OBVIOUS
  <2>2. /\ SubSeq(l, 1, i) \in Prefixes(l) /\ SubSeq(l, 1, i) # << >>
        /\ Last(SubSeq(l, 1, i)) = l[i] /\ Front(SubSeq(l, 1, i)) = SubSeq(l, 1, i - 1)
    BY <2>1, PrefixAt
  <2> QED BY <2>2, <1>1
<1> QED BY <1>1 DEF LiveIn

\* With a location, what is on the way to it is live.
LEMMA LivePrefix ==
  ASSUME NEW d, NEW l \in Seq(Steps), LiveIn(d, l), NEW m \in Prefixes(l) PROVE LiveIn(d, m)
<1>1. PICK i \in 0..Len(l) : m = SubSeq(l, 1, i)
  BY DEF Prefixes
<1>2. ASSUME NEW j \in DOMAIN m PROVE m[j] \in Names \/ m[j] = Size(d, SubSeq(m, 1, j - 1))
  <2>1. j \in 1..i /\ j \in DOMAIN l /\ m[j] = l[j]
    BY <1>1
  <2>2. SubSeq(m, 1, j - 1) = SubSeq(l, 1, j - 1)
    BY <1>1, <2>1
  <2>3. l[j] \in Names \/ l[j] = Size(d, SubSeq(l, 1, j - 1))
    BY <2>1 DEF LiveIn
  <2> QED BY <2>1, <2>2, <2>3
<1> QED BY <1>2 DEF LiveIn

\* So it is if the arrays of tables keep their sizes.
LEMMA OuterLive ==
  ASSUME NEW d, NEW s, Shaped(d, s), NEW e, NEW l \in DOMAIN d, Outer(d, s, l),
         \A k \in DOMAIN d \ s : d[k] = "array" /\ k \in Prefixes(l) => Size(e, k) = Size(d, k)
  PROVE  LiveIn(e, l) <=> LiveIn(d, l)
<1>1. l \in Seq(Steps)
  BY DEF Shaped, Rooted
<1>2. ASSUME NEW m \in Prefixes(l), m # << >>, Last(m) \notin Names
      PROVE  Size(e, Front(m)) = Size(d, Front(m))
  <2>1. Front(m) \in Prefixes(l) /\ Front(m) # l
    <3>1. Front(m) \in Prefixes(l)
      BY <1>1, <1>2, PrefixFacts
    <3>2. m \in Seq(Steps) /\ Len(m) \in Nat /\ Len(m) <= Len(l) /\ Len(l) \in Nat
      BY <1>1, PrefixFacts
    <3>3. Len(Front(m)) = Len(m) - 1
      BY <3>2, <1>2, LastStep
    <3>4. Len(Front(m)) # Len(l)
      BY <3>2, <3>3
    <3> QED BY <3>1, <3>4
  <2>2. Front(m) \in DOMAIN d \ s /\ d[Front(m)] = KindOnWay(Front(m), l)
    BY <2>1, OnTheWay
  <2>3. KindOnWay(Front(m), l) = "array"
    BY <1>1, <1>2, KindAt
  <2> QED BY <2>1, <2>2, <2>3
<1> QED BY <1>1, <1>2, LiveSame

\* A tree that grew along a way is a tree, in which only tables are new.
Grown(d, s, loc, e) == Shaped(d, s) /\ Way(d, s, loc) /\ e = Grow(d, loc)

GrownTo(d, s, loc, e) ==
  /\ DOMAIN e = DOMAIN d \cup Prefixes(loc)
  /\ \A l \in DOMAIN d : e[l] = d[l]
  /\ \A l \in DOMAIN e \ DOMAIN d : /\ e[l] = "table" /\ l \notin s
                                    /\ l # << >> /\ Last(l) \in Names
  /\ \A l \in DOMAIN d \ s : d[l] = "array" => Children(e, l) = Children(d, l)
  /\ Shaped(e, s) /\ e[loc] = "table" /\ Way(e, s, loc)

LEMMA GrowTable ==
  ASSUME NEW d, NEW s, NEW loc, NEW e, Grown(d, s, loc, e)
  PROVE  GrownTo(d, s, loc, e)
<1> USE DEF Grown
<1>0. loc \in Seq(Steps) /\ LiveIn(d, loc)
  BY DEF Way
<1>1. DOMAIN e = DOMAIN d \cup Prefixes(loc)
      /\ \A l \in DOMAIN e : e[l] = IF l \in DOMAIN d THEN d[l] ELSE KindOnWay(l, loc)
  BY DEF Grow
<1>2. ASSUME NEW m \in Prefixes(loc), m \notin DOMAIN d
      PROVE  KindOnWay(m, loc) = "table" /\ m \notin s /\ m # << >> /\ Last(m) \in Names
  <2>1. m \notin s /\ m # << >> /\ Last(m) \in Names
    BY <1>2 DEF Way
  <2>2. ASSUME KindOnWay(m, loc) # "table" PROVE FALSE
    <3>1. PICK i \in 0..Len(loc) : m = SubSeq(loc, 1, i)
      BY DEF Prefixes
    <3>2. Len(m) = i
      BY <1>0, <3>1, PrefixAt
    <3>3. i < Len(loc) /\ loc[i + 1] \notin Names
      BY <2>2, <3>2 DEF KindOnWay
    <3>4. i + 1 \in 0..Len(loc) /\ i + 1 # 0 /\ (i + 1) - 1 = i
      BY <3>3
    <3> DEFINE n == SubSeq(loc, 1, i + 1)
    <3>5. n \in Prefixes(loc) /\ n # << >> /\ Last(n) = loc[i + 1] /\ Front(n) = SubSeq(loc, 1, (i + 1) - 1)
      BY <1>0, <3>4, PrefixAt
    <3> HIDE DEF n
    <3>6. n \in DOMAIN d
      BY <3>3, <3>5 DEF Way
    <3>7. Front(n) = m
      BY <3>1, <3>4, <3>5
    <3> QED BY <1>2, <3>5, <3>6, <3>7 DEF Shaped, Rooted
  <2> QED BY <2>1, <2>2
<1>3. \A l \in DOMAIN d : e[l] = d[l]
  BY <1>1
<1>4. ASSUME NEW l \in DOMAIN e, l \notin DOMAIN d
      PROVE  /\ l \in Prefixes(loc) /\ l \in Seq(Steps)
             /\ e[l] = "table" /\ l \notin s /\ l # << >> /\ Last(l) \in Names
  <2>1. l \in Prefixes(loc) /\ l \in Seq(Steps)
    BY <1>0, <1>1, <1>4, PrefixFacts
  <2> QED BY <2>1, <1>1, <1>2, <1>4
<1>5. ASSUME NEW l \in DOMAIN e, l \notin DOMAIN d
      PROVE  Front(l) \in DOMAIN e /\ Front(l) \notin s /\ e[Front(l)] = "table"
  <2>1. l \in Prefixes(loc) /\ l # << >> /\ Last(l) \in Names
    BY <1>4, <1>5
  <2>2. Front(l) \in Prefixes(loc) /\ Front(l) \notin s
    BY <1>0, <2>1, PrefixFacts DEF Way
  <2>3. Front(l) \in DOMAIN d => d[Front(l)] = "table"
    BY <1>0, <2>1, <2>2, KindAt DEF Way
  <2> QED BY <1>1, <1>2, <2>2, <2>3
<1>6. ASSUME NEW l \in DOMAIN d \ s, d[l] = "array"
      PROVE  Children(e, l) = Children(d, l)
  <2>1. ASSUME NEW m \in DOMAIN e, m # << >>, Front(m) = l PROVE m \in DOMAIN d
    BY <1>3, <1>5, <1>6, <2>1
  <2> QED BY <1>1, <2>1 DEF Children
<1>7. loc \in Prefixes(loc) /\ << >> \in Prefixes(loc) /\ IsFiniteSet(Prefixes(loc))
  BY <1>0, PrefixFacts
<1>8. e[loc] = "table" /\ loc \in DOMAIN e \ s
  <2>1. KindOnWay(loc, loc) = "table"
    BY DEF KindOnWay
  <2> QED BY <1>1, <1>7, <2>1 DEF Way
<1>9. Rooted(e, s)
  <2>1. IsFiniteSet(DOMAIN e)
    <3>1. IsFiniteSet(DOMAIN d)
      BY DEF Shaped, Rooted
    <3>2. IsFiniteSet(DOMAIN d \cup Prefixes(loc))
      BY <3>1, <1>7, FS_Union
    <3> QED BY <3>2, <1>1
  <2>2. DOMAIN e \subseteq Seq(Steps)
    BY <1>4 DEF Shaped, Rooted
  <2>3. s \subseteq DOMAIN e /\ << >> \in DOMAIN e /\ e[<< >>] = "table" /\ << >> \notin s
    BY <1>1, <1>3 DEF Shaped, Rooted
  <2>4. ASSUME NEW l \in DOMAIN e
        PROVE  e[l] \in {"table", "array", "scalar"} /\ (l # << >> => Front(l) \in DOMAIN e)
    <3>1. CASE l \in DOMAIN d
      BY <3>1, <1>1, <1>3 DEF Shaped, Rooted
    <3>2. CASE l \notin DOMAIN d
      BY <3>2, <1>4, <1>5
    <3> QED BY <3>1, <3>2
  <2> QED BY <2>1, <2>2, <2>3, <2>4 DEF Rooted
<1>10. Nested(e, s)
  <2> SUFFICES ASSUME NEW l \in DOMAIN e \ s, l # << >>
               PROVE  /\ Front(l) \notin s /\ e[l] # "scalar"
                      /\ Last(l) \in Names => e[Front(l)] = "table"
                      /\ Last(l) \notin Names => e[Front(l)] = "array" /\ e[l] = "table"
    BY DEF Nested
  <2>1. CASE l \in DOMAIN d
    <3>1. Front(l) \in DOMAIN d
      BY <2>1 DEF Shaped, Rooted
    <3>2. e[l] = d[l] /\ e[Front(l)] = d[Front(l)]
      BY <2>1, <3>1, <1>3
    <3> QED BY <2>1, <3>2 DEF Shaped, Nested
  <2>2. CASE l \notin DOMAIN d
    BY <2>2, <1>4, <1>5
  <2> QED BY <2>1, <2>2
<1>11. ValuesNamed(e, s)
  <2> SUFFICES ASSUME NEW l \in s, Front(l) \notin s
               PROVE  Last(l) \in Names /\ e[Front(l)] = "table"
    BY DEF ValuesNamed
  <2>1. Last(l) \in Names /\ d[Front(l)] = "table"
    BY DEF Shaped, ValuesNamed
  <2>2. Front(l) \in DOMAIN d
    BY DEF Shaped, Rooted
  <2> QED BY <2>1, <2>2, <1>3
<1>12. Counted(e, s)
  <2> SUFFICES ASSUME NEW l \in DOMAIN e \ s, e[l] = "array"
               PROVE  Children(e, l) = {Append(l, i) : i \in 1 .. Size(e, l)}
    BY DEF Counted
  <2>1. l \in DOMAIN d /\ d[l] = "array"
    BY <1>3, <1>4
  <2>2. Children(e, l) = Children(d, l) /\ Size(e, l) = Size(d, l)
    BY <2>1, <1>6 DEF Size
  <2> QED BY <2>1, <2>2 DEF Shaped, Counted
<1>13. LiveIn(e, loc)
  <2>1. ASSUME NEW m \in Prefixes(loc), m # << >>, Last(m) \notin Names
        PROVE  Size(e, Front(m)) = Size(d, Front(m))
    <3>1. m \in DOMAIN d
      BY <2>1, <1>2
    <3>2. Front(m) \in DOMAIN d /\ Front(m) \in Prefixes(loc)
      BY <2>1, <3>1, <1>0, PrefixFacts DEF Shaped, Rooted
    <3>3. d[Front(m)] = "array" /\ Front(m) \notin s
      BY <2>1, <3>2, <1>0, KindAt DEF Way
    <3> QED BY <3>2, <3>3, <1>6 DEF Size
  <2> QED BY <1>0, <2>1, LiveSame
<1>14. Shaped(e, s)
  BY <1>9, <1>10, <1>11, <1>12 DEF Shaped
<1>15. Way(e, s, loc)
  BY <1>8, <1>13, <1>14, WayTo
<1> QED BY <1>1, <1>3, <1>4, <1>6, <1>8, <1>14, <1>15 DEF GrownTo

\* Locations with one step more.
LEMMA OneStep ==
  ASSUME NEW k \in Seq(Steps), NEW x \in Steps
  PROVE  /\ Append(k, x) \in Seq(Steps) /\ Append(k, x) # << >>
         /\ Front(Append(k, x)) = k /\ Last(Append(k, x)) = x
         /\ Len(Append(k, x)) = Len(k) + 1
         /\ Prefixes(Append(k, x)) = Prefixes(k) \cup {Append(k, x)}
<1>1. Prefixes(Append(k, x)) = Prefixes(k) \cup {Append(k, x)}
  BY PrefixesStep
<1> QED BY <1>1, Appended

\* With a node, everything on the way to it is in the tree.
LEMMA PrefixClosed ==
  ASSUME NEW d, NEW s, Rooted(d, s), NEW l \in DOMAIN d
  PROVE  Prefixes(l) \subseteq DOMAIN d
<1> DEFINE T == {k \in Seq(Steps) : k \in DOMAIN d => Prefixes(k) \subseteq DOMAIN d}
<1>1. << >> \in T
  BY PrefixesOfEmpty
<1>2. ASSUME NEW k \in Seq(Steps), NEW x \in Steps, k \in T PROVE Append(k, x) \in T
  <2>1. Append(k, x) \in Seq(Steps) /\ Append(k, x) # << >> /\ Front(Append(k, x)) = k
    BY Appended
  <2>2. Prefixes(Append(k, x)) = Prefixes(k) \cup {Append(k, x)}
    BY PrefixesStep
  <2>3. Append(k, x) \in DOMAIN d => k \in DOMAIN d
    BY <2>1 DEF Rooted
  <2> QED BY <2>1, <2>2, <2>3, <1>2
<1>3. Seq(Steps) \subseteq T
  <2> HIDE DEF T
  <2> QED BY <1>1, <1>2, InductSeq
<1> QED BY <1>3 DEF Rooted

\* A location below another one.
LEMMA Below ==
  ASSUME NEW r \in Seq(Steps), NEW q \in Seq(Steps)
  PROVE  /\ r \o q \in Seq(Steps) /\ r \in Prefixes(r \o q)
         /\ SubSeq(r \o q, Len(r) + 1, Len(r \o q)) = q
         /\ q # << >> => r \o q # << >> /\ Front(r \o q) = r \o Front(q) /\ Last(r \o q) = Last(q)
<1>1. r \o q \in Seq(Steps) /\ Len(r \o q) = Len(r) + Len(q) /\ Len(r) \in Nat /\ Len(q) \in Nat
  OBVIOUS
<1>2. \A i \in 1..Len(r) : (r \o q)[i] = r[i]
  OBVIOUS
<1>3. \A i \in 1..Len(q) : (r \o q)[Len(r) + i] = q[i]
  OBVIOUS
<1>4. r \in Prefixes(r \o q)
  <2>1. SubSeq(r \o q, 1, Len(r)) = r
    BY <1>1, <1>2
  <2>2. Len(r) \in 0..Len(r \o q)
    BY <1>1
  <2> QED BY <2>1, <2>2 DEF Prefixes
<1>5. SubSeq(r \o q, Len(r) + 1, Len(r \o q)) = q
  <2> DEFINE t == SubSeq(r \o q, Len(r) + 1, Len(r \o q))
  <2>1. t \in Seq(Steps) /\ Len(t) = Len(q)
    BY <1>1
  <2>2. ASSUME NEW i \in 1..Len(q) PROVE t[i] = q[i]
    <3>1. t[i] = (r \o q)[(Len(r) + 1) + i - 1]
      BY <1>1
    <3>2. (Len(r) + 1) + i - 1 = Len(r) + i
      BY <1>1
    <3> QED BY <3>1, <3>2, <1>3
  <2> HIDE DEF t
  <2>3. t = q
    BY <2>1, <2>2
  <2> QED BY <2>3 DEF t
<1>6. ASSUME q # << >>
      PROVE  r \o q # << >> /\ Front(r \o q) = r \o Front(q) /\ Last(r \o q) = Last(q)
  <2>1. Front(q) \in Seq(Steps) /\ Last(q) \in Steps /\ q = Append(Front(q), Last(q))
    BY <1>6, LastStep
  <2>2. \A k \in Seq(Steps), x \in Steps : r \o Append(k, x) = Append(r \o k, x)
    OBVIOUS
  <2>3. r \o Append(Front(q), Last(q)) = Append(r \o Front(q), Last(q))
    BY <2>1, <2>2
  <2>4. r \o Front(q) \in Seq(Steps)
    BY <2>1
  <2>5. r \o q = Append(r \o Front(q), Last(q))
    BY <2>1, <2>3
  <2>6. /\ Append(r \o Front(q), Last(q)) # << >>
        /\ Front(Append(r \o Front(q), Last(q))) = r \o Front(q)
        /\ Last(Append(r \o Front(q), Last(q))) = Last(q)
    BY <2>1, <2>4, OneStep
  <2> QED BY <2>5, <2>6
<1> QED BY <1>1, <1>4, <1>5, <1>6

\* One more element for an array of tables, which may be its first.
Added(d, s, k, x, slot, next, e) ==
  /\ Shaped(d, s) /\ k \in DOMAIN d \ s /\ d[k] = "table" /\ x \in Names
  /\ slot = Append(k, x) /\ slot \notin s /\ (slot \in DOMAIN d => d[slot] = "array")
  /\ next = Append(slot, Size(d, slot) + 1)
  /\ DOMAIN e = DOMAIN d \cup {slot, next}
  /\ \A l \in DOMAIN d : e[l] = d[l]
  /\ e[slot] = "array" /\ (next \notin DOMAIN d => e[next] = "table")

LEMMA AddElement ==
  ASSUME NEW d, NEW s, NEW k, NEW x, NEW slot, NEW next, NEW e, Added(d, s, k, x, slot, next, e)
  PROVE  /\ next \notin DOMAIN d
         /\ Size(e, slot) = Size(d, slot) + 1
         /\ \A l \in DOMAIN d \ s : d[l] = "array" /\ l # slot => Children(e, l) = Children(d, l)
         /\ Shaped(e, s)
<1> USE DEF Added
<1> DEFINE n == Size(d, slot)
<1>0. k \in Seq(Steps) /\ slot \in Seq(Steps) /\ x \in Steps
  <2>1. k \in Seq(Steps) /\ x \in Steps
    BY DEF Shaped, Rooted, Steps
  <2> QED BY <2>1, OneStep
<1>1. slot # << >> /\ Front(slot) = k /\ Last(slot) = x
  BY <1>0, OneStep
<1>2. n \in Nat /\ n + 1 \in Nat /\ n + 1 \in Steps /\ n + 1 \notin Names
  <2>1. n \in Nat
    BY SizeType DEF Shaped, Rooted
  <2>2. n + 1 \in Nat
    BY <2>1
  <2> QED BY <2>1, <2>2, TreeAssumption DEF Steps
<1> HIDE DEF n
<1>3. next = Append(slot, n + 1)
  BY DEF n
<1>4. next \in Seq(Steps) /\ next # << >> /\ Front(next) = slot /\ Last(next) = n + 1
  <2>1. /\ Append(slot, n + 1) \in Seq(Steps) /\ Append(slot, n + 1) # << >>
        /\ Front(Append(slot, n + 1)) = slot /\ Last(Append(slot, n + 1)) = n + 1
    BY ONLY <1>0, <1>2, OneStep
  <2> QED BY ONLY <2>1, <1>3
<1>5. Children(d, slot) = {Append(slot, i) : i \in 1..n}
  <2>1. CASE slot \in DOMAIN d
    <3>1. slot \in DOMAIN d \ s /\ d[slot] = "array"
      BY <2>1
    <3>2. Children(d, slot) = {Append(slot, i) : i \in 1..Size(d, slot)}
      BY <3>1 DEF Shaped, Counted
    <3> QED BY <3>2 DEF n
  <2>2. CASE slot \notin DOMAIN d
    <3>1. Children(d, slot) = {}
      <4>1. \A m \in DOMAIN d : m # << >> => Front(m) \in DOMAIN d
        BY DEF Shaped, Rooted
      <4> QED BY ONLY <2>2, <4>1 DEF Children
    <3>2. n = 0
      BY <3>1, FS_EmptySet DEF n, Size
    <3>3. 1..n = {}
      BY <3>2
    <3> QED BY <3>1, <3>3
  <2> QED BY <2>1, <2>2
<1>6. next \notin DOMAIN d
  <2> SUFFICES ASSUME next \in DOMAIN d PROVE FALSE
    OBVIOUS
  <2>1. next \in Children(d, slot)
    BY <1>4 DEF Children
  <2>2. PICK i \in 1..n : next = Append(slot, i)
    BY <2>1, <1>5
  <2>3. i \in Steps
    BY <1>2 DEF Steps
  <2>4. Last(next) = i
    BY <2>2, <2>3, <1>0, OneStep
  <2>5. i # n + 1
    BY <1>2
  <2> QED BY <2>4, <2>5, <1>4
<1>7. slot # k /\ slot # next
  <2>1. Len(slot) = Len(k) + 1 /\ Len(next) = Len(slot) + 1 /\ Len(k) \in Nat /\ Len(slot) \in Nat
    BY <1>0, <1>2, <1>3, OneStep
  <2>2. Len(slot) # Len(k) /\ Len(slot) # Len(next)
    BY <2>1
  <2> QED BY <2>2
<1>8. Children(e, slot) = Children(d, slot) \cup {next}
  BY <1>1, <1>4, <1>7 DEF Children
<1>9. Size(e, slot) = n + 1
  <2>1. IsFiniteSet(Children(d, slot))
    <3>1. IsFiniteSet(DOMAIN d) /\ Children(d, slot) \subseteq DOMAIN d
      BY DEF Shaped, Rooted, Children
    <3> QED BY <3>1, FS_Subset
  <2>2. next \notin Children(d, slot)
    BY <1>6 DEF Children
  <2>3. Cardinality(Children(d, slot) \cup {next}) = Cardinality(Children(d, slot)) + 1
    BY ONLY <2>1, <2>2, FS_AddElement
  <2> QED BY <2>3, <1>8 DEF Size, n
<1>10. Children(e, slot) = {Append(slot, i) : i \in 1..(n + 1)}
  <2>1. 1..(n + 1) = 1..n \cup {n + 1}
    BY <1>2
  <2> QED BY <2>1, <1>3, <1>5, <1>8
<1>11. ASSUME NEW l \in DOMAIN d \ s, d[l] = "array", l # slot
       PROVE  Children(e, l) = Children(d, l)
  <2>1. l # k
    BY <1>11
  <2> QED BY <2>1, <1>11, <1>1, <1>4 DEF Children
<1>12. Rooted(e, s)
  <2>1. IsFiniteSet(DOMAIN e)
    <3>1. IsFiniteSet(DOMAIN d)
      BY DEF Shaped, Rooted
    <3>2. IsFiniteSet(DOMAIN d \cup {slot})
      BY <3>1, FS_AddElement
    <3>3. IsFiniteSet((DOMAIN d \cup {slot}) \cup {next})
      BY <3>2, FS_AddElement
    <3>4. DOMAIN e = (DOMAIN d \cup {slot}) \cup {next}
      OBVIOUS
    <3> QED BY <3>3, <3>4
  <2>2. DOMAIN e \subseteq Seq(Steps)
    BY <1>0, <1>4 DEF Shaped, Rooted
  <2>3. s \subseteq DOMAIN e /\ << >> \in DOMAIN e /\ e[<< >>] = "table" /\ << >> \notin s
    BY DEF Shaped, Rooted
  <2>4. ASSUME NEW l \in DOMAIN e
        PROVE  e[l] \in {"table", "array", "scalar"} /\ (l # << >> => Front(l) \in DOMAIN e)
    <3>1. CASE l \in DOMAIN d
      BY <3>1 DEF Shaped, Rooted
    <3>2. CASE l = slot
      BY <3>2, <1>1
    <3>3. CASE l = next
      BY <3>3, <1>4, <1>6
    <3> QED BY <3>1, <3>2, <3>3
  <2> QED BY <2>1, <2>2, <2>3, <2>4 DEF Rooted
<1>13. Nested(e, s)
  <2> SUFFICES ASSUME NEW l \in DOMAIN e \ s, l # << >>
               PROVE  /\ Front(l) \notin s /\ e[l] # "scalar"
                      /\ Last(l) \in Names => e[Front(l)] = "table"
                      /\ Last(l) \notin Names => e[Front(l)] = "array" /\ e[l] = "table"
    BY DEF Nested
  <2>1. CASE l \in DOMAIN d
    <3>1. Front(l) \in DOMAIN d
      BY <2>1 DEF Shaped, Rooted
    <3>2. e[l] = d[l] /\ e[Front(l)] = d[Front(l)]
      BY <2>1, <3>1
    <3> QED BY <2>1, <3>2 DEF Shaped, Nested
  <2>2. CASE l = slot
    BY <2>2, <1>1
  <2>3. CASE l = next
    BY <2>3, <1>2, <1>4, <1>6
  <2> QED BY <2>1, <2>2, <2>3
<1>14. ValuesNamed(e, s)
  <2> SUFFICES ASSUME NEW l \in s, Front(l) \notin s
               PROVE  Last(l) \in Names /\ e[Front(l)] = "table"
    BY DEF ValuesNamed
  <2>1. Last(l) \in Names /\ d[Front(l)] = "table"
    BY DEF Shaped, ValuesNamed
  <2>2. Front(l) \in DOMAIN d
    BY DEF Shaped, Rooted
  <2> QED BY <2>1, <2>2
<1>15. Counted(e, s)
  <2> SUFFICES ASSUME NEW l \in DOMAIN e \ s, e[l] = "array"
               PROVE  Children(e, l) = {Append(l, i) : i \in 1 .. Size(e, l)}
    BY DEF Counted
  <2>1. CASE l = slot
    BY <2>1, <1>9, <1>10
  <2>2. CASE l # slot
    <3>1. l \in DOMAIN d /\ d[l] = "array"
      BY <2>2, <1>6
    <3>2. Children(e, l) = Children(d, l) /\ Size(e, l) = Size(d, l)
      BY <2>2, <3>1, <1>11 DEF Size
    <3> QED BY <3>1, <3>2 DEF Shaped, Counted
  <2> QED BY <2>1, <2>2
<1> QED BY <1>6, <1>9, <1>11, <1>12, <1>13, <1>14, <1>15 DEF Shaped, n

\* A tree that grew by an element of an array of tables, on the way to which tables, and the
\* array itself, may be new.
Lengthened(d, s, k, x, slot, next, e) ==
  /\ Shaped(d, s) /\ Way(d, s, k) /\ x \in Names
  /\ slot = Append(k, x) /\ slot \notin s /\ (slot \in DOMAIN d => d[slot] = "array")
  /\ next = Append(slot, Size(d, slot) + 1) /\ e = Grow(d, next)

LengthenedTo(d, s, k, x, slot, next, e) ==
  /\ next \notin DOMAIN d /\ next \in DOMAIN e /\ slot \in DOMAIN e
  /\ next \in Seq(Steps) /\ slot \in Seq(Steps) /\ k \in Seq(Steps)
  /\ Front(next) = slot /\ Last(next) \notin Names /\ Front(slot) = k /\ Last(slot) = x
  /\ e[next] = "table" /\ e[slot] = "array"
  /\ DOMAIN e = DOMAIN d \cup Prefixes(next)
  /\ \A l \in DOMAIN d : e[l] = d[l]
  /\ \A l \in DOMAIN e \ DOMAIN d :
       l \notin s /\ (l # slot => e[l] = "table") /\ (l # next => l # << >> /\ Last(l) \in Names)
  /\ Size(e, slot) = Size(d, slot) + 1
  /\ \A l \in DOMAIN d \ s : d[l] = "array" /\ l # slot => Size(e, l) = Size(d, l)
  /\ \A l \in Prefixes(next) : l \notin s /\ (l \in DOMAIN d => d[l] = KindOnWay(l, next))
  /\ LiveIn(d, slot) /\ LiveIn(e, next) /\ Shaped(e, s)

LEMMA GrowElement ==
  ASSUME NEW d, NEW s, NEW k, NEW x, NEW slot, NEW next, NEW e,
         Lengthened(d, s, k, x, slot, next, e)
  PROVE  LengthenedTo(d, s, k, x, slot, next, e)
<1> DEFINE n == Size(d, slot)
           g == Grow(d, k)
<1> USE DEF Lengthened
<1>0. k \in Seq(Steps) /\ x \in Steps /\ LiveIn(d, k)
  BY DEF Way, Steps
<1>1. slot \in Seq(Steps) /\ slot # << >> /\ Front(slot) = k /\ Last(slot) = x
  BY <1>0, OneStep
<1>2. n \in Nat /\ n + 1 \in Steps /\ n + 1 \notin Names
  <2>1. n \in Nat
    BY SizeType DEF Shaped, Rooted
  <2>2. n + 1 \in Nat
    BY <2>1
  <2> QED BY <2>1, <2>2, TreeAssumption DEF Steps
<1>3. next = Append(slot, n + 1)
  OBVIOUS
<1> HIDE DEF n
<1>4. next \in Seq(Steps) /\ next # << >> /\ Front(next) = slot /\ Last(next) = n + 1
  BY <1>1, <1>2, <1>3, OneStep
\* The way to the parent and the two nodes after it.
<1>5. Prefixes(slot) = Prefixes(k) \cup {slot} /\ Prefixes(next) = Prefixes(slot) \cup {next}
  <2>1. Prefixes(Append(k, x)) = Prefixes(k) \cup {Append(k, x)}
    BY <1>0, OneStep
  <2>2. Prefixes(Append(slot, n + 1)) = Prefixes(slot) \cup {Append(slot, n + 1)}
    BY ONLY <1>1, <1>2, OneStep
  <2> QED BY <2>1, <2>2, <1>3
<1>6. slot \notin Prefixes(k) /\ next \notin Prefixes(slot)
  <2>1. Len(slot) = Len(k) + 1 /\ Len(next) = Len(slot) + 1
    BY <1>0, <1>1, <1>2, <1>3, OneStep
  <2>4. Len(k) \in Nat /\ Len(slot) \in Nat
    BY <1>0, <1>1
  <2>2. slot \in Prefixes(k) => Len(slot) <= Len(k)
    BY <1>0, PrefixFacts
  <2>3. next \in Prefixes(slot) => Len(next) <= Len(slot)
    BY <1>1, PrefixFacts
  <2>5. ~(Len(slot) <= Len(k)) /\ ~(Len(next) <= Len(slot))
    BY ONLY <2>1, <2>4
  <2> QED BY <2>2, <2>3, <2>5
<1>7. ASSUME NEW m \in Prefixes(k) PROVE KindOnWay(m, next) = KindOnWay(m, k)
  <2>1. m \in Prefixes(slot) /\ m # slot
    BY <1>5, <1>6
  <2>2. KindOnWay(m, Append(slot, n + 1)) = KindOnWay(m, slot)
    <3>1. slot \in Seq(Steps) /\ n + 1 \in Steps
      BY <1>1, <1>2
    <3> QED BY ONLY <2>1, <3>1, KindStep
  <2>3. KindOnWay(m, slot) = KindOnWay(m, k)
    BY <1>0, KindStep
  <2> QED BY <2>2, <2>3, <1>3
<1>8. KindOnWay(slot, next) = "array" /\ KindOnWay(next, next) = "table"
  <2>1. KindOnWay(slot, Append(slot, n + 1)) = "array"
    BY <1>1, <1>2, KindStep
  <2> QED BY <2>1, <1>3 DEF KindOnWay
\* First the parent, then its array with one more element.
<1>9. /\ DOMAIN g = DOMAIN d \cup Prefixes(k)
      /\ \A l \in DOMAIN d : g[l] = d[l]
      /\ \A l \in DOMAIN g \ DOMAIN d : /\ g[l] = "table" /\ l \notin s
                                        /\ l # << >> /\ Last(l) \in Names
      /\ \A l \in DOMAIN d \ s : d[l] = "array" => Children(g, l) = Children(d, l)
      /\ Shaped(g, s) /\ g[k] = "table" /\ Way(g, s, k)
  <2> HIDE DEF g
  <2>1. Grown(d, s, k, g)
    BY DEF Grown, g
  <2>2. GrownTo(d, s, k, g)
    BY ONLY <2>1, GrowTable
  <2> QED BY <2>2 DEF GrownTo
<1>10. \A l \in DOMAIN g : g[l] = IF l \in DOMAIN d THEN d[l] ELSE KindOnWay(l, k)
  BY DEF Grow
<1>11. /\ DOMAIN e = DOMAIN d \cup Prefixes(next)
       /\ \A l \in DOMAIN e : e[l] = IF l \in DOMAIN d THEN d[l] ELSE KindOnWay(l, next)
  BY DEF Grow
<1> HIDE DEF g
<1>12. slot \in DOMAIN g => slot \in DOMAIN d /\ g[slot] = "array"
  BY <1>6, <1>9
<1>13. Size(g, slot) = n
  <2>1. CASE slot \in DOMAIN d
    <3>1. slot \in DOMAIN d \ s /\ d[slot] = "array"
      BY <2>1
    <3> QED BY <3>1, <1>9 DEF Size, n
  <2>2. CASE slot \notin DOMAIN d
    <3>1. slot \notin DOMAIN g
      BY <2>2, <1>12
    <3>2. Children(d, slot) = {}
      BY <2>2 DEF Children, Shaped, Rooted
    <3>3. Children(g, slot) = {}
      <4>1. \A l \in DOMAIN g : l # << >> => Front(l) \in DOMAIN g
        BY <1>9 DEF Shaped, Rooted
      <4> QED BY <4>1, <3>1 DEF Children
    <3> QED BY <3>2, <3>3 DEF Size, n
  <2> QED BY <2>1, <2>2
<1>14. DOMAIN e = DOMAIN g \cup {slot, next}
  BY <1>5, <1>9, <1>11
<1>15. \A l \in DOMAIN g : e[l] = g[l]
  <2> SUFFICES ASSUME NEW l \in DOMAIN g PROVE e[l] = g[l]
    OBVIOUS
  <2>1. l \in DOMAIN e
    BY <1>14
  <2>2. CASE l \in DOMAIN d
    BY <2>1, <2>2, <1>10, <1>11
  <2>3. CASE l \notin DOMAIN d
    BY <2>1, <2>3, <1>7, <1>9, <1>10, <1>11
  <2> QED BY <2>2, <2>3
<1>16. e[slot] = "array"
  BY <1>8, <1>11, <1>14
<1>17. next \notin DOMAIN g => e[next] = "table"
  <2>1. next \notin DOMAIN g => next \notin DOMAIN d
    BY <1>9
  <2> QED BY <2>1, <1>8, <1>11, <1>14
<1>18. /\ next \notin DOMAIN g
       /\ Size(e, slot) = Size(g, slot) + 1
       /\ \A l \in DOMAIN g \ s : g[l] = "array" /\ l # slot => Children(e, l) = Children(g, l)
       /\ Shaped(e, s)
  <2>1. Shaped(g, s) /\ k \in DOMAIN g \ s /\ g[k] = "table"
    <3>1. k \in Prefixes(k)
      BY <1>0, PrefixFacts
    <3> QED BY <3>1, <1>9 DEF Way
  <2>2. slot \in DOMAIN g => g[slot] = "array"
    BY <1>12
  <2>3. next = Append(slot, Size(g, slot) + 1)
    BY <1>3, <1>13
  <2>4. x \in Names /\ slot = Append(k, x) /\ slot \notin s
    OBVIOUS
  <2>5. Added(g, s, k, x, slot, next, e)
    BY <2>1, <2>2, <2>3, <2>4, <1>14, <1>15, <1>16, <1>17 DEF Added
  <2> QED BY ONLY <2>5, AddElement
<1>19. next \notin DOMAIN d /\ next \in DOMAIN e /\ slot \in DOMAIN e /\ e[next] = "table"
  BY <1>9, <1>14, <1>17, <1>18
<1>20. \A l \in DOMAIN d : e[l] = d[l]
  BY <1>9, <1>14, <1>15
<1>21. \A l \in DOMAIN e \ DOMAIN d :
         l \notin s /\ (l # slot => e[l] = "table") /\ (l # next => l # << >> /\ Last(l) \in Names)
  <2> SUFFICES ASSUME NEW l \in DOMAIN e \ DOMAIN d
               PROVE  /\ l \notin s /\ (l # slot => e[l] = "table")
                      /\ l # next => l # << >> /\ Last(l) \in Names
    OBVIOUS
  <2>1. l \notin s
    BY DEF Shaped, Rooted
  <2>2. l \in DOMAIN g => e[l] = "table" /\ l # << >> /\ Last(l) \in Names
    BY <1>9, <1>15
  <2>3. l \in DOMAIN g \/ l = slot \/ l = next
    BY <1>14
  <2>4. slot # << >> /\ Last(slot) \in Names
    BY <1>1
  <2> QED BY <2>1, <2>2, <2>3, <2>4, <1>19
<1>22. \A l \in DOMAIN d \ s : d[l] = "array" /\ l # slot => Size(e, l) = Size(d, l)
  <2> SUFFICES ASSUME NEW l \in DOMAIN d \ s, d[l] = "array", l # slot
               PROVE  Size(e, l) = Size(d, l)
    OBVIOUS
  <2>1. l \in DOMAIN g \ s /\ g[l] = "array"
    BY <1>9
  <2>2. Children(e, l) = Children(d, l)
    BY <2>1, <1>9, <1>18
  <2> QED BY <2>2 DEF Size
<1>23. \A l \in Prefixes(next) : l \notin s /\ (l \in DOMAIN d => d[l] = KindOnWay(l, next))
  <2> SUFFICES ASSUME NEW l \in Prefixes(next)
               PROVE  l \notin s /\ (l \in DOMAIN d => d[l] = KindOnWay(l, next))
    OBVIOUS
  <2>1. CASE l \in Prefixes(k)
    BY <2>1, <1>7 DEF Way
  <2>2. CASE l = slot
    BY <2>2, <1>8
  <2>3. CASE l = next
    <3>1. next \notin s
      BY <1>19 DEF Shaped, Rooted
    <3> QED BY <2>3, <3>1, <1>19
  <2> QED BY <2>1, <2>2, <2>3, <1>5
<1>24. LiveIn(d, slot)
  BY <1>0, LiveStep
<1>25. LiveIn(e, next)
  <2>1. ASSUME NEW m \in Prefixes(slot), m # << >>, Last(m) \notin Names
        PROVE  Size(e, Front(m)) = Size(d, Front(m))
    <3>1. m \in Prefixes(k) /\ m # slot
      BY <2>1, <1>1, <1>5
    <3>2. m \in DOMAIN d
      BY <2>1, <3>1 DEF Way
    <3>3. Front(m) \in DOMAIN d /\ Front(m) \in Prefixes(k)
      BY <2>1, <3>1, <3>2, <1>0, PrefixFacts DEF Shaped, Rooted
    <3>4. d[Front(m)] = "array" /\ Front(m) \notin s /\ Front(m) # slot
      BY <2>1, <3>1, <3>3, <1>0, <1>6, KindAt DEF Way
    <3> QED BY <3>3, <3>4, <1>22
  <2>2. LiveIn(e, slot)
    <3>1. slot \in Seq(Steps)
      BY <1>1
    <3>2. LiveIn(e, slot) <=> LiveIn(d, slot)
      BY ONLY <2>1, <3>1, LiveSame
    <3> QED BY <3>2, <1>24
  <2>3. n + 1 = Size(e, slot)
    BY <1>13, <1>18
  <2>4. LiveIn(e, Append(slot, n + 1)) <=> LiveIn(e, slot) /\ (n + 1 \in Names \/ n + 1 = Size(e, slot))
    BY ONLY <1>1, <1>2, LiveStep
  <2> QED BY ONLY <2>2, <2>3, <2>4, <1>3
<1>26. Size(e, slot) = Size(d, slot) + 1
  BY <1>13, <1>18 DEF n
<1>27. Last(next) \notin Names
  BY <1>2, <1>4
<1> QED BY <1>0, <1>1, <1>4, <1>11, <1>16, <1>18, <1>19, <1>20, <1>21, <1>22, <1>23, <1>24, <1>25,
           <1>26, <1>27 DEF LengthenedTo

\* A tree with one more value, under a name that was free.
Filled(d, s, k, x, loc, value, added, e) ==
  /\ Shaped(d, s) /\ k \in DOMAIN d \ s /\ d[k] = "table" /\ x \in Names
  /\ loc = Append(k, x) /\ loc \notin DOMAIN d /\ IsTree(value)
  /\ added = {loc \o l : l \in DOMAIN value} /\ e = Put(d, loc, value)

FilledTo(d, s, k, loc, value, added, e) ==
  /\ DOMAIN e = DOMAIN d \cup added /\ DOMAIN d \cap added = {} /\ loc \in added
  /\ \A l \in DOMAIN d : e[l] = d[l]
  /\ e[loc] = value[<< >>]
  /\ \A l \in added : l = loc \/ Front(l) \in added
  /\ \A l \in DOMAIN d \ s : d[l] = "array" => Size(e, l) = Size(d, l)
  /\ Shaped(e, s \cup added)

LEMMA PutValue ==
  ASSUME NEW d, NEW s, NEW k, NEW x, NEW loc, NEW value, NEW added, NEW e,
         Filled(d, s, k, x, loc, value, added, e)
  PROVE  FilledTo(d, s, k, loc, value, added, e)
<1> USE DEF Filled
<1>0. k \in Seq(Steps) /\ x \in Steps
  BY DEF Shaped, Rooted, Steps
<1>1. loc \in Seq(Steps) /\ loc # << >> /\ Front(loc) = k /\ Last(loc) = x
  BY <1>0, OneStep
<1>2. DOMAIN e = DOMAIN d \cup added
      /\ \A l \in DOMAIN e : e[l] = IF l \in added THEN value[SubSeq(l, Len(loc) + 1, Len(l))]
                                    ELSE d[l]
  BY DEF Put
<1>3. /\ IsFiniteSet(DOMAIN value) /\ DOMAIN value \subseteq Seq(Steps) /\ << >> \in DOMAIN value
      /\ \A l \in DOMAIN value : /\ l # << >> => Front(l) \in DOMAIN value
                                 /\ value[l] \in {"table", "array", "scalar"}
  BY DEF IsTree, Steps
<1>4. ASSUME NEW l \in DOMAIN value
      PROVE  /\ loc \o l \in Seq(Steps) /\ loc \in Prefixes(loc \o l)
             /\ SubSeq(loc \o l, Len(loc) + 1, Len(loc \o l)) = l
             /\ l # << >> => /\ loc \o l # << >> /\ Front(loc \o l) = loc \o Front(l)
                             /\ Last(loc \o l) = Last(l)
  <2>1. l \in Seq(Steps)
    BY <1>3
  <2>2. loc \in Seq(Steps)
    BY <1>1
  <2> QED BY ONLY <2>1, <2>2, Below
<1>5. loc \o << >> = loc
  BY <1>1
<1>6. loc \in added
  BY <1>3, <1>5
<1>7. ASSUME NEW l \in added PROVE l \notin DOMAIN d
  <2>1. loc \in Prefixes(l)
    <3>1. PICK m \in DOMAIN value : l = loc \o m
      OBVIOUS
    <3> QED BY <3>1, <1>4
  <2>2. l \in DOMAIN d => Prefixes(l) \subseteq DOMAIN d
    BY PrefixClosed DEF Shaped
  <2> QED BY <2>1, <2>2
<1>8. \A l \in DOMAIN d : e[l] = d[l]
  BY <1>2, <1>7
<1>9. ASSUME NEW l \in DOMAIN value PROVE loc \o l \in added /\ e[loc \o l] = value[l]
  <2>1. loc \o l \in added /\ loc \o l \in DOMAIN e
    BY <1>2
  <2> QED BY <2>1, <1>2, <1>4
<1>10. ASSUME NEW l \in added PROVE l \in Seq(Steps) /\ l # << >> /\ (l = loc \/ Front(l) \in added)
  <2>1. PICK m \in DOMAIN value : l = loc \o m
    OBVIOUS
  <2>2. CASE m = << >>
    BY <2>1, <2>2, <1>1, <1>5
  <2>3. CASE m # << >>
    <3>1. loc \o Front(m) \in added
      BY <2>3, <1>3
    <3> QED BY <2>1, <2>3, <3>1, <1>4
  <2> QED BY <2>2, <2>3
<1>11. ASSUME NEW l \in DOMAIN d \ s, d[l] = "array" PROVE Children(e, l) = Children(d, l)
  <2>1. ASSUME NEW m \in added PROVE Front(m) # l
    <3>1. CASE m = loc
      BY <3>1, <1>1, <1>11
    <3>2. CASE m # loc
      BY <3>2, <1>7, <1>10
    <3> QED BY <3>1, <3>2
  <2> QED BY <2>1, <1>2 DEF Children
<1>12. Rooted(e, s \cup added)
  <2>1. IsFiniteSet(DOMAIN e)
    <3> DEFINE f == [l \in DOMAIN value |-> loc \o l]
    <3>1. f \in Surjection(DOMAIN value, added)
      BY DEF Surjection
    <3> HIDE DEF f
    <3>2. IsFiniteSet(added)
      BY <3>1, <1>3, FS_Surjection
    <3>3. IsFiniteSet(DOMAIN d)
      BY DEF Shaped, Rooted
    <3>4. IsFiniteSet(DOMAIN d \cup added)
      BY <3>2, <3>3, FS_Union
    <3> QED BY <3>4, <1>2
  <2>2. DOMAIN e \subseteq Seq(Steps)
    BY <1>2, <1>10 DEF Shaped, Rooted
  <2>3. s \cup added \subseteq DOMAIN e /\ << >> \in DOMAIN e /\ e[<< >>] = "table"
        /\ << >> \notin s \cup added
    BY <1>2, <1>8, <1>10 DEF Shaped, Rooted
  <2>4. ASSUME NEW l \in DOMAIN e
        PROVE  e[l] \in {"table", "array", "scalar"} /\ (l # << >> => Front(l) \in DOMAIN e)
    <3>1. CASE l \in DOMAIN d
      <4>1. d[l] \in {"table", "array", "scalar"} /\ (l # << >> => Front(l) \in DOMAIN d)
        BY <3>1 DEF Shaped, Rooted
      <4>2. e[l] = d[l] /\ DOMAIN d \subseteq DOMAIN e
        BY <3>1, <1>2, <1>8
      <4> QED BY ONLY <4>1, <4>2
    <3>2. CASE l \in added
      <4>1. e[l] \in {"table", "array", "scalar"}
        <5>1. PICK m \in DOMAIN value : l = loc \o m
          BY <3>2
        <5>2. value[m] \in {"table", "array", "scalar"}
          BY <1>3
        <5>3. e[loc \o m] = value[m]
          BY <1>9
        <5> QED BY ONLY <5>1, <5>2, <5>3
      <4>2. Front(l) \in DOMAIN e
        BY <3>2, <1>1, <1>2, <1>10
      <4> QED BY <4>1, <4>2
    <3> QED BY <3>1, <3>2, <1>2
  <2> QED BY <2>1, <2>2, <2>3, <2>4 DEF Rooted
<1>13. Nested(e, s \cup added)
  <2> SUFFICES ASSUME NEW l \in DOMAIN e \ (s \cup added), l # << >>
               PROVE  /\ Front(l) \notin s \cup added /\ e[l] # "scalar"
                      /\ Last(l) \in Names => e[Front(l)] = "table"
                      /\ Last(l) \notin Names => e[Front(l)] = "array" /\ e[l] = "table"
    BY DEF Nested
  <2>1. l \in DOMAIN d \ s /\ Front(l) \in DOMAIN d
    BY <1>2 DEF Shaped, Rooted
  <2>2. e[l] = d[l] /\ e[Front(l)] = d[Front(l)] /\ Front(l) \notin added
    BY <2>1, <1>7, <1>8
  <2> QED BY <2>1, <2>2 DEF Shaped, Nested
<1>14. ValuesNamed(e, s \cup added)
  <2> SUFFICES ASSUME NEW l \in s \cup added, Front(l) \notin s \cup added
               PROVE  Last(l) \in Names /\ e[Front(l)] = "table"
    BY DEF ValuesNamed
  <2>1. CASE l \in s
    <3>1. Last(l) \in Names /\ d[Front(l)] = "table"
      BY <2>1 DEF Shaped, ValuesNamed
    <3>2. Front(l) \in DOMAIN d
      <4>1. l \in DOMAIN d /\ l # << >>
        BY <2>1 DEF Shaped, Rooted
      <4> QED BY <4>1 DEF Shaped, Rooted
    <3> QED BY <3>1, <3>2, <1>8
  <2>2. CASE l \in added
    <3>1. l = loc
      BY <2>2, <1>10
    <3> QED BY <3>1, <1>1, <1>8
  <2> QED BY <2>1, <2>2
<1>15. Counted(e, s \cup added)
  <2> SUFFICES ASSUME NEW l \in DOMAIN e \ (s \cup added), e[l] = "array"
               PROVE  Children(e, l) = {Append(l, i) : i \in 1 .. Size(e, l)}
    BY DEF Counted
  <2>1. l \in DOMAIN d \ s /\ d[l] = "array"
    BY <1>2, <1>8
  <2>2. Children(e, l) = Children(d, l) /\ Size(e, l) = Size(d, l)
    BY <2>1, <1>11 DEF Size
  <2>3. Children(d, l) = {Append(l, i) : i \in 1 .. Size(d, l)}
    BY <2>1 DEF Shaped, Counted
  <2> QED BY <2>2, <2>3
<1>16. e[loc] = value[<< >>]
  BY <1>3, <1>5, <1>9
<1>17. \A l \in DOMAIN d \ s : d[l] = "array" => Size(e, l) = Size(d, l)
  BY <1>11 DEF Size
<1>18. DOMAIN d \cap added = {}
  BY <1>7
<1>19. \A l \in added : l = loc \/ Front(l) \in added
  BY <1>10
<1> HIDE DEF Put
<1> QED BY <1>2, <1>6, <1>8, <1>12, <1>13, <1>14, <1>15, <1>16, <1>17, <1>18, <1>19
        DEF Shaped, FilledTo

-----------------------------------------------------------------------------
(* What a destination asks for, and what the maps hold.                    *)

\* Whoever asks for a path asks for what is on the way.
LEMMA KnownPrefix ==
  ASSUME filter \in Filters, NEW p \in Seq(Names), Known(p), NEW q \in Prefixes(p), q # << >>
  PROVE  Known(q)
<1>1. \A r \in filter.fields \cup filter.open :
        r \in Seq(Names) /\ \A i \in 1 .. Len(r) - 1 : SubSeq(r, 1, i) \in filter.fields \cup filter.open
  BY TreeAssumption DEF IsFilter
<1>2. ASSUME NEW r \in filter.fields \cup filter.open, NEW t \in Prefixes(r), t # << >>, t # r
      PROVE  t \in filter.fields \cup filter.open
  <2>1. PICK i \in 0..Len(r) : t = SubSeq(r, 1, i)
    BY DEF Prefixes
  <2>2. r \in Seq(Names) /\ Len(r) \in Nat
    BY <1>1
  <2>3. SubSeq(r, 1, 0) = << >> /\ SubSeq(r, 1, Len(r)) = r
    BY <2>2
  <2>4. i # 0 /\ i # Len(r)
    BY <2>1, <2>3, <1>2
  <2>5. i \in 1 .. Len(r) - 1
    BY <2>2, <2>4
  <2> QED BY <2>1, <2>5, <1>1
<1>3. ASSUME q \in filter.fields \cup filter.open PROVE Known(q)
  <2>1. q \in Prefixes(q)
    BY PrefixFacts
  <2> QED BY <2>1, <1>3 DEF Known
<1>4. CASE p \in filter.fields
  <2>1. q = p \/ q \in filter.fields \cup filter.open
    BY <1>4, <1>2
  <2> QED BY <2>1, <1>3, <1>4
<1>5. CASE \E l \in Prefixes(p) : l \in filter.open
  <2>1. PICK l \in Prefixes(p) : l \in filter.open
    BY <1>5
  <2>2. PICK i \in 0..Len(p) : l = SubSeq(p, 1, i)
    BY DEF Prefixes
  <2>3. PICK j \in 0..Len(p) : q = SubSeq(p, 1, j)
    BY DEF Prefixes
  <2>4. CASE i <= j
    <3>1. l = SubSeq(q, 1, i) /\ i \in 0..Len(q)
      BY <2>2, <2>3, <2>4
    <3>2. l \in Prefixes(q)
      BY <3>1 DEF Prefixes
    <3> QED BY <3>2, <2>1 DEF Known
  <2>5. CASE ~(i <= j)
    <3>1. q = SubSeq(l, 1, j) /\ j \in 0..Len(l) /\ Len(q) # Len(l)
      BY <2>2, <2>3, <2>5
    <3>2. q \in Prefixes(l) /\ q # l
      BY <3>1 DEF Prefixes
    <3> QED BY <3>2, <2>1, <1>2, <1>3
  <2> QED BY <2>4, <2>5
<1> QED BY <1>4, <1>5 DEF Known

\* The contexts there are with the epochs E.
ContextsOf(E) == [prefix : DOMAIN E, epoch : 1..MaxEpoch] \cup {NoContext}
Epochs(E) == \A e \in DOMAIN E : E[e] \in 1..MaxEpoch
Typed(E, table) == \A e \in DOMAIN table : table[e] \in ContextsOf(E)

LEMMA ContextType ==
  ASSUME NEW E, Epochs(E), NEW p \in Seq(Names) PROVE ContextIn(E, p) \in ContextsOf(E)
<1>1. CASE ContextIn(E, p) = NoContext
  BY <1>1 DEF ContextsOf
<1>2. CASE ContextIn(E, p) # NoContext
  <2>1. PICK i \in DOMAIN p :
          /\ Encode(SubSeq(p, 1, i)) \in DOMAIN E
          /\ ContextIn(E, p) = [prefix |-> Encode(SubSeq(p, 1, i)),
                                epoch |-> E[Encode(SubSeq(p, 1, i))]]
    BY <1>2, ContextOf
  <2> QED BY <2>1 DEF ContextsOf, Epochs
<1> QED BY <1>1, <1>2

LEMMA RecordType ==
  ASSUME NEW E, Epochs(E), NEW table, Typed(E, table), NEW paths, paths \subseteq Seq(Names)
  PROVE  Typed(E, RecordIn(E, table, paths))
<1> DEFINE encoded == {Encode(p) : p \in paths}
           new == RecordIn(E, table, paths)
<1>1. DOMAIN new = DOMAIN table \cup encoded
  BY DEF RecordIn
<1>2. ASSUME NEW e \in DOMAIN new PROVE new[e] \in ContextsOf(E)
  <2>1. CASE e \in encoded
    <3> DEFINE p == CHOOSE p \in paths : Encode(p) = e
    <3>1. p \in paths
      BY <2>1
    <3>2. new[e] = ContextIn(E, p)
      BY <2>1, <1>1 DEF RecordIn
    <3> HIDE DEF p
    <3> QED BY <3>1, <3>2, ContextType
  <2>2. CASE e \notin encoded
    <3>1. new[e] = table[e] /\ e \in DOMAIN table
      BY <2>2, <1>1 DEF RecordIn
    <3> QED BY <3>1 DEF Typed
  <2> QED BY <2>1, <2>2
<1> QED BY <1>2 DEF Typed

\* The epochs after one more header of an array of tables.
CountIn(E, path) ==
  [e \in DOMAIN E \cup {Encode(path)} |->
     (IF e \in DOMAIN E THEN E[e] ELSE 0) + (IF e = Encode(path) THEN 1 ELSE 0)]

Counts(E, path, F) ==
  /\ Epochs(E) /\ F = CountIn(E, path)
  /\ Encode(path) \in DOMAIN E => E[Encode(path)] < MaxEpoch

LEMMA CountType ==
  ASSUME NEW E, NEW path, NEW F, Counts(E, path, F)
  PROVE  /\ DOMAIN F = DOMAIN E \cup {Encode(path)} /\ Epochs(F)
         /\ \A e \in DOMAIN E : e # Encode(path) => F[e] = E[e]
         /\ \A table : Typed(E, table) => Typed(F, table)
<1> USE DEF Counts
<1>1. DOMAIN F = DOMAIN E \cup {Encode(path)}
      /\ \A e \in DOMAIN F : F[e] = (IF e \in DOMAIN E THEN E[e] ELSE 0)
                                    + (IF e = Encode(path) THEN 1 ELSE 0)
  BY DEF CountIn
<1>2. MaxEpoch \in Nat /\ 1 \in 1..MaxEpoch
  BY TreeAssumption
<1>3. ASSUME NEW e \in DOMAIN E, e # Encode(path) PROVE F[e] = E[e]
  <2>1. F[e] = E[e] + 0 /\ E[e] \in 1..MaxEpoch
    BY <1>1, <1>3 DEF Epochs
  <2> QED BY <2>1, <1>2
<1>4. ASSUME NEW e \in DOMAIN F PROVE F[e] \in 1..MaxEpoch
  <2>1. CASE e # Encode(path)
    BY <2>1, <1>1, <1>3 DEF Epochs
  <2>2. CASE e = Encode(path) /\ e \in DOMAIN E
    <3>1. F[e] = E[e] + 1 /\ E[e] \in 1..MaxEpoch /\ E[e] < MaxEpoch
      BY <2>2, <1>1 DEF Epochs
    <3> QED BY <3>1, <1>2
  <2>3. CASE e = Encode(path) /\ e \notin DOMAIN E
    <3>1. F[e] = 0 + 1
      BY <2>3, <1>1
    <3> QED BY <3>1, <1>2
  <2> QED BY <2>1, <2>2, <2>3
<1>5. ASSUME NEW table, Typed(E, table) PROVE Typed(F, table)
  BY <1>1, <1>5 DEF Typed, ContextsOf
<1> QED BY <1>1, <1>3, <1>4, <1>5 DEF Epochs

\* Counting leaves the contexts of all other paths alone.
LEMMA CountKeeps ==
  ASSUME Plain, NEW E, Epochs(E), NEW path \in Seq(Names),
         Encode(path) \in DOMAIN E => E[Encode(path)] < MaxEpoch,
         NEW table, NEW p \in Seq(Names), path \notin Prefixes(p), RecordedIn(E, table, p)
  PROVE  RecordedIn(CountIn(E, path), table, p)
<1> DEFINE F == CountIn(E, path)
<1>0. Counts(E, path, F)
  BY DEF Counts
<1> HIDE DEF F
<1>1. DOMAIN F = DOMAIN E \cup {Encode(path)} /\ \A e \in DOMAIN E : e # Encode(path) => F[e] = E[e]
  BY ONLY <1>0, CountType
<1>2. ASSUME NEW i \in DOMAIN p PROVE Encode(SubSeq(p, 1, i)) # Encode(path)
  <2>1. i \in 0..Len(p) /\ SubSeq(p, 1, i) \in Seq(Names)
    OBVIOUS
  <2>2. SubSeq(p, 1, i) # path
    BY <2>1 DEF Prefixes
  <2> QED BY <2>1, <2>2, EncodeInjective
<1>3. ContextIn(E, p) = ContextIn(F, p)
  <2>1. \A i \in DOMAIN p :
           /\ Encode(SubSeq(p, 1, i)) \in DOMAIN E <=> Encode(SubSeq(p, 1, i)) \in DOMAIN F
           /\ Encode(SubSeq(p, 1, i)) \in DOMAIN E =>
                E[Encode(SubSeq(p, 1, i))] = F[Encode(SubSeq(p, 1, i))]
    BY <1>1, <1>2
  <2> QED BY <2>1, ContextSame
<1> QED BY <1>3 DEF RecordedIn, F

-----------------------------------------------------------------------------
(* The inductive invariant.                                                *)

KnownTo(f, path) == path \in f.fields \/ \E l \in Prefixes(path) : l \in f.open

\* Statements make tables; keys and headers make no node within a value.
MarkedIn(d, s, o, t) == \A l \in o \cup t : l \in DOMAIN d \ s /\ d[l] = "table"

\* Whatever is in the tree, but for what is within a value, was asked for.
AskedIn(f, d, s) == \A l \in DOMAIN d : l # << >> /\ Front(l) \notin s => KnownTo(f, PathOf(l))

\* The current table can be reached, under the current path.
TableAt(d, s, loc, path) == /\ loc \in DOMAIN d \ s /\ d[loc] = "table"
                            /\ LiveIn(d, loc) /\ path = PathOf(loc)

IInv == /\ TypeOK /\ Bookkeeping
        /\ Shaped(doc, sealed)
        /\ MarkedIn(doc, sealed, opened, dotted)
        /\ AskedIn(filter, doc, sealed)
        /\ current = Nowhere \/ TableAt(doc, sealed, current, currentPath)

LEMMA KnownEq == ASSUME NEW path PROVE Known(path) <=> KnownTo(filter, path)
BY DEF Known, KnownTo

LEMMA BookkeepingNext ==
  Bookkeeping' <=> Kept(doc', sealed', opened', dotted', arrayTableEpochs',
                        declaredTables', dottedKeyTables', closedInlineTables')
<1>1. (Bookkeeping <=> Kept(doc, sealed, opened, dotted, arrayTableEpochs,
                            declaredTables, dottedKeyTables, closedInlineTables))'
  BY BookkeepingEq, PTL
<1> QED BY <1>1

LEMMA Parts ==
  ASSUME IInv
  PROVE  /\ Kept(doc, sealed, opened, dotted, arrayTableEpochs,
                 declaredTables, dottedKeyTables, closedInlineTables)
         /\ filter \in Filters /\ Epochs(arrayTableEpochs)
         /\ Typed(arrayTableEpochs, declaredTables) /\ Typed(arrayTableEpochs, dottedKeyTables)
         /\ Typed(arrayTableEpochs, closedInlineTables)
BY BookkeepingEq DEF IInv, TypeOK, Typed, ContextsOf, Contexts, arrayTables, Epochs

LEMMA Whole ==
  ASSUME Kept(doc', sealed', opened', dotted', arrayTableEpochs',
              declaredTables', dottedKeyTables', closedInlineTables'),
         Shaped(doc', sealed'), MarkedIn(doc', sealed', opened', dotted'),
         AskedIn(filter', doc', sealed'), filter' \in Filters, Epochs(arrayTableEpochs'),
         Typed(arrayTableEpochs', declaredTables'), Typed(arrayTableEpochs', dottedKeyTables'),
         Typed(arrayTableEpochs', closedInlineTables'),
         current' = Nowhere \/ TableAt(doc', sealed', current', currentPath'),
         inTable' \in BOOLEAN, current' # << >> => inTable'
  PROVE  IInv'
<1>1. Bookkeeping'
  BY BookkeepingNext
<1>2. TypeOK'
  <2>1. << >> \in DOMAIN doc' /\ \A l \in DOMAIN doc' : doc'[l] \in {"table", "array", "scalar"}
    BY DEF Shaped, Rooted
  <2>2. (current' = Nowhere \/ current' \in DOMAIN doc')
        /\ (current' # Nowhere => currentPath' = PathOf(current'))
    BY DEF TableAt
  <2>3. \A t \in {declaredTables', dottedKeyTables', closedInlineTables'} :
           \A e \in DOMAIN t : t[e] \in Contexts'
    BY DEF Typed, ContextsOf, Contexts, arrayTables
  <2>4. \A e \in DOMAIN arrayTableEpochs' : arrayTableEpochs'[e] \in 1..MaxEpoch
    BY DEF Epochs
  <2>5. filter' \in Filters /\ inTable' \in BOOLEAN /\ (current' # << >> => inTable')
    OBVIOUS
  <2>6. opened' \cup dotted' \cup sealed' \subseteq DOMAIN doc'
    BY DEF MarkedIn, Shaped, Rooted
  <2> QED BY ONLY <2>1, <2>2, <2>3, <2>4, <2>5, <2>6, Zenon DEF TypeOK, arrayTables
<1> QED BY <1>1, <1>2 DEF IInv

-----------------------------------------------------------------------------
(* [path]                                                                  *)

\* The table of a header that is not refused may be opened.
LEMMA HeaderMayOpen ==
  ASSUME IInv, NEW path \in Seq(Names), path # << >>, ~TableClash(path),
         NEW next, next = ensureTable(path), next # Nowhere
  PROVE  /\ Way(doc, sealed, next) /\ PathOf(next) = path
         /\ next # << >> /\ Last(next) \in Names /\ next \notin opened \cup dotted
<1>0. Shaped(doc, sealed) /\ Bookkeeping
  BY DEF IInv
<1>1. Way(doc, sealed, next) /\ PathOf(next) = path
  BY <1>0, Resolved DEF TableClash
<1>2. next # << >>
  BY <1>1, PathEmpty
<1>3. next \in Seq(Steps) /\ LiveIn(doc, next) /\ next \in Prefixes(next)
  BY <1>1, PrefixFacts DEF Way
<1> DEFINE k == Front(next)
           x == Last(next)
<1>4. k \in Seq(Steps) /\ x \in Steps /\ next = Append(k, x) /\ k \in Prefixes(next)
  BY <1>2, <1>3, LastStep, PrefixFacts
<1>5. x \in Names
  <2> SUFFICES ASSUME x \notin Names PROVE FALSE
    OBVIOUS
  <2>1. next \in DOMAIN doc \ sealed
    BY <1>1, <1>3 DEF Way
  <2>2. k \in DOMAIN doc /\ k \notin sealed /\ doc[k] = "array"
    BY <1>0, <1>2, <2>1 DEF Shaped, Rooted, Nested
  <2>3. LiveIn(doc, k)
    BY <1>3, <1>4, LiveStep
  <2>4. Encode(PathOf(k)) \in DOMAIN arrayTableEpochs
    BY <2>2, <2>3, Parts DEF Kept
  <2>5. PathOf(k) = path
    <3>1. PathOf(Append(k, x)) = Longer(PathOf(k), x)
      BY <1>4, PathStep
    <3> QED BY <3>1, <1>1, <1>4 DEF Longer
  <2> QED BY <2>4, <2>5 DEF TableClash, arrayTables
<1>6. next \notin opened \cup dotted
  <2> SUFFICES ASSUME next \in opened \cup dotted PROVE FALSE
    OBVIOUS
  <2>1. next \in DOMAIN doc
    BY DEF IInv, MarkedIn
  <2>2. \/ RecordedIn(arrayTableEpochs, declaredTables, path)
        \/ RecordedIn(arrayTableEpochs, dottedKeyTables, path)
    BY <1>1, <1>3, <1>5, <2>1, Parts DEF Kept
  <2> QED BY <2>2, RecordedEq DEF TableClash
<1> QED BY <1>1, <1>2, <1>5, <1>6

\* What was in the tree is recorded as before, and the table as opened.
LEMMA OpenKeeps ==
  ASSUME Plain, IInv, NEW path \in Seq(Names), Known(path),
         NEW next, Way(doc, sealed, next), PathOf(next) = path,
         next # << >>, Last(next) \in Names,
         NEW e, e = Grow(doc, next)
  PROVE  /\ Kept(e, sealed, opened \cup {next}, dotted, arrayTableEpochs,
                 RecordIn(arrayTableEpochs, declaredTables, {path}),
                 dottedKeyTables, closedInlineTables)
         /\ Shaped(e, sealed) /\ MarkedIn(e, sealed, opened \cup {next}, dotted)
         /\ AskedIn(filter, e, sealed) /\ TableAt(e, sealed, next, path)
         /\ next \in DOMAIN e
<1> DEFINE E == arrayTableEpochs
           declared == RecordIn(E, declaredTables, {path})
<1>0. Shaped(doc, sealed)
  BY DEF IInv
<1>1. /\ DOMAIN e = DOMAIN doc \cup Prefixes(next)
      /\ \A l \in DOMAIN doc : e[l] = doc[l]
      /\ \A l \in DOMAIN e \ DOMAIN doc : /\ e[l] = "table" /\ l \notin sealed
                                          /\ l # << >> /\ Last(l) \in Names
      /\ \A l \in DOMAIN doc \ sealed : doc[l] = "array" => Children(e, l) = Children(doc, l)
      /\ Shaped(e, sealed) /\ e[next] = "table" /\ Way(e, sealed, next)
  <2>1. Grown(doc, sealed, next, e)
    BY <1>0 DEF Grown
  <2>2. GrownTo(doc, sealed, next, e)
    BY ONLY <2>1, GrowTable
  <2> QED BY <2>2 DEF GrownTo
<1>2. next \in Seq(Steps) /\ next \in Prefixes(next)
  BY PrefixFacts DEF Way
<1>3. next \in DOMAIN e \ sealed /\ LiveIn(e, next)
  BY <1>1, <1>2 DEF Way
<1>4. ASSUME NEW l \in DOMAIN doc, l \notin sealed \/ Front(l) \notin sealed, LiveIn(e, l)
      PROVE  LiveIn(doc, l)
  <2>1. Outer(doc, sealed, l)
    BY <1>0, <1>4 DEF Outer, Shaped, Nested
  <2>2. \A k \in DOMAIN doc \ sealed : doc[k] = "array" /\ k \in Prefixes(l) => Size(e, k) = Size(doc, k)
    BY <1>1 DEF Size
  <2> QED BY <1>0, <1>4, <2>1, <2>2, OuterLive
<1>5. MarkedIn(e, sealed, opened \cup {next}, dotted)
  <2>1. \A l \in opened \cup dotted : l \in DOMAIN doc \ sealed /\ doc[l] = "table"
    BY DEF IInv, MarkedIn
  <2> QED BY <2>1, <1>1, <1>3 DEF MarkedIn
<1>6. AskedIn(filter, e, sealed)
  <2> SUFFICES ASSUME NEW l \in DOMAIN e, l # << >>, Front(l) \notin sealed
               PROVE  KnownTo(filter, PathOf(l))
    BY DEF AskedIn
  <2>1. CASE l \in DOMAIN doc
    BY <2>1 DEF IInv, AskedIn
  <2>2. CASE l \notin DOMAIN doc
    <3>1. l \in Prefixes(next) /\ Last(l) \in Names
      BY <2>2, <1>1
    <3>2. l \in Seq(Steps)
      BY <1>2, <3>1, PrefixFacts
    <3>3. PathOf(l) \in Prefixes(path)
      BY <1>2, <3>1, PathOfPrefix
    <3>4. PathOf(l) # << >>
      BY <2>2, <3>1, <3>2, <1>1, PathThere
    <3> QED BY <3>3, <3>4, Parts, KnownPrefix, KnownEq
  <2> QED BY <2>1, <2>2
<1>7. Kept(e, sealed, opened \cup {next}, dotted, E, declared, dottedKeyTables, closedInlineTables)
  <2> SUFFICES ASSUME NEW l \in DOMAIN e, LiveIn(e, l)
      PROVE  /\ l \in opened \cup {next} /\ Last(l) \in Names => RecordedIn(E, declared, PathOf(l))
             /\ l \in dotted => RecordedIn(E, dottedKeyTables, PathOf(l))
             /\ l \in sealed /\ Front(l) \notin sealed /\ e[l] # "scalar"
                  => RecordedIn(E, closedInlineTables, PathOf(l))
             /\ e[l] = "array" /\ l \notin sealed => Encode(PathOf(l)) \in DOMAIN E
    BY DEF Kept
  <2>0. Kept(doc, sealed, opened, dotted, E, declaredTables, dottedKeyTables, closedInlineTables)
    BY Parts
  <2>1. ASSUME l \in opened \cup {next}, Last(l) \in Names PROVE RecordedIn(E, declared, PathOf(l))
    <3>1. CASE l = next
      <4>1. {path} \subseteq Seq(Names) /\ path \in {path}
        OBVIOUS
      <4> QED BY <3>1, <4>1, RecordKeeps
    <3>2. CASE l \in opened
      <4>1. l \in DOMAIN doc \ sealed
        BY <3>2 DEF IInv, MarkedIn
      <4>2. LiveIn(doc, l)
        BY <4>1, <1>4
      <4>3. RecordedIn(E, declaredTables, PathOf(l)) /\ PathOf(l) \in Seq(Names)
        BY <2>0, <2>1, <3>2, <4>1, <4>2, <1>0, PathType DEF Kept, Shaped, Rooted
      <4>4. {path} \subseteq Seq(Names)
        OBVIOUS
      <4> QED BY <4>3, <4>4, RecordKeeps
    <3> QED BY <2>1, <3>1, <3>2
  <2>2. ASSUME l \in dotted PROVE RecordedIn(E, dottedKeyTables, PathOf(l))
    <3>1. l \in DOMAIN doc \ sealed
      BY <2>2 DEF IInv, MarkedIn
    <3>2. LiveIn(doc, l)
      BY <3>1, <1>4
    <3> QED BY <2>0, <2>2, <3>1, <3>2 DEF Kept
  <2>3. ASSUME l \in sealed, Front(l) \notin sealed, e[l] # "scalar"
        PROVE  RecordedIn(E, closedInlineTables, PathOf(l))
    <3>1. l \in DOMAIN doc
      BY <2>3, <1>0 DEF Shaped, Rooted
    <3>2. LiveIn(doc, l) /\ e[l] = doc[l]
      BY <2>3, <3>1, <1>1, <1>4
    <3> QED BY <2>0, <2>3, <3>1, <3>2 DEF Kept
  <2>4. ASSUME e[l] = "array", l \notin sealed PROVE Encode(PathOf(l)) \in DOMAIN E
    <3>1. l \in DOMAIN doc
      BY <2>4, <1>1
    <3>2. LiveIn(doc, l) /\ e[l] = doc[l]
      BY <2>4, <3>1, <1>1, <1>4
    <3> QED BY <2>0, <2>4, <3>1, <3>2 DEF Kept
  <2> QED BY <2>1, <2>2, <2>3, <2>4
<1> QED BY <1>1, <1>3, <1>5, <1>6, <1>7 DEF TableAt

-----------------------------------------------------------------------------
(* [[path]]                                                                *)

\* A header of an array of tables that is not refused means the array of that path.
Headed(path, parent, slot, next) ==
  /\ path \in Seq(Names) /\ path # << >> /\ ~ArrayClash(path)
  /\ parent = ensureTable(Front(path)) /\ slot = Append(parent, Last(path))
  /\ next = appendArrayTable(path) /\ next # Nowhere

LEMMA HeaderMayAppend ==
  ASSUME IInv, NEW path, NEW parent, NEW slot, NEW next, Headed(path, parent, slot, next)
  PROVE  /\ Lengthened(doc, sealed, parent, Last(path), slot, next, Grow(doc, next))
         /\ PathOf(slot) = path
<1> USE DEF Headed
<1>0. Shaped(doc, sealed) /\ Bookkeeping
  BY DEF IInv
<1>1. Front(path) \in Seq(Names) /\ Last(path) \in Names /\ path = Append(Front(path), Last(path))
  BY LastStep
<1>2. /\ parent # Nowhere /\ (slot \in DOMAIN doc => doc[slot] = "array")
      /\ next = Append(slot, Size(doc, slot) + 1)
  BY DEF appendArrayTable
<1>3. ~closedInlinePrefix(Front(path)) /\ ~Recorded(closedInlineTables, path)
  <2>1. ~closedInlinePrefix(Append(Front(path), Last(path)))
    BY <1>1 DEF ArrayClash
  <2>2. ~closedInlinePrefix(Front(path)) /\ ~Recorded(closedInlineTables, Append(Front(path), Last(path)))
    BY <1>1, <2>1, ClosedStep
  <2> QED BY <2>2, <1>1
<1>4. Way(doc, sealed, parent) /\ PathOf(parent) = Front(path)
  BY <1>0, <1>1, <1>2, <1>3, Resolved
<1>5. slot \notin sealed
  <2> SUFFICES ASSUME slot \in sealed PROVE FALSE
    OBVIOUS
  <2>1. slot \in DOMAIN doc
    BY <1>0 DEF Shaped, Rooted
  <2>2. doc[slot] # "scalar" /\ ~Recorded(closedInlineTables, Append(PathOf(parent), Last(path)))
    BY <2>1, <1>1, <1>2, <1>3, <1>4
  <2> QED BY <2>1, <2>2, <1>0, <1>1, <1>4, NotClosed
<1>6. PathOf(slot) = path
  <2>1. parent \in Seq(Steps) /\ Last(path) \in Steps
    BY <1>1, <1>4 DEF Way, Steps
  <2>2. PathOf(Append(parent, Last(path))) = Longer(PathOf(parent), Last(path))
    BY <2>1, PathStep
  <2> QED BY <2>2, <1>1, <1>4 DEF Longer
<1> HIDE DEF Grow
<1> QED BY <1>0, <1>1, <1>2, <1>4, <1>5, <1>6 DEF Lengthened

\* What can still be reached is not in an element that is over, and no other node is under the
\* path of the header.
LEMMA StillLive ==
  ASSUME Shaped(doc, sealed), NEW path \in Seq(Names), path # << >>,
         NEW parent, parent = ensureTable(Front(path)), NEW slot, NEW next, NEW e,
         Lengthened(doc, sealed, parent, Last(path), slot, next, e),
         NEW l \in DOMAIN doc, Outer(doc, sealed, l), l # slot, LiveIn(e, l)
  PROVE  LiveIn(doc, l) /\ path \notin Prefixes(PathOf(l))
<1>0. /\ next \notin DOMAIN doc /\ slot \in Seq(Steps) /\ parent \in Seq(Steps)
      /\ Size(e, slot) = Size(doc, slot) + 1
      /\ \A k \in DOMAIN doc \ sealed : doc[k] = "array" /\ k # slot => Size(e, k) = Size(doc, k)
  <2>1. Lengthened(doc, sealed, parent, Last(path), slot, next, e)
    OBVIOUS
  <2>2. LengthenedTo(doc, sealed, parent, Last(path), slot, next, e)
    BY ONLY <2>1, GrowElement
  <2> QED BY <2>2 DEF LengthenedTo
<1>1. /\ slot = Append(parent, Last(path)) /\ slot \notin sealed
      /\ slot \in DOMAIN doc => doc[slot] = "array"
      /\ next = Append(slot, Size(doc, slot) + 1)
  BY DEF Lengthened
<1>2. l \in Seq(Steps) /\ Prefixes(l) \subseteq DOMAIN doc
  BY PrefixClosed DEF Shaped, Rooted
<1>3. \A m \in Prefixes(l) : m # l => m \in DOMAIN doc \ sealed /\ doc[m] = KindOnWay(m, l)
  BY OnTheWay
<1>4. ASSUME slot \in Prefixes(l) PROVE FALSE
  <2>1. PICK i \in 0..Len(l) : slot = SubSeq(l, 1, i)
    BY <1>4 DEF Prefixes
  <2>2. Len(l) \in Nat
    BY <1>2
  <2>3. i # Len(l)
    <3>1. SubSeq(l, 1, Len(l)) = l
      BY <1>2
    <3> QED BY <3>1, <2>1
  <2>4. i + 1 \in 0..Len(l) /\ i + 1 # 0 /\ (i + 1) - 1 = i /\ i + 1 \in DOMAIN l
    <3>1. i + 1 \in 0..Len(l) /\ i + 1 # 0 /\ (i + 1) - 1 = i /\ i + 1 \in 1..Len(l)
      BY <2>1, <2>2, <2>3
    <3>2. DOMAIN l = 1..Len(l)
      BY <1>2
    <3> QED BY <3>1, <3>2
  <2> DEFINE n == SubSeq(l, 1, i + 1)
  <2>5. n \in Prefixes(l) /\ n # << >> /\ Last(n) = l[i + 1] /\ Front(n) = slot
    BY <2>1, <2>4, <1>2, PrefixAt
  <2> HIDE DEF n
  <2>6. l[i + 1] \notin Names
    <3>1. KindOnWay(slot, l) = IF l[i + 1] \in Names THEN "table" ELSE "array"
      BY <2>5, <1>2, KindAt
    <3>2. doc[slot] = KindOnWay(slot, l) /\ slot \in DOMAIN doc
      BY <1>3, <1>4
    <3> QED BY <3>1, <3>2, <1>1
  <2>7. l[i + 1] = Size(e, slot)
    <3>1. l[i + 1] \in Names \/ l[i + 1] = Size(e, SubSeq(l, 1, (i + 1) - 1))
      BY <2>4 DEF LiveIn
    <3> QED BY <3>1, <2>1, <2>4, <2>6
  <2>8. n = Append(slot, Last(n))
    <3>1. n \in Seq(Steps)
      BY <2>5, <1>2, PrefixFacts
    <3>2. n = Append(Front(n), Last(n))
      BY <3>1, <2>5, LastStep
    <3> QED BY <3>2, <2>5
  <2>9. n = next
    BY <2>5, <2>7, <2>8, <1>0, <1>1
  <2> QED BY <2>5, <2>9, <1>0, <1>2
<1>5. LiveIn(doc, l)
  <2>1. \A k \in DOMAIN doc \ sealed : doc[k] = "array" /\ k \in Prefixes(l) => Size(e, k) = Size(doc, k)
    BY <1>0, <1>4
  <2> QED BY <2>1, OuterLive
<1>6. ASSUME path \in Prefixes(PathOf(l)) PROVE FALSE
  <2>1. PICK m \in Prefixes(l) : m # << >> /\ Last(m) \in Names /\ PathOf(m) = path
    BY <1>2, <1>6, PrefixOfPath
  <2>2. m \in Seq(Steps) /\ Front(m) \in Prefixes(l) /\ Len(m) \in Nat /\ Len(m) <= Len(l) /\ Len(l) \in Nat
    BY <2>1, <1>2, PrefixFacts
  <2>3. Front(m) # l
    <3>1. Len(Front(m)) = Len(m) - 1
      BY <2>1, <2>2, LastStep
    <3>2. Len(Front(m)) # Len(l)
      BY <3>1, <2>2
    <3> QED BY <3>2
  <2>4. Front(m) \in DOMAIN doc \ sealed /\ doc[Front(m)] = "table"
    <3>1. KindOnWay(Front(m), l) = "table"
      BY <2>1, <1>2, KindAt
    <3> QED BY <3>1, <2>2, <2>3, <1>3
  <2>5. LiveIn(doc, Front(m))
    BY <2>2, <1>2, <1>5, LivePrefix
  <2>6. ensureTable(PathOf(Front(m))) = Front(m)
    BY <2>4, <2>5, Placed
  <2>7. PathOf(Front(m)) \in Seq(Names) /\ path = Append(PathOf(Front(m)), Last(m))
    BY <2>1, <2>2, PathThere
  <2>8. Front(path) = PathOf(Front(m)) /\ Last(path) = Last(m)
    <3>1. Front(Append(PathOf(Front(m)), Last(m))) = PathOf(Front(m))
          /\ Last(Append(PathOf(Front(m)), Last(m))) = Last(m)
      BY <2>1, <2>7, Appended
    <3> QED BY <3>1, <2>7
  <2>9. m = Append(Front(m), Last(m))
    BY <2>1, <2>2, LastStep
  <2>10. m = slot
    BY <2>6, <2>8, <2>9, <1>1
  <2> QED BY <2>10, <1>4
<1> QED BY <1>5, <1>6

\* What can still be reached is recorded as before, in the context of the new element.
LEMMA AppendKeeps ==
  ASSUME Plain, IInv, NEW path \in Seq(Names), path # << >>, Known(path),
         Encode(path) \in DOMAIN arrayTableEpochs => arrayTableEpochs[Encode(path)] < MaxEpoch,
         NEW parent, parent = ensureTable(Front(path)), NEW slot, NEW next, NEW e,
         Lengthened(doc, sealed, parent, Last(path), slot, next, e), PathOf(slot) = path
  PROVE  /\ Kept(e, sealed, opened \cup {next}, dotted, CountIn(arrayTableEpochs, path),
                 declaredTables, dottedKeyTables, closedInlineTables)
         /\ Shaped(e, sealed) /\ MarkedIn(e, sealed, opened \cup {next}, dotted)
         /\ AskedIn(filter, e, sealed) /\ TableAt(e, sealed, next, path)
<1> DEFINE E == arrayTableEpochs
           F == CountIn(E, path)
<1>0. Shaped(doc, sealed) /\ Epochs(E)
  BY Parts DEF IInv
<1>1. LengthenedTo(doc, sealed, parent, Last(path), slot, next, e)
  BY GrowElement
<1>2. /\ next \notin DOMAIN doc /\ next \in DOMAIN e /\ slot \in DOMAIN e
      /\ next \in Seq(Steps) /\ slot \in Seq(Steps) /\ parent \in Seq(Steps)
      /\ Front(next) = slot /\ Last(next) \notin Names
      /\ e[next] = "table" /\ e[slot] = "array" /\ LiveIn(e, next) /\ Shaped(e, sealed)
  BY <1>1 DEF LengthenedTo
<1>3. DOMAIN e = DOMAIN doc \cup Prefixes(next) /\ \A l \in DOMAIN doc : e[l] = doc[l]
  BY <1>1 DEF LengthenedTo
<1>4. \A l \in DOMAIN e \ DOMAIN doc :
         l \notin sealed /\ (l # slot => e[l] = "table") /\ (l # next => l # << >> /\ Last(l) \in Names)
  BY <1>1 DEF LengthenedTo
<1>5. slot \notin sealed /\ (slot \in DOMAIN doc => doc[slot] = "array")
  BY DEF Lengthened
<1>6. next \notin sealed /\ next # << >> /\ PathOf(next) = path
  <2>1. next # << >>
    BY <1>0, <1>2 DEF Shaped, Rooted
  <2>2. next = Append(slot, Last(next)) /\ Last(next) \in Steps
    BY <2>1, <1>2, LastStep
  <2>3. PathOf(Append(slot, Last(next))) = Longer(PathOf(slot), Last(next))
    BY <2>2, <1>2, PathStep
  <2>4. next \notin sealed
    BY <1>0, <1>2 DEF Shaped, Rooted
  <2> QED BY <2>1, <2>2, <2>3, <2>4, <1>2 DEF Longer
<1>7. DOMAIN F = DOMAIN E \cup {Encode(path)}
  BY DEF CountIn
<1> HIDE DEF F
<1>8. ASSUME NEW l \in DOMAIN doc, l \notin sealed \/ Front(l) \notin sealed, l # slot, LiveIn(e, l)
      PROVE  /\ LiveIn(doc, l)
             /\ \A table : RecordedIn(E, table, PathOf(l)) => RecordedIn(F, table, PathOf(l))
  <2>1. Outer(doc, sealed, l) /\ l \in Seq(Steps)
    BY <1>0, <1>8 DEF Outer, Shaped, Nested, Rooted
  <2>2. LiveIn(doc, l) /\ path \notin Prefixes(PathOf(l))
    BY <1>0, <1>8, <2>1, StillLive
  <2>3. PathOf(l) \in Seq(Names)
    BY <2>1, PathType
  <2> QED BY <2>2, <2>3, <1>0, CountKeeps DEF F
<1>9. MarkedIn(e, sealed, opened \cup {next}, dotted)
  <2>1. \A l \in opened \cup dotted : l \in DOMAIN doc \ sealed /\ doc[l] = "table"
    BY DEF IInv, MarkedIn
  <2> QED BY <2>1, <1>2, <1>3, <1>6 DEF MarkedIn
<1>10. AskedIn(filter, e, sealed)
  <2> SUFFICES ASSUME NEW l \in DOMAIN e, l # << >>, Front(l) \notin sealed
               PROVE  KnownTo(filter, PathOf(l))
    BY DEF AskedIn
  <2>1. CASE l \in DOMAIN doc
    BY <2>1 DEF IInv, AskedIn
  <2>2. CASE l = next
    BY <2>2, <1>6, KnownEq
  <2>3. CASE l \notin DOMAIN doc /\ l # next
    <3>1. l \in Prefixes(next) /\ Last(l) \in Names /\ l \in Seq(Steps)
      BY <2>3, <1>2, <1>3, <1>4, PrefixFacts
    <3>2. PathOf(l) \in Prefixes(path)
      BY <1>2, <1>6, <3>1, PathOfPrefix
    <3>3. PathOf(l) # << >>
      BY <3>1, PathThere
    <3> QED BY <3>2, <3>3, Parts, KnownPrefix, KnownEq
  <2> QED BY <2>1, <2>2, <2>3
<1>11. Kept(e, sealed, opened \cup {next}, dotted, F, declaredTables, dottedKeyTables, closedInlineTables)
  <2> SUFFICES ASSUME NEW l \in DOMAIN e, LiveIn(e, l)
      PROVE  /\ l \in opened \cup {next} /\ Last(l) \in Names => RecordedIn(F, declaredTables, PathOf(l))
             /\ l \in dotted => RecordedIn(F, dottedKeyTables, PathOf(l))
             /\ l \in sealed /\ Front(l) \notin sealed /\ e[l] # "scalar"
                  => RecordedIn(F, closedInlineTables, PathOf(l))
             /\ e[l] = "array" /\ l \notin sealed => Encode(PathOf(l)) \in DOMAIN F
    BY DEF Kept
  <2>0. Kept(doc, sealed, opened, dotted, E, declaredTables, dottedKeyTables, closedInlineTables)
    BY Parts
  <2>1. ASSUME l \in opened \cup {next}, Last(l) \in Names
        PROVE  RecordedIn(F, declaredTables, PathOf(l))
    <3>1. l \in opened
      BY <2>1, <1>2
    <3>2. l \in DOMAIN doc \ sealed /\ l # slot
      BY <3>1, <1>5 DEF IInv, MarkedIn
    <3>3. LiveIn(doc, l)
      BY <3>2, <1>8
    <3>4. RecordedIn(E, declaredTables, PathOf(l))
      BY <2>0, <2>1, <3>1, <3>2, <3>3 DEF Kept
    <3> QED BY <3>2, <3>4, <1>8
  <2>2. ASSUME l \in dotted PROVE RecordedIn(F, dottedKeyTables, PathOf(l))
    <3>1. l \in DOMAIN doc \ sealed /\ l # slot
      BY <2>2, <1>5 DEF IInv, MarkedIn
    <3>2. LiveIn(doc, l)
      BY <3>1, <1>8
    <3>3. RecordedIn(E, dottedKeyTables, PathOf(l))
      BY <2>0, <2>2, <3>1, <3>2 DEF Kept
    <3> QED BY <3>1, <3>3, <1>8
  <2>3. ASSUME l \in sealed, Front(l) \notin sealed, e[l] # "scalar"
        PROVE  RecordedIn(F, closedInlineTables, PathOf(l))
    <3>1. l \in DOMAIN doc /\ l # slot
      BY <2>3, <1>0, <1>5 DEF Shaped, Rooted
    <3>2. LiveIn(doc, l) /\ e[l] = doc[l]
      BY <2>3, <3>1, <1>3, <1>8
    <3>3. RecordedIn(E, closedInlineTables, PathOf(l))
      BY <2>0, <2>3, <3>1, <3>2 DEF Kept
    <3> QED BY <2>3, <3>1, <3>3, <1>8
  <2>4. ASSUME e[l] = "array", l \notin sealed PROVE Encode(PathOf(l)) \in DOMAIN F
    <3>1. CASE l = slot
      BY <3>1, <1>7
    <3>2. CASE l # slot
      <4>1. l \in DOMAIN doc
        BY <2>4, <3>2, <1>4
      <4>2. LiveIn(doc, l) /\ e[l] = doc[l]
        BY <2>4, <3>2, <4>1, <1>3, <1>8
      <4> QED BY <2>0, <2>4, <4>1, <4>2, <1>7 DEF Kept
    <3> QED BY <3>1, <3>2
  <2> QED BY <2>1, <2>2, <2>3, <2>4
<1> QED BY <1>2, <1>6, <1>9, <1>10, <1>11 DEF TableAt, F

\* A section nobody asks for is counted all the same, and nothing in the tree is under its path.
LEMMA SkipKeeps ==
  ASSUME Plain, IInv, NEW path \in Seq(Names), path # << >>, ~Known(path),
         Encode(path) \in DOMAIN arrayTableEpochs => arrayTableEpochs[Encode(path)] < MaxEpoch
  PROVE  Kept(doc, sealed, opened, dotted, CountIn(arrayTableEpochs, path),
              declaredTables, dottedKeyTables, closedInlineTables)
<1> DEFINE E == arrayTableEpochs
           F == CountIn(E, path)
<1>0. Shaped(doc, sealed) /\ Epochs(E)
  BY Parts DEF IInv
<1>1. ASSUME NEW l \in DOMAIN doc, l \notin sealed \/ Front(l) \notin sealed
      PROVE  \A table : RecordedIn(E, table, PathOf(l)) => RecordedIn(F, table, PathOf(l))
  <2>1. Outer(doc, sealed, l) /\ l \in Seq(Steps)
    BY <1>0, <1>1 DEF Outer, Shaped, Nested, Rooted
  <2>2. PathOf(l) \in Seq(Names)
    BY <2>1, PathType
  <2>3. path \notin Prefixes(PathOf(l))
    <3>1. CASE l = << >>
      BY <3>1, PathEmpty, PrefixesOfEmpty
    <3>2. CASE l # << >>
      <4>1. Known(PathOf(l))
        BY <2>1, <3>2, KnownEq DEF IInv, AskedIn, Outer
      <4> QED BY <2>2, <4>1, Parts, KnownPrefix
    <3> QED BY <3>1, <3>2
  <2> QED BY <2>2, <2>3, <1>0, CountKeeps
<1>2. DOMAIN F = DOMAIN E \cup {Encode(path)}
  BY DEF CountIn
<1> HIDE DEF F
<1>3. Kept(doc, sealed, opened, dotted, E, declaredTables, dottedKeyTables, closedInlineTables)
  BY Parts
<1>4. \A l \in opened \cup dotted : l \in DOMAIN doc \ sealed
  BY DEF IInv, MarkedIn
<1>5. Kept(doc, sealed, opened, dotted, F, declaredTables, dottedKeyTables, closedInlineTables)
  BY <1>1, <1>2, <1>3, <1>4 DEF Kept
<1> QED BY <1>5 DEF F

-----------------------------------------------------------------------------
(* key = value                                                             *)

\* The parts of a dotted key below a table.
LEMMA KeyPart ==
  ASSUME NEW r \in Seq(Steps), NEW key \in Seq(Names), NEW i \in 0..Len(key)
  PROVE  /\ SubSeq(key, 1, i) \in Seq(Names) /\ r \o SubSeq(key, 1, i) \in Seq(Steps)
         /\ Len(r \o SubSeq(key, 1, i)) = Len(r) + i
         /\ i = 0 => r \o SubSeq(key, 1, i) = r
         /\ i = Len(key) => SubSeq(key, 1, i) = key
         /\ SubSeq(r \o key, 1, Len(r) + i) = r \o SubSeq(key, 1, i)
         /\ \A j \in 0 .. Len(r) : SubSeq(r \o key, 1, j) = SubSeq(r, 1, j)
<1>0. Len(r) \in Nat /\ Len(key) \in Nat /\ key \in Seq(Steps)
  <2>1. Names \subseteq Steps
    BY DEF Steps
  <2> QED BY <2>1
<1> DEFINE q == SubSeq(key, 1, i)
<1>1. q \in Seq(Names) /\ q \in Seq(Steps) /\ Len(q) = i /\ \A j \in 1..i : q[j] = key[j]
  BY <1>0
<1>2. i = Len(key) => q = key
  BY <1>1
<1>3. i = 0 => q = << >>
  BY <1>1
<1> HIDE DEF q
<1>4. r \o q \in Seq(Steps) /\ Len(r \o q) = Len(r) + i
  BY <1>0, <1>1
<1>5. i = 0 => r \o q = r
  BY <1>3
<1>6. r \o key \in Seq(Steps) /\ Len(r \o key) = Len(r) + Len(key)
  BY <1>0
<1>7. SubSeq(r \o key, 1, Len(r) + i) = r \o q
  <2> DEFINE t == SubSeq(r \o key, 1, Len(r) + i)
  <2>1. t \in Seq(Steps) /\ Len(t) = Len(r) + i
        /\ \A j \in 1 .. Len(r) + i : t[j] = (r \o key)[j]
    BY <1>0, <1>6
  <2> HIDE DEF t
  <2>2. ASSUME NEW j \in 1 .. Len(r) + i PROVE t[j] = (r \o q)[j]
    <3>1. CASE j \in 1..Len(r)
      BY <3>1, <2>1, <1>0, <1>1
    <3>2. CASE j \notin 1..Len(r)
      <4>1. j - Len(r) \in 1..i /\ j = Len(r) + (j - Len(r))
        BY <3>2, <1>0
      <4>2. (r \o key)[j] = key[j - Len(r)] /\ (r \o q)[j] = q[j - Len(r)]
        BY <4>1, <1>0, <1>1
      <4> QED BY <4>1, <4>2, <2>1, <1>1
    <3> QED BY <3>1, <3>2
  <2>3. t = r \o q
    <3> DEFINE u == r \o q
    <3>1. u \in Seq(Steps) /\ Len(u) = Len(r) + i
      BY <1>4
    <3>2. \A j \in 1 .. Len(r) + i : t[j] = u[j]
      BY <2>2
    <3> HIDE DEF u
    <3>3. t \in Seq(Steps) /\ Len(t) = Len(u)
      BY <2>1, <3>1
    <3>4. \A j \in 1 .. Len(u) : t[j] = u[j]
      BY <3>1, <3>2
    <3>5. t = u
      BY ONLY <3>1, <3>3, <3>4
    <3> QED BY <3>5 DEF u
  <2> QED BY <2>3 DEF t
<1>8. ASSUME NEW j \in 0 .. Len(r) PROVE SubSeq(r \o key, 1, j) = SubSeq(r, 1, j)
  BY <1>0, <1>6
<1> QED BY <1>1, <1>2, <1>4, <1>5, <1>7, <1>8 DEF q

LEMMA KeyPartStep ==
  ASSUME NEW r \in Seq(Steps), NEW key \in Seq(Names), NEW i \in Nat, i < Len(key)
  PROVE  r \o SubSeq(key, 1, i + 1) = Append(r \o SubSeq(key, 1, i), key[i + 1]) /\ key[i + 1] \in Names
<1> DEFINE q == SubSeq(key, 1, i)
<1>1. q \in Seq(Names) /\ key[i + 1] \in Names /\ SubSeq(key, 1, i + 1) = Append(q, key[i + 1])
  <2>1. q \in Seq(Names) /\ Len(q) = i /\ i + 1 \in 1..Len(key) /\ \A j \in 1..i : q[j] = key[j]
    OBVIOUS
  <2>2. key[i + 1] \in Names
    BY <2>1
  <2>3. SubSeq(key, 1, i + 1) = Append(q, key[i + 1])
    <3> DEFINE t == SubSeq(key, 1, i + 1)
               u == Append(q, key[i + 1])
    <3>1. t \in Seq(Names) /\ Len(t) = i + 1 /\ \A j \in 1..(i + 1) : t[j] = key[j]
      BY <2>1
    <3>2. u \in Seq(Names) /\ Len(u) = i + 1 /\ u[i + 1] = key[i + 1] /\ \A j \in 1..i : u[j] = q[j]
      BY <2>1, <2>2
    <3> HIDE DEF t, u, q
    <3>3. \A j \in 1..(i + 1) : t[j] = u[j]
      <4> SUFFICES ASSUME NEW j \in 1..(i + 1) PROVE t[j] = u[j]
        OBVIOUS
      <4>1. j = i + 1 \/ j \in 1..i
        OBVIOUS
      <4> QED BY <4>1, <3>1, <3>2, <2>1
    <3>4. t = u
      BY <3>1, <3>2, <3>3
    <3> QED BY <3>4 DEF t, u
  <2> QED BY <2>1, <2>2, <2>3
<1> HIDE DEF q
<1>2. \A p \in Seq(Steps), x \in Steps : r \o Append(p, x) = Append(r \o p, x)
  OBVIOUS
<1>3. q \in Seq(Steps) /\ key[i + 1] \in Steps
  <2>1. Names \subseteq Steps
    BY DEF Steps
  <2> QED BY <2>1, <1>1
<1>4. r \o Append(q, key[i + 1]) = Append(r \o q, key[i + 1])
  BY <1>2, <1>3
<1> QED BY <1>1, <1>4 DEF q

\* The keys of a statement below the table r, one for each table on the way.
Between(r, key) == {r \o SubSeq(key, 1, i) : i \in 1 .. Len(key) - 1}

LEMMA BetweenEq ==
  ASSUME NEW r \in Seq(Steps), NEW key \in Seq(Names), key # << >>
  PROVE  /\ Prefixes(r \o key) \ (Prefixes(r) \cup {r \o key}) = Between(r, key)
         /\ IsStrictPrefix(r, r \o key)
<1> DEFINE loc == r \o key
<1>0. Len(r) \in Nat /\ Len(key) \in Nat \ {0} /\ loc \in Seq(Steps) /\ Len(loc) = Len(r) + Len(key)
  <2>1. Len(key) \in Nat /\ Len(key) # 0 /\ Len(r) \in Nat
    OBVIOUS
  <2>2. Len(key) \in 0..Len(key)
    BY <2>1
  <2>3. r \o SubSeq(key, 1, Len(key)) \in Seq(Steps)
        /\ Len(r \o SubSeq(key, 1, Len(key))) = Len(r) + Len(key) /\ SubSeq(key, 1, Len(key)) = key
    BY <2>2, KeyPart
  <2> QED BY <2>1, <2>3
<1>1. \A i \in 0..Len(key) : /\ SubSeq(loc, 1, Len(r) + i) = r \o SubSeq(key, 1, i)
                             /\ Len(r \o SubSeq(key, 1, i)) = Len(r) + i
  BY KeyPart
<1>2. \A j \in 0..Len(r) : SubSeq(loc, 1, j) = SubSeq(r, 1, j)
  <2>1. 0 \in 0..Len(key)
    BY <1>0
  <2> QED BY <2>1, KeyPart
<1>3. SubSeq(loc, 1, Len(loc)) = loc /\ SubSeq(r, 1, Len(r)) = r
  BY <1>0
<1> HIDE DEF loc
<1>4. ASSUME NEW m \in Prefixes(loc), m \notin Prefixes(r), m # loc PROVE m \in Between(r, key)
  <2>1. PICK j \in 0..Len(loc) : m = SubSeq(loc, 1, j)
    BY DEF Prefixes
  <2>2. j # Len(loc)
    BY <2>1, <1>3, <1>4
  <2>3. j \notin 0..Len(r)
    <3>1. j \in 0..Len(r) => m \in Prefixes(r)
      BY <2>1, <1>2 DEF Prefixes
    <3> QED BY <3>1, <1>4
  <2>4. j - Len(r) \in 1 .. Len(key) - 1 /\ j - Len(r) \in 0..Len(key) /\ Len(r) + (j - Len(r)) = j
    BY <2>1, <2>2, <2>3, <1>0
  <2>5. m = r \o SubSeq(key, 1, j - Len(r))
    BY <2>1, <2>4, <1>1
  <2> QED BY <2>4, <2>5 DEF Between
<1>5. ASSUME NEW m \in Between(r, key) PROVE m \in Prefixes(loc) /\ m \notin Prefixes(r) /\ m # loc
  <2>1. PICK i \in 1 .. Len(key) - 1 : m = r \o SubSeq(key, 1, i)
    BY <1>5 DEF Between
  <2>2. i \in 0..Len(key) /\ Len(r) + i \in 0..Len(loc) /\ ~(Len(r) + i <= Len(r)) /\ Len(r) + i # Len(loc)
    BY <2>1, <1>0
  <2>3. m = SubSeq(loc, 1, Len(r) + i) /\ Len(m) = Len(r) + i
    BY <2>1, <2>2, <1>1
  <2>4. m \in Prefixes(loc)
    BY <2>2, <2>3 DEF Prefixes
  <2>5. m \in Prefixes(r) => Len(m) <= Len(r)
    BY PrefixFacts
  <2> QED BY <2>2, <2>3, <2>4, <2>5
<1>6. IsStrictPrefix(r, loc)
  <2>1. SubSeq(loc, 1, Len(r)) = SubSeq(r, 1, Len(r))
    <3>1. Len(r) \in 0..Len(r)
      BY <1>0
    <3> QED BY <3>1, <1>2
  <2>2. Len(r) <= Len(loc) /\ Len(r) # Len(loc)
    BY <1>0
  <2> QED BY <2>1, <2>2 DEF IsStrictPrefix, IsPrefix
<1> QED BY <1>4, <1>5, <1>6 DEF loc

\* A part of a key, as a statement may mean it: between it and the current table there are
\* tables, made by dotted keys if by anything, or nothing yet.
MayPass(key, i) ==
  LET l == current \o SubSeq(key, 1, i)
  IN  /\ Way(doc, sealed, l) /\ PathOf(l) = currentPath \o SubSeq(key, 1, i)
      /\ i # 0 => l \notin opened

LEMMA KeyMayPass ==
  ASSUME IInv, current # Nowhere, NEW key \in Seq(Names), key # << >>,
         ~KeyClash(key), AssignUnique(current \o key)
  PROVE  \A i \in 0 .. Len(key) - 1 : MayPass(key, i)
<1>0. Shaped(doc, sealed) /\ Bookkeeping /\ TableAt(doc, sealed, current, currentPath)
  BY DEF IInv
<1>1. /\ current \in Seq(Steps) /\ Way(doc, sealed, current) /\ PathOf(current) = currentPath
      /\ currentPath \in Seq(Names)
  BY <1>0, WayTo, PathType DEF TableAt, Shaped, Rooted
<1>2. Len(key) \in Nat \ {0} /\ Len(current) \in Nat
      /\ Len(current \o key) = Len(current) + Len(key)
  <2>1. Len(key) \in Nat /\ Len(key) # 0 /\ Len(current) \in Nat
    BY <1>1
  <2>2. Len(key) \in 0..Len(key)
    BY <2>1
  <2>3. Len(current \o SubSeq(key, 1, Len(key))) = Len(current) + Len(key) /\ SubSeq(key, 1, Len(key)) = key
    BY <1>1, <2>2, KeyPart
  <2> QED BY <2>1, <2>3
<1> DEFINE S == {i \in Nat : i <= Len(key) - 1 => MayPass(key, i)}
<1>3. 0 \in S
  <2>1. 0 \in 0..Len(key)
    BY <1>2
  <2>2. current \o SubSeq(key, 1, 0) = current
    BY <1>1, <2>1, KeyPart
  <2>3. currentPath \o SubSeq(key, 1, 0) = currentPath
    <3>1. SubSeq(key, 1, 0) = << >>
      OBVIOUS
    <3> QED BY <3>1, <1>1
  <2> QED BY <1>1, <2>2, <2>3 DEF MayPass
<1>4. ASSUME NEW i \in Nat, i \in S PROVE i + 1 \in S
  <2> SUFFICES ASSUME i + 1 <= Len(key) - 1 PROVE MayPass(key, i + 1)
    OBVIOUS
  <2> DEFINE k == current \o SubSeq(key, 1, i)
             l == current \o SubSeq(key, 1, i + 1)
             p == currentPath \o SubSeq(key, 1, i + 1)
             x == key[i + 1]
  <2>1. /\ i < Len(key) /\ i <= Len(key) - 1 /\ i + 1 \in 0..Len(key) /\ i + 1 \in 1 .. Len(key) - 1
        /\ Len(current) + (i + 1) \in Len(current) + 1 .. Len(current \o key) - 1 /\ i + 1 # 0
    BY <1>2
  <2>2. Way(doc, sealed, k) /\ PathOf(k) = currentPath \o SubSeq(key, 1, i)
    BY <2>1, <1>4 DEF MayPass
  <2>3. l = Append(k, x) /\ x \in Names
    BY <2>1, <1>1, KeyPartStep
  <2>4. SubSeq(key, 1, i + 1) \in Seq(Names) /\ SubSeq(current \o key, 1, Len(current) + (i + 1)) = l
    BY <2>1, <1>1, KeyPart
  <2>5. PathOf(l) = p
    BY <2>4, <1>1, PathOfConcat
  <2>6. p \in Inner(key)
    BY <2>1 DEF Inner
  <2>7. Encode(p) \notin DOMAIN declaredTables /\ ~Recorded(closedInlineTables, p)
    BY <2>6 DEF KeyClash
  <2>8. l \in DOMAIN doc => doc[l] = "table"
    BY <2>1, <2>4 DEF AssignUnique
  <2> HIDE DEF k, l, p, x
  <2>9. k \in Seq(Steps) /\ x \in Steps /\ PathOf(l) = Append(PathOf(k), x)
    <3>1. k \in Seq(Steps) /\ x \in Steps
      BY <2>2, <2>3 DEF Way, Steps
    <3>2. PathOf(Append(k, x)) = Longer(PathOf(k), x)
      BY <3>1, PathStep
    <3> QED BY <3>1, <3>2, <2>3 DEF Longer
  <2>10. l \notin sealed
    <3> SUFFICES ASSUME l \in sealed PROVE FALSE
      OBVIOUS
    <3>1. l \in DOMAIN doc /\ doc[l] # "scalar"
      BY <2>8, <1>0 DEF Shaped, Rooted
    <3>2. ~Recorded(closedInlineTables, Append(PathOf(k), x))
      BY <2>5, <2>7, <2>9
    <3> QED BY <3>1, <3>2, <1>0, <2>2, <2>3, NotClosed
  <2>11. Way(doc, sealed, l)
    <3>1. Append(k, x) \notin sealed /\ (Append(k, x) \in DOMAIN doc => doc[Append(k, x)] = "table")
      BY <2>3, <2>8, <2>10
    <3>2. Way(doc, sealed, Append(k, x))
      BY <3>1, <1>0, <2>2, <2>3, WayName
    <3> QED BY <3>2, <2>3
  <2>12. l \notin opened
    <3> SUFFICES ASSUME l \in opened PROVE FALSE
      OBVIOUS
    <3>1. l \in DOMAIN doc
      BY DEF IInv, MarkedIn
    <3>2. LiveIn(doc, l) /\ Last(l) \in Names
      <4>1. Last(Append(k, x)) = x
        BY <2>9, OneStep
      <4> QED BY <4>1, <2>3, <2>11 DEF Way
    <3>3. RecordedIn(arrayTableEpochs, declaredTables, PathOf(l))
      BY <3>1, <3>2, Parts DEF Kept
    <3> QED BY <3>3, <2>5, <2>7 DEF RecordedIn
  <2> QED BY <2>5, <2>11, <2>12 DEF MayPass, l, p
<1>5. Nat \subseteq S
  <2> HIDE DEF S
  <2> QED BY <1>3, <1>4, Induct
<1> QED BY <1>2, <1>5

\* The place of the value, and the table it goes to.
LEMMA KeyMayAssign ==
  ASSUME IInv, current # Nowhere, NEW key \in Seq(Names), key # << >>,
         ~KeyClash(key), AssignUnique(current \o key), NEW value, IsTree(value),
         NEW k, k = Front(current \o key), NEW f, f = Grow(doc, k),
         NEW added, added = {current \o key \o l : l \in DOMAIN value},
         NEW e, e = Put(f, current \o key, value)
  PROVE  /\ Grown(doc, sealed, k, f)
         /\ Filled(f, sealed, k, Last(key), current \o key, value, added, e)
         /\ PathOf(current \o key) = currentPath \o key
         /\ currentPath \in Seq(Names) /\ current \in Seq(Steps) /\ k \in Seq(Steps)
<1> DEFINE loc == current \o key
           x == Last(key)
<1>0. Shaped(doc, sealed) /\ TableAt(doc, sealed, current, currentPath)
  BY DEF IInv
<1>1. current \in Seq(Steps) /\ PathOf(current) = currentPath /\ currentPath \in Seq(Names)
  BY <1>0, PathType DEF TableAt, Shaped, Rooted
<1>2. Len(key) \in Nat \ {0} /\ Front(key) \in Seq(Names) /\ x \in Names /\ key = Append(Front(key), x)
  BY LastStep
<1>3. key \in Seq(Steps)
  <2>1. Names \subseteq Steps
    BY DEF Steps
  <2> QED BY <2>1
<1>4. loc \in Seq(Steps) /\ loc # << >> /\ k = current \o Front(key) /\ Last(loc) = x
  BY <1>1, <1>3, Below
<1>5. loc = Append(k, x) /\ k \in Seq(Steps)
  <2>1. loc = Append(Front(loc), Last(loc)) /\ Front(loc) \in Seq(Steps)
    <3> HIDE DEF loc
    <3> QED BY <1>4, LastStep
  <2> QED BY <2>1, <1>4
<1>6. Way(doc, sealed, k)
  <2>1. Len(key) - 1 \in 0 .. Len(key) - 1
    BY <1>2
  <2>2. MayPass(key, Len(key) - 1)
    BY <2>1, KeyMayPass
  <2>3. Front(key) = SubSeq(key, 1, Len(key) - 1)
    BY DEF Front
  <2> QED BY <2>2, <2>3, <1>4 DEF MayPass
<1>7. PathOf(loc) = currentPath \o key
  BY <1>1, PathOfConcat
<1>8. loc \notin DOMAIN doc
  BY DEF AssignUnique
<1>9. Grown(doc, sealed, k, f)
  BY <1>0, <1>6 DEF Grown
<1>10. /\ DOMAIN f = DOMAIN doc \cup Prefixes(k) /\ Shaped(f, sealed) /\ f[k] = "table"
       /\ Way(f, sealed, k)
  <2>1. GrownTo(doc, sealed, k, f)
    BY ONLY <1>9, GrowTable
  <2> QED BY <2>1 DEF GrownTo
<1>11. k \in DOMAIN f \ sealed
  BY <1>5, <1>10, PrefixFacts DEF Way
<1>12. loc \notin DOMAIN f
  <2>1. ~(Len(loc) <= Len(k))
    <3>1. Len(Append(k, x)) = Len(k) + 1 /\ Len(k) \in Nat
      <4>1. x \in Steps
        BY <1>2 DEF Steps
      <4> QED BY <4>1, <1>5, OneStep
    <3>2. Len(loc) = Len(k) + 1
      BY <3>1, <1>5
    <3> QED BY ONLY <3>1, <3>2
  <2>2. \A m \in Prefixes(k) : Len(m) <= Len(k)
    BY <1>5, PrefixFacts
  <2> QED BY <2>1, <2>2, <1>8, <1>10
<1> HIDE DEF loc, x
<1>13. added = {loc \o l : l \in DOMAIN value} /\ e = Put(f, loc, value)
  BY DEF loc
<1>14. Filled(f, sealed, k, x, loc, value, added, e)
  BY <1>2, <1>5, <1>10, <1>11, <1>12, <1>13 DEF Filled
<1> QED BY <1>1, <1>5, <1>7, <1>9, <1>14 DEF loc, x

\* What was in the tree is recorded as before; the value and the tables on the way to it are too.
LEMMA KeyKeeps ==
  ASSUME Plain, IInv, current # Nowhere, NEW key \in Seq(Names), key # << >>,
         Known(currentPath \o key), ~KeyClash(key), AssignUnique(current \o key),
         NEW value, IsTree(value), NEW k, k = Front(current \o key), NEW f, f = Grow(doc, k),
         NEW added, added = {current \o key \o l : l \in DOMAIN value},
         NEW e, e = Put(f, current \o key, value)
  PROVE  /\ Kept(e, sealed \cup added, opened, dotted \cup Between(current, key), arrayTableEpochs,
                 declaredTables, RecordIn(arrayTableEpochs, dottedKeyTables, Inner(key)),
                 RecordIn(arrayTableEpochs, closedInlineTables, ValuePaths(currentPath \o key, value)))
         /\ Shaped(e, sealed \cup added)
         /\ MarkedIn(e, sealed \cup added, opened, dotted \cup Between(current, key))
         /\ AskedIn(filter, e, sealed \cup added)
         /\ TableAt(e, sealed \cup added, current, currentPath)
         /\ current \o key \in DOMAIN e
         /\ Inner(key) \subseteq Seq(Names) /\ ValuePaths(currentPath \o key, value) \subseteq Seq(Names)
<1> DEFINE E == arrayTableEpochs
           loc == current \o key
           path == currentPath \o key
           s == sealed \cup added
           between == Between(current, key)
           passed == RecordIn(E, dottedKeyTables, Inner(key))
           closed == RecordIn(E, closedInlineTables, ValuePaths(path, value))
<1>0. Shaped(doc, sealed) /\ TableAt(doc, sealed, current, currentPath)
  BY DEF IInv
<1>1. /\ Grown(doc, sealed, k, f) /\ Filled(f, sealed, k, Last(key), loc, value, added, e)
      /\ PathOf(loc) = path
      /\ currentPath \in Seq(Names) /\ current \in Seq(Steps) /\ k \in Seq(Steps)
  BY KeyMayAssign
<1>2. /\ DOMAIN f = DOMAIN doc \cup Prefixes(k)
      /\ \A l \in DOMAIN doc : f[l] = doc[l]
      /\ \A l \in DOMAIN f \ DOMAIN doc : /\ f[l] = "table" /\ l \notin sealed
                                          /\ l # << >> /\ Last(l) \in Names
      /\ \A l \in DOMAIN doc \ sealed : doc[l] = "array" => Children(f, l) = Children(doc, l)
      /\ Shaped(f, sealed) /\ f[k] = "table" /\ Way(f, sealed, k)
  <2>1. Grown(doc, sealed, k, f)
    BY <1>1
  <2>2. GrownTo(doc, sealed, k, f)
    BY ONLY <2>1, GrowTable
  <2> QED BY <2>2 DEF GrownTo
<1>3. FilledTo(f, sealed, k, loc, value, added, e)
  BY <1>1, PutValue
<1>4. /\ DOMAIN e = DOMAIN f \cup added /\ DOMAIN f \cap added = {} /\ loc \in added
      /\ \A l \in DOMAIN f : e[l] = f[l]
      /\ e[loc] = value[<< >>]
      /\ \A l \in added : l = loc \/ Front(l) \in added
      /\ \A l \in DOMAIN f \ sealed : f[l] = "array" => Size(e, l) = Size(f, l)
      /\ Shaped(e, s)
  BY <1>3 DEF FilledTo
<1>5. loc \in Seq(Steps) /\ loc # << >> /\ Front(loc) = k /\ path \in Seq(Names)
      /\ Prefixes(loc) = Prefixes(k) \cup {loc}
  <2>1. loc = Append(k, Last(key)) /\ Last(key) \in Steps
    BY <1>1 DEF Filled, Steps
  <2>2. k \in Seq(Steps)
    BY <1>1
  <2>3. /\ Append(k, Last(key)) \in Seq(Steps) /\ Append(k, Last(key)) # << >>
        /\ Front(Append(k, Last(key))) = k
        /\ Prefixes(Append(k, Last(key))) = Prefixes(k) \cup {Append(k, Last(key))}
    BY ONLY <2>1, <2>2, OneStep
  <2>4. path \in Seq(Names)
    BY <1>1
  <2> QED BY ONLY <2>1, <2>3, <2>4
<1>6. Inner(key) \subseteq Seq(Names) /\ ValuePaths(path, value) \subseteq Seq(Names)
  <2>1. ASSUME NEW i \in 1 .. Len(key) - 1 PROVE currentPath \o SubSeq(key, 1, i) \in Seq(Names)
    <3>1. SubSeq(key, 1, i) \in Seq(Names)
      OBVIOUS
    <3> QED BY <3>1, <1>1
  <2>2. ASSUME NEW l \in DOMAIN value PROVE path \o PathOf(l) \in Seq(Names)
    <3>1. PathOf(l) \in Seq(Names)
      BY PathType DEF IsTree, Steps
    <3> QED BY <3>1, <1>5
  <2> QED BY <2>1, <2>2 DEF Inner, ValuePaths
<1>7. \A l \in between : /\ l \in DOMAIN f /\ l \notin sealed /\ f[l] = "table"
                         /\ PathOf(l) \in Inner(key)
  <2> SUFFICES ASSUME NEW i \in 1 .. Len(key) - 1, NEW l, l = current \o SubSeq(key, 1, i)
               PROVE  l \in DOMAIN f /\ l \notin sealed /\ f[l] = "table" /\ PathOf(l) \in Inner(key)
    BY DEF Between
  <2>1. i \in 0 .. Len(key) - 1
    OBVIOUS
  <2>2. Way(doc, sealed, l) /\ PathOf(l) = currentPath \o SubSeq(key, 1, i)
    BY <2>1, KeyMayPass DEF MayPass
  <2>3. l \in Prefixes(k)
    <3>1. l \in Between(current, key)
      BY DEF Between
    <3>2. Prefixes(loc) \ (Prefixes(current) \cup {loc}) = Between(current, key)
      BY <1>1, BetweenEq
    <3> QED BY <3>1, <3>2, <1>5
  <2>4. l \notin sealed /\ (l \in DOMAIN doc => doc[l] = "table")
    <3>1. l \in Seq(Steps) /\ l \in Prefixes(l)
      BY <2>2, PrefixFacts DEF Way
    <3>2. KindOnWay(l, l) = "table"
      BY DEF KindOnWay
    <3> QED BY <3>1, <3>2, <2>2 DEF Way
  <2>5. PathOf(l) \in Inner(key)
    BY <2>2 DEF Inner
  <2> QED BY <2>3, <2>4, <2>5, <1>2
<1>8. ASSUME NEW l \in DOMAIN doc, l \notin sealed \/ Front(l) \notin sealed
      PROVE  LiveIn(e, l) <=> LiveIn(doc, l)
  <2>1. Outer(doc, sealed, l)
    BY <1>0, <1>8 DEF Outer, Shaped, Nested
  <2>2. ASSUME NEW m \in DOMAIN doc \ sealed, doc[m] = "array" PROVE Size(e, m) = Size(doc, m)
    <3>1. m \in DOMAIN f \ sealed /\ f[m] = "array"
      BY <2>2, <1>2
    <3>2. Size(f, m) = Size(doc, m)
      BY <2>2, <1>2 DEF Size
    <3> QED BY <3>1, <3>2, <1>4
  <2> QED BY <1>0, <2>1, <2>2, OuterLive
<1> HIDE DEF s, between, passed, closed, loc, path
<1>9. \A l : l \in s <=> l \in sealed \/ l \in added
  BY DEF s
<1>10. sealed \subseteq DOMAIN doc /\ (\A l \in DOMAIN doc : l # << >> => Front(l) \in DOMAIN doc)
       /\ << >> \notin sealed
  BY <1>0 DEF Shaped, Rooted
<1>11. \A l \in DOMAIN doc : l \in DOMAIN f /\ l \in DOMAIN e /\ l \notin added /\ e[l] = doc[l]
  BY <1>2, <1>4
<1>12. \A l \in opened \cup dotted : l \in DOMAIN doc \ sealed /\ doc[l] = "table"
  BY DEF IInv, MarkedIn
<1>13. MarkedIn(e, s, opened, dotted \cup between)
  BY <1>4, <1>7, <1>9, <1>11, <1>12 DEF MarkedIn
<1>14. AskedIn(filter, e, s)
  <2> SUFFICES ASSUME NEW l \in DOMAIN e, l # << >>, Front(l) \notin s
               PROVE  KnownTo(filter, PathOf(l))
    BY DEF AskedIn
  <2>1. CASE l \in DOMAIN doc
    BY <2>1, <1>9 DEF IInv, AskedIn
  <2>2. CASE l \in added
    <3>1. l = loc
      BY <2>2, <1>4, <1>9
    <3> QED BY <3>1, <1>1, KnownEq DEF path
  <2>3. CASE l \notin DOMAIN doc /\ l \notin added
    <3>1. l \in Prefixes(k) /\ Last(l) \in Names
      BY <2>3, <1>2, <1>4
    <3>2. l \in Prefixes(loc) /\ l \in Seq(Steps)
      BY <3>1, <1>1, <1>5, PrefixFacts
    <3>3. PathOf(l) \in Prefixes(path)
      BY <1>1, <1>5, <3>2, PathOfPrefix
    <3>4. PathOf(l) # << >>
      BY <3>1, <3>2, PathThere
    <3>5. Known(path)
      BY DEF path
    <3> QED BY <3>3, <3>4, <3>5, <1>5, Parts, KnownPrefix, KnownEq
  <2> QED BY <2>1, <2>2, <2>3
<1>15. TableAt(e, s, current, currentPath)
  BY <1>0, <1>8, <1>9, <1>11 DEF TableAt
<1>16. Kept(e, s, opened, dotted \cup between, E, declaredTables, passed, closed)
  <2> SUFFICES ASSUME NEW l \in DOMAIN e, LiveIn(e, l)
      PROVE  /\ l \in opened /\ Last(l) \in Names => RecordedIn(E, declaredTables, PathOf(l))
             /\ l \in dotted \cup between => RecordedIn(E, passed, PathOf(l))
             /\ l \in s /\ Front(l) \notin s /\ e[l] # "scalar" => RecordedIn(E, closed, PathOf(l))
             /\ e[l] = "array" /\ l \notin s => Encode(PathOf(l)) \in DOMAIN E
    BY DEF Kept
  <2>0. Kept(doc, sealed, opened, dotted, E, declaredTables, dottedKeyTables, closedInlineTables)
    BY Parts
  <2>1. ASSUME l \in opened, Last(l) \in Names PROVE RecordedIn(E, declaredTables, PathOf(l))
    <3>1. l \in DOMAIN doc \ sealed
      BY <2>1, <1>12
    <3>2. LiveIn(doc, l)
      BY <3>1, <1>8
    <3> QED BY <2>0, <2>1, <3>1, <3>2 DEF Kept
  <2>2. ASSUME l \in dotted \cup between PROVE RecordedIn(E, passed, PathOf(l))
    <3>1. CASE l \in between
      <4>1. PathOf(l) \in Inner(key)
        BY <3>1, <1>7
      <4> QED BY <4>1, <1>6, RecordKeeps DEF passed
    <3>2. CASE l \in dotted
      <4>1. l \in DOMAIN doc \ sealed
        BY <3>2, <1>12
      <4>2. LiveIn(doc, l)
        BY <4>1, <1>8
      <4>3. RecordedIn(E, dottedKeyTables, PathOf(l)) /\ PathOf(l) \in Seq(Names)
        BY <2>0, <3>2, <4>1, <4>2, <1>0, PathType DEF Kept, Shaped, Rooted
      <4> QED BY <4>3, <1>6, RecordKeeps DEF passed
    <3> QED BY <2>2, <3>1, <3>2
  <2>3. ASSUME l \in s, Front(l) \notin s, e[l] # "scalar" PROVE RecordedIn(E, closed, PathOf(l))
    <3>1. CASE l \in sealed
      <4>1. l \in DOMAIN doc /\ Front(l) \notin sealed
        BY <2>3, <3>1, <1>9, <1>10
      <4>2. LiveIn(doc, l) /\ e[l] = doc[l]
        BY <4>1, <1>8, <1>11
      <4>3. RecordedIn(E, closedInlineTables, PathOf(l)) /\ PathOf(l) \in Seq(Names)
        BY <2>0, <2>3, <3>1, <4>1, <4>2, <1>0, PathType DEF Kept, Shaped, Rooted
      <4> QED BY <4>3, <1>6, RecordKeeps DEF closed
    <3>2. CASE l \in added
      <4>1. l = loc
        BY <2>3, <3>2, <1>4, <1>9
      <4>2. value[<< >>] # "scalar" /\ << >> \in DOMAIN value
        BY <2>3, <4>1, <1>4 DEF IsTree
      <4>3. path \o PathOf(<< >>) \in ValuePaths(path, value)
        <5>1. \A i \in 2..Len(<< >>) : << >>[i] \in Names \/ << >>[i - 1] \in Names
          OBVIOUS
        <5> QED BY <4>2, <5>1 DEF ValuePaths
      <4>4. path \o PathOf(<< >>) = path
        <5>1. path \o << >> = path
          BY <1>5
        <5> QED BY <5>1, PathEmpty
      <4>5. PathOf(l) \in ValuePaths(path, value) /\ PathOf(l) \in Seq(Names)
        BY <4>1, <4>3, <4>4, <1>1, <1>5
      <4> QED BY <4>5, <1>6, RecordKeeps DEF closed
    <3> QED BY <2>3, <3>1, <3>2, <1>9
  <2>4. ASSUME e[l] = "array", l \notin s PROVE Encode(PathOf(l)) \in DOMAIN E
    <3>1. l \in DOMAIN doc /\ l \notin sealed
      BY <2>4, <1>2, <1>4, <1>9
    <3>2. LiveIn(doc, l) /\ e[l] = doc[l]
      BY <3>1, <1>8, <1>11
    <3> QED BY <2>0, <2>4, <3>1, <3>2 DEF Kept
  <2> QED BY <2>1, <2>2, <2>3, <2>4
<1>17. loc \in DOMAIN e
  BY <1>4
<1> QED BY <1>4, <1>6, <1>13, <1>14, <1>15, <1>16, <1>17 DEF s, between, passed, closed, loc, path

-----------------------------------------------------------------------------
(* The invariant holds, step by step.                                      *)

LEMMA InitInv == Init => IInv
<1> SUFFICES ASSUME Init PROVE IInv
  OBVIOUS
<1> USE DEF Init
<1>1. DOMAIN doc = {<< >>} /\ doc[<< >>] = "table" /\ << >> \in Seq(Steps)
  OBVIOUS
<1>2. Shaped(doc, sealed)
  <2>1. IsFiniteSet({<< >>})
    BY FS_Singleton
  <2>2. Rooted(doc, sealed)
    BY <1>1, <2>1 DEF Rooted
  <2>3. Nested(doc, sealed) /\ ValuesNamed(doc, sealed) /\ Counted(doc, sealed)
    BY <1>1 DEF Nested, ValuesNamed, Counted
  <2> QED BY <2>2, <2>3 DEF Shaped
<1>3. Kept(doc, sealed, opened, dotted, arrayTableEpochs,
           declaredTables, dottedKeyTables, closedInlineTables)
  BY <1>1 DEF Kept
<1>4. TableAt(doc, sealed, current, currentPath)
  BY <1>1, LiveRoot, PathEmpty DEF TableAt
<1>5. MarkedIn(doc, sealed, opened, dotted) /\ AskedIn(filter, doc, sealed)
  BY <1>1 DEF MarkedIn, AskedIn
<1>6. Bookkeeping
  BY <1>3, BookkeepingEq
<1>7. TypeOK
  <2>1. DOMAIN declaredTables = {} /\ DOMAIN dottedKeyTables = {}
        /\ DOMAIN closedInlineTables = {} /\ DOMAIN arrayTableEpochs = {}
    OBVIOUS
  <2>2. \A t \in {declaredTables, dottedKeyTables, closedInlineTables} :
           \A e \in DOMAIN t : t[e] \in Contexts
    BY <2>1
  <2>3. \A e \in arrayTables : arrayTableEpochs[e] \in 1..MaxEpoch
    BY <2>1 DEF arrayTables
  <2>4. current \in DOMAIN doc /\ currentPath = PathOf(current) /\ current = << >>
    BY <1>1, <1>4 DEF TableAt
  <2>5. inTable \in BOOLEAN /\ filter \in Filters
    OBVIOUS
  <2>6. << >> \in DOMAIN doc /\ \A l \in DOMAIN doc : doc[l] \in {"table", "array", "scalar"}
    BY <1>1
  <2>7. opened \cup dotted \cup sealed \subseteq DOMAIN doc
    OBVIOUS
  <2> QED BY ONLY <2>2, <2>3, <2>4, <2>5, <2>6, <2>7, Zenon DEF TypeOK
<1> QED BY <1>2, <1>4, <1>5, <1>6, <1>7 DEF IInv

LEMMA SameInTable ==
  ASSUME IInv, UNCHANGED <<inTable, current>>
  PROVE  inTable' \in BOOLEAN /\ (current' # << >> => inTable')
<1>1. inTable \in BOOLEAN /\ (current # << >> => inTable)
  BY DEF IInv, TypeOK
<1>2. inTable' = inTable /\ current' = current
  OBVIOUS
<1>3. CASE inTable = TRUE
  <2>1. inTable' = TRUE
    BY <1>2, <1>3
  <2> QED BY ONLY <2>1
<1>4. CASE inTable = FALSE
  <2>1. inTable' = FALSE
    BY <1>2, <1>4
  <2>2. current' = << >>
    BY <1>1, <1>2, <1>4
  <2> QED BY ONLY <2>1, <2>2
<1>5. inTable = TRUE \/ inTable = FALSE
  BY <1>1
<1> QED BY <1>3, <1>4, <1>5

\* What no statement changes.
LEMMA SameInv ==
  ASSUME IInv, UNCHANGED <<filter, doc, current, currentPath, tables, arrayTableEpochs,
                           inTable, history>>
  PROVE  IInv'
<1>1. /\ Kept(doc', sealed', opened', dotted', arrayTableEpochs',
              declaredTables', dottedKeyTables', closedInlineTables')
      /\ filter' \in Filters /\ Epochs(arrayTableEpochs')
      /\ Typed(arrayTableEpochs', declaredTables') /\ Typed(arrayTableEpochs', dottedKeyTables')
      /\ Typed(arrayTableEpochs', closedInlineTables')
  BY Parts DEF tables, history
<1>2. /\ Shaped(doc', sealed') /\ MarkedIn(doc', sealed', opened', dotted')
      /\ AskedIn(filter', doc', sealed')
      /\ current' = Nowhere \/ TableAt(doc', sealed', current', currentPath')
  BY DEF IInv, tables, history
<1>3. inTable' \in BOOLEAN /\ (current' # << >> => inTable')
  BY SameInTable DEF history
<1> QED BY <1>1, <1>2, <1>3, Whole

\* A section the destination does not ask for, counted or not.
LEMMA SkipInv ==
  ASSUME IInv, SkipSection, Epochs(arrayTableEpochs'),
         Kept(doc, sealed, opened, dotted, arrayTableEpochs',
              declaredTables, dottedKeyTables, closedInlineTables),
         \A table : Typed(arrayTableEpochs, table) => Typed(arrayTableEpochs', table)
  PROVE  IInv'
<1> USE DEF SkipSection, tables, history
<1>1. /\ Kept(doc', sealed', opened', dotted', arrayTableEpochs',
              declaredTables', dottedKeyTables', closedInlineTables')
  OBVIOUS
<1>2. /\ filter' \in Filters
      /\ Typed(arrayTableEpochs', declaredTables') /\ Typed(arrayTableEpochs', dottedKeyTables')
      /\ Typed(arrayTableEpochs', closedInlineTables')
  BY Parts
<1>3. /\ Shaped(doc', sealed') /\ MarkedIn(doc', sealed', opened', dotted')
      /\ AskedIn(filter', doc', sealed')
  BY DEF IInv
<1>4. current' = Nowhere /\ inTable' \in BOOLEAN /\ (current' # << >> => inTable')
  OBVIOUS
<1> QED BY <1>1, <1>2, <1>3, <1>4, Whole

LEMMA TableHeaderInv ==
  ASSUME Plain, IInv, NEW path \in Seq(Names) \ {<< >>}, TableHeader(path)
  PROVE  IInv'
<1> DEFINE next == ensureTable(path)
<1>1. CASE Refuse("table", path)
  BY <1>1, SameInv DEF Refuse
<1>2. CASE SkipSection /\ UNCHANGED arrayTableEpochs
  <2>1. /\ Epochs(arrayTableEpochs')
        /\ Kept(doc, sealed, opened, dotted, arrayTableEpochs',
                declaredTables, dottedKeyTables, closedInlineTables)
        /\ \A table : Typed(arrayTableEpochs, table) => Typed(arrayTableEpochs', table)
    BY <1>2, Parts
  <2> QED BY <1>2, <2>1, SkipInv
<1>3. CASE /\ ~TableClash(path) /\ Known(path) /\ next # Nowhere
           /\ EnterSection(next, path)
           /\ declaredTables' = Record(declaredTables, {path})
           /\ UNCHANGED arrayTableEpochs
  <2>1. /\ Way(doc, sealed, next) /\ PathOf(next) = path
        /\ next # << >> /\ Last(next) \in Names /\ next \notin opened \cup dotted
    BY <1>3, HeaderMayOpen
  <2>2. /\ Kept(Grow(doc, next), sealed, opened \cup {next}, dotted, arrayTableEpochs,
                RecordIn(arrayTableEpochs, declaredTables, {path}),
                dottedKeyTables, closedInlineTables)
        /\ Shaped(Grow(doc, next), sealed)
        /\ MarkedIn(Grow(doc, next), sealed, opened \cup {next}, dotted)
        /\ AskedIn(filter, Grow(doc, next), sealed) /\ TableAt(Grow(doc, next), sealed, next, path)
    BY <1>3, <2>1, OpenKeeps
  <2>3. /\ doc' = Grow(doc, next) /\ current' = next /\ currentPath' = path /\ inTable' = TRUE
        /\ opened' = opened \cup {next} /\ dotted' = dotted /\ sealed' = sealed
        /\ filter' = filter /\ dottedKeyTables' = dottedKeyTables
        /\ closedInlineTables' = closedInlineTables /\ arrayTableEpochs' = arrayTableEpochs
        /\ declaredTables' = RecordIn(arrayTableEpochs, declaredTables, {path})
    BY <1>3, RecordEq DEF EnterSection
  <2>4. Typed(arrayTableEpochs, RecordIn(arrayTableEpochs, declaredTables, {path}))
    <3>1. {path} \subseteq Seq(Names)
      OBVIOUS
    <3> QED BY <3>1, Parts, RecordType
  <2>5. inTable' \in BOOLEAN /\ (current' # << >> => inTable')
    BY <2>3
  <2> HIDE DEF next
  <2>6. /\ Kept(doc', sealed', opened', dotted', arrayTableEpochs',
                declaredTables', dottedKeyTables', closedInlineTables')
        /\ Shaped(doc', sealed') /\ MarkedIn(doc', sealed', opened', dotted')
        /\ AskedIn(filter', doc', sealed') /\ TableAt(doc', sealed', current', currentPath')
    BY <2>2, <2>3
  <2>7. /\ filter' \in Filters /\ Epochs(arrayTableEpochs')
        /\ Typed(arrayTableEpochs', declaredTables') /\ Typed(arrayTableEpochs', dottedKeyTables')
        /\ Typed(arrayTableEpochs', closedInlineTables')
    BY <2>3, <2>4, Parts
  <2> QED BY <2>5, <2>6, <2>7, Whole
<1> QED BY <1>1, <1>2, <1>3 DEF TableHeader

LEMMA ArrayTableHeaderInv ==
  ASSUME Plain, IInv, NEW path \in Seq(Names) \ {<< >>}, ArrayTableHeader(path)
  PROVE  IInv'
<1> DEFINE next == appendArrayTable(path)
           E == arrayTableEpochs
           F == CountIn(E, path)
<1>1. CASE Refuse("array", path)
  BY <1>1, SameInv DEF Refuse
<1>2. Epochs(E) /\ (Encode(path) \in DOMAIN E => E[Encode(path)] < MaxEpoch)
  BY Parts DEF ArrayTableHeader, arrayTables
<1>3. Epochs(F) /\ \A table : Typed(E, table) => Typed(F, table)
  <2>1. Counts(E, path, F)
    BY <1>2 DEF Counts
  <2> HIDE DEF F
  <2> QED BY ONLY <2>1, CountType
<1>4. CountElement(path) <=> arrayTableEpochs' = F
  BY DEF CountElement, CountIn, arrayTables
<1> HIDE DEF F
<1>5. CASE ~Known(path) /\ SkipSection /\ CountElement(path)
  <2>1. Kept(doc, sealed, opened, dotted, F, declaredTables, dottedKeyTables, closedInlineTables)
    BY <1>2, <1>5, SkipKeeps DEF F
  <2> QED BY <1>3, <1>4, <1>5, <2>1, SkipInv
<1>6. CASE /\ ~ArrayClash(path) /\ Known(path) /\ next # Nowhere
           /\ EnterSection(next, path) /\ CountElement(path) /\ UNCHANGED declaredTables
  <2> DEFINE parent == ensureTable(Front(path))
             slot == Append(parent, Last(path))
             e == Grow(doc, next)
  <2>1. Lengthened(doc, sealed, parent, Last(path), slot, next, e) /\ PathOf(slot) = path
    <3>1. IInv /\ Headed(path, parent, slot, next)
      BY <1>6 DEF Headed
    <3>2. e = Grow(doc, next)
      OBVIOUS
    <3> HIDE DEF parent, slot, next, e
    <3>3. Lengthened(doc, sealed, parent, Last(path), slot, next, Grow(doc, next))
          /\ PathOf(slot) = path
      BY ONLY <3>1, <3>2, HeaderMayAppend
    <3> QED BY ONLY <3>2, <3>3
  <2>2. /\ Kept(e, sealed, opened \cup {next}, dotted, F,
                declaredTables, dottedKeyTables, closedInlineTables)
        /\ Shaped(e, sealed) /\ MarkedIn(e, sealed, opened \cup {next}, dotted)
        /\ AskedIn(filter, e, sealed) /\ TableAt(e, sealed, next, path)
    <3> HIDE DEF next, e, slot
    <3> QED BY <1>2, <1>6, <2>1, AppendKeeps DEF F
  <2>3. /\ doc' = e /\ current' = next /\ currentPath' = path /\ inTable' = TRUE
        /\ opened' = opened \cup {next} /\ dotted' = dotted /\ sealed' = sealed
        /\ filter' = filter /\ dottedKeyTables' = dottedKeyTables
        /\ closedInlineTables' = closedInlineTables /\ arrayTableEpochs' = F
        /\ declaredTables' = declaredTables
    BY <1>4, <1>6 DEF EnterSection
  <2>5. inTable' \in BOOLEAN /\ (current' # << >> => inTable')
    BY <2>3
  <2> HIDE DEF next, e
  <2>6. /\ Kept(doc', sealed', opened', dotted', arrayTableEpochs',
                declaredTables', dottedKeyTables', closedInlineTables')
        /\ Shaped(doc', sealed') /\ MarkedIn(doc', sealed', opened', dotted')
        /\ AskedIn(filter', doc', sealed') /\ TableAt(doc', sealed', current', currentPath')
    BY <2>2, <2>3
  <2>7. /\ filter' \in Filters /\ Epochs(arrayTableEpochs')
        /\ Typed(arrayTableEpochs', declaredTables') /\ Typed(arrayTableEpochs', dottedKeyTables')
        /\ Typed(arrayTableEpochs', closedInlineTables')
    BY <1>3, <2>3, Parts
  <2> QED BY <2>5, <2>6, <2>7, Whole
<1> QED BY <1>1, <1>5, <1>6 DEF ArrayTableHeader

LEMMA KeyValueInv ==
  ASSUME Plain, IInv, NEW key \in Seq(Names) \ {<< >>}, NEW value, IsTree(value),
         KeyValue(key, value)
  PROVE  IInv'
<1>1. CASE UNCHANGED vars
  <2>1. UNCHANGED <<filter, doc, current, currentPath, tables, arrayTableEpochs, inTable, history>>
    BY <1>1 DEF vars, tables, history
  <2> QED BY <2>1, SameInv
<1>2. CASE Refuse("key", key)
  BY <1>2, SameInv DEF Refuse
<1>3. CASE /\ current # Nowhere /\ Known(currentPath \o key)
           /\ ~KeyClash(key) /\ AssignUnique(current \o key)
           /\ doc' = Put(Grow(doc, Front(current \o key)), current \o key, value)
           /\ dottedKeyTables' = Record(dottedKeyTables, Inner(key))
           /\ closedInlineTables' = Record(closedInlineTables, ValuePaths(currentPath \o key, value))
           /\ dotted' = dotted \cup {current \o SubSeq(key, 1, i) : i \in 1..Len(key) - 1}
           /\ sealed' = sealed \cup {current \o key \o l : l \in DOMAIN value}
           /\ UNCHANGED <<filter, current, currentPath, declaredTables,
                          arrayTableEpochs, inTable, result, opened>>
  <2> DEFINE k == Front(current \o key)
             f == Grow(doc, k)
             added == {current \o key \o l : l \in DOMAIN value}
             e == Put(f, current \o key, value)
             E == arrayTableEpochs
  <2>1. /\ Kept(e, sealed \cup added, opened, dotted \cup Between(current, key), E,
                declaredTables, RecordIn(E, dottedKeyTables, Inner(key)),
                RecordIn(E, closedInlineTables, ValuePaths(currentPath \o key, value)))
        /\ Shaped(e, sealed \cup added)
        /\ MarkedIn(e, sealed \cup added, opened, dotted \cup Between(current, key))
        /\ AskedIn(filter, e, sealed \cup added)
        /\ TableAt(e, sealed \cup added, current, currentPath)
        /\ Inner(key) \subseteq Seq(Names) /\ ValuePaths(currentPath \o key, value) \subseteq Seq(Names)
    <3>1. /\ Plain /\ IInv /\ current # Nowhere /\ key \in Seq(Names) /\ key # << >>
          /\ Known(currentPath \o key) /\ ~KeyClash(key) /\ AssignUnique(current \o key)
          /\ IsTree(value)
      BY <1>3
    <3>2. k = Front(current \o key) /\ f = Grow(doc, k) /\ e = Put(f, current \o key, value)
          /\ added = {current \o key \o l : l \in DOMAIN value}
      OBVIOUS
    <3> HIDE DEF k, f, added, e
    <3> QED BY ONLY <3>1, <3>2, KeyKeeps
  <2>2. /\ doc' = e /\ sealed' = sealed \cup added /\ opened' = opened
        /\ dotted' = dotted \cup Between(current, key)
        /\ declaredTables' = declaredTables /\ arrayTableEpochs' = E
        /\ dottedKeyTables' = RecordIn(E, dottedKeyTables, Inner(key))
        /\ closedInlineTables' =
             RecordIn(E, closedInlineTables, ValuePaths(currentPath \o key, value))
        /\ filter' = filter /\ current' = current /\ currentPath' = currentPath
        /\ UNCHANGED inTable
    <3>1. /\ Record(dottedKeyTables, Inner(key)) = RecordIn(E, dottedKeyTables, Inner(key))
          /\ Record(closedInlineTables, ValuePaths(currentPath \o key, value))
               = RecordIn(E, closedInlineTables, ValuePaths(currentPath \o key, value))
      BY RecordEq
    <3>2. {current \o SubSeq(key, 1, i) : i \in 1..Len(key) - 1} = Between(current, key)
      BY DEF Between
    <3> HIDE DEF e, added
    <3>3. doc' = e /\ sealed' = sealed \cup added
      BY <1>3 DEF e, added
    <3> QED BY <1>3, <3>1, <3>2, <3>3
  <2>3. Typed(E, RecordIn(E, dottedKeyTables, Inner(key)))
        /\ Typed(E, RecordIn(E, closedInlineTables, ValuePaths(currentPath \o key, value)))
    <3> HIDE DEF k, f, added, e
    <3> QED BY <2>1, Parts, RecordType
  <2> HIDE DEF k, f, added, e
  <2>4. /\ Kept(doc', sealed', opened', dotted', arrayTableEpochs',
                declaredTables', dottedKeyTables', closedInlineTables')
        /\ Shaped(doc', sealed') /\ MarkedIn(doc', sealed', opened', dotted')
        /\ AskedIn(filter', doc', sealed') /\ TableAt(doc', sealed', current', currentPath')
    BY <2>1, <2>2
  <2>5. /\ filter' \in Filters /\ Epochs(arrayTableEpochs')
        /\ Typed(arrayTableEpochs', declaredTables') /\ Typed(arrayTableEpochs', dottedKeyTables')
        /\ Typed(arrayTableEpochs', closedInlineTables')
    BY <2>2, <2>3, Parts
  <2>6. inTable' \in BOOLEAN /\ (current' # << >> => inTable')
    BY <2>2, SameInTable
  <2> QED BY <2>4, <2>5, <2>6, Whole
<1> QED BY <1>1, <1>2, <1>3 DEF KeyValue

LEMMA NextInv ==
  ASSUME Plain, IInv, [Next]_vars PROVE IInv'
<1>0. /\ HeaderPaths \cup KeyPaths \subseteq Seq(Names) \ {<< >>}
      /\ \A value \in Values : IsTree(value)
  BY TreeAssumption
<1>1. CASE UNCHANGED vars
  BY <1>1, SameInv DEF vars
<1>2. ASSUME NEW path \in HeaderPaths, TableHeader(path) PROVE IInv'
  BY <1>0, <1>2, TableHeaderInv
<1>3. ASSUME NEW path \in HeaderPaths, ArrayTableHeader(path) PROVE IInv'
  BY <1>0, <1>3, ArrayTableHeaderInv
<1>4. ASSUME NEW key \in KeyPaths, NEW value \in Values, KeyValue(key, value) PROVE IInv'
  BY <1>0, <1>4, KeyValueInv
<1>5. CASE StrayToken
  <2>1. UNCHANGED <<filter, doc, current, currentPath, tables, arrayTableEpochs, inTable, history>>
    BY <1>5 DEF StrayToken, Refuse, vars
  <2> QED BY <2>1, SameInv
<1>6. CASE EndOfDocument
  BY <1>6, SameInv DEF EndOfDocument
<1> QED BY <1>1, <1>2, <1>3, <1>4, <1>5, <1>6 DEF Next

-----------------------------------------------------------------------------
(* The statements do to the tree what TomlTree allows.                     *)

\* The tree's operators are those of the document.
LEMMA TreeOps ==
  /\ \A l : Tree!Prefixes(l) = Prefixes(l) /\ Tree!Last(l) = Last(l) /\ Tree!Front(l) = Front(l)
  /\ \A k, l : Tree!KindOnWay(k, l) = KindOnWay(k, l)
  /\ \A k, l : Tree!IsStrictPrefix(k, l) <=> IsStrictPrefix(k, l)
  /\ \A d, l : Tree!Size(d, l) = Size(d, l) /\ Tree!Grow(d, l) = Grow(d, l)
  /\ \A d, l, v : Tree!Put(d, l, v) = Put(d, l, v)
<1>1. \A l : Tree!Prefixes(l) = Prefixes(l)
  BY DEF Tree!Prefixes, Prefixes
<1>2. \A l : Tree!Last(l) = Last(l) /\ Tree!Front(l) = Front(l)
  BY DEF Tree!Last, Last, Tree!Front, Front
<1>3. \A k, l : Tree!KindOnWay(k, l) = KindOnWay(k, l)
  BY DEF Tree!KindOnWay, KindOnWay
<1>4. \A k, l : Tree!IsStrictPrefix(k, l) <=> IsStrictPrefix(k, l)
  BY DEF Tree!IsStrictPrefix, IsStrictPrefix, Tree!IsPrefix, IsPrefix
<1>5. \A d, l : Tree!Size(d, l) = Size(d, l)
  <2>1. \A d, k : Tree!Children(d, k) = Children(d, k)
    BY DEF Tree!Children, Children, Tree!Front, Front
  <2>2. \A S : Tree!Cardinality(S) = Cardinality(S)
    BY DEF Tree!Cardinality, Cardinality
  <2> QED BY <2>1, <2>2 DEF Tree!Size, Size
<1>6. \A d, l : Tree!Grow(d, l) = Grow(d, l)
  BY <1>1, <1>3 DEF Tree!Grow, Grow
<1>7. \A d, l, v : Tree!Put(d, l, v) = Put(d, l, v)
  BY DEF Tree!Put, Put
<1> QED BY <1>1, <1>2, <1>3, <1>4, <1>5, <1>6, <1>7

LEMMA TreeInit == Init => Tree!Init
BY DEF Init, Tree!Init

\* Where the tree stays the same.
LEMMA TreeSame ==
  ASSUME UNCHANGED <<doc, current, history>> PROVE [Tree!Next]_(Tree!vars)
BY DEF Tree!vars, history

LEMMA TreeSkip ==
  ASSUME SkipSection PROVE [Tree!Next]_(Tree!vars)
<1>1. Tree!LeaveTable
  BY DEF Tree!LeaveTable, SkipSection, history
<1> QED BY <1>1 DEF Tree!Next

LEMMA TreeOpens ==
  ASSUME Plain, IInv, NEW path \in Seq(Names) \ {<< >>}, TableHeader(path)
  PROVE  [Tree!Next]_(Tree!vars)
<1> DEFINE next == ensureTable(path)
<1>1. CASE Refuse("table", path)
  BY <1>1, TreeSame DEF Refuse
<1>2. CASE SkipSection
  BY <1>2, TreeSkip
<1>3. CASE /\ ~TableClash(path) /\ Known(path) /\ next # Nowhere
           /\ EnterSection(next, path)
  <2>1. /\ Way(doc, sealed, next) /\ PathOf(next) = path
        /\ next # << >> /\ Last(next) \in Names /\ next \notin opened \cup dotted
    BY <1>3, HeaderMayOpen
  <2> HIDE DEF next
  <2>2. Tree!Live(next) /\ Tree!Clear(next)
    BY <2>1, LiveEq, TreeOps DEF Way, Tree!Clear
  <2>3. Tree!MayOpen(next)
    BY <2>1, <2>2, TreeOps DEF Tree!MayOpen
  <2>4. Tree!OpenTable(next)
    BY <1>3, <2>3, TreeOps DEF Tree!OpenTable, EnterSection
  <2>5. next \in DOMAIN doc'
    <3>1. next \in Prefixes(next)
      BY <2>1, PrefixFacts DEF Way
    <3>2. DOMAIN Grow(doc, next) = DOMAIN doc \cup Prefixes(next)
      BY DEF Grow
    <3> QED BY <1>3, <3>1, <3>2 DEF EnterSection
  <2> QED BY <2>4, <2>5 DEF Tree!Next
<1> QED BY <1>1, <1>2, <1>3 DEF TableHeader

LEMMA TreeAppends ==
  ASSUME Plain, IInv, NEW path \in Seq(Names) \ {<< >>}, ArrayTableHeader(path)
  PROVE  [Tree!Next]_(Tree!vars)
<1> DEFINE next == appendArrayTable(path)
<1>1. CASE Refuse("array", path)
  BY <1>1, TreeSame DEF Refuse
<1>2. CASE SkipSection
  BY <1>2, TreeSkip
<1>3. CASE /\ ~ArrayClash(path) /\ Known(path) /\ next # Nowhere
           /\ EnterSection(next, path)
  <2> DEFINE parent == ensureTable(Front(path))
             slot == Append(parent, Last(path))
             e == Grow(doc, next)
  <2>1. IInv /\ Headed(path, parent, slot, next)
    BY <1>3 DEF Headed
  <2>2. EnterSection(next, path) /\ e = Grow(doc, next)
    BY <1>3
  <2> HIDE DEF parent, slot, next, e
  <2>3. Lengthened(doc, sealed, parent, Last(path), slot, next, e)
    BY ONLY <2>1, <2>2, HeaderMayAppend
  <2>4. LengthenedTo(doc, sealed, parent, Last(path), slot, next, e)
    BY ONLY <2>3, GrowElement
  <2>5. Len(next) > 1 /\ Last(next) = Size(doc, slot) + 1 /\ Front(next) = slot
    <3>1. slot = Append(parent, Last(path)) /\ parent \in Seq(Steps) /\ Last(path) \in Steps
      BY <2>3, <2>4 DEF Lengthened, LengthenedTo, Steps
    <3>2. next = Append(slot, Size(doc, slot) + 1) /\ slot \in Seq(Steps)
          /\ Size(doc, slot) + 1 \in Steps
      <4>1. Size(doc, slot) \in Nat
        <5>1. IsFiniteSet(DOMAIN doc)
          BY <2>3 DEF Lengthened, Shaped, Rooted
        <5> QED BY <5>1, SizeType
      <4> QED BY <4>1, <2>3, <2>4 DEF Lengthened, LengthenedTo, Steps
    <3>3. Len(slot) = Len(parent) + 1 /\ Len(parent) \in Nat
      BY <3>1, OneStep
    <3>4. Len(next) = Len(slot) + 1 /\ Last(next) = Size(doc, slot) + 1 /\ Front(next) = slot
      BY <3>2, OneStep
    <3> HIDE DEF Size
    <3>5. Len(next) > 1
      BY <3>3, <3>4
    <3> QED BY <3>4, <3>5
  <2>6. Tree!Live(Front(next)) /\ Tree!Clear(next)
    BY <2>4, LiveEq, TreeOps DEF LengthenedTo, Tree!Clear
  <2>7. Tree!MayAppend(next)
    BY <2>5, <2>6, TreeOps DEF Tree!MayAppend
  <2>8. Tree!AppendElement(next)
    BY <2>2, <2>7, TreeOps DEF Tree!AppendElement, EnterSection
  <2>9. next \in DOMAIN doc'
    BY <2>2, <2>4 DEF EnterSection, LengthenedTo
  <2> QED BY <2>8, <2>9 DEF Tree!Next
<1> QED BY <1>1, <1>2, <1>3 DEF ArrayTableHeader

LEMMA TreeAssigns ==
  ASSUME Plain, IInv, NEW key \in Seq(Names) \ {<< >>}, NEW value \in Values, IsTree(value),
         KeyValue(key, value)
  PROVE  [Tree!Next]_(Tree!vars)
<1>1. CASE UNCHANGED vars
  BY <1>1, TreeSame DEF vars
<1>2. CASE Refuse("key", key)
  BY <1>2, TreeSame DEF Refuse
<1>3. CASE /\ current # Nowhere /\ Known(currentPath \o key)
           /\ ~KeyClash(key) /\ AssignUnique(current \o key)
           /\ doc' = Put(Grow(doc, Front(current \o key)), current \o key, value)
           /\ dotted' = dotted \cup {current \o SubSeq(key, 1, i) : i \in 1..Len(key) - 1}
           /\ sealed' = sealed \cup {current \o key \o l : l \in DOMAIN value}
           /\ UNCHANGED <<current, opened>>
  <2> DEFINE loc == current \o key
             k == Front(loc)
             f == Grow(doc, k)
             added == {current \o key \o l : l \in DOMAIN value}
             e == Put(f, loc, value)
  <2>0. /\ Plain /\ IInv /\ current # Nowhere /\ key \in Seq(Names) /\ key # << >>
        /\ Known(currentPath \o key) /\ ~KeyClash(key) /\ AssignUnique(current \o key)
        /\ IsTree(value)
    BY <1>3
  <2>1. current \in Seq(Steps)
    BY <2>0, KeyMayAssign
  <2>2. Prefixes(loc) \ (Prefixes(current) \cup {loc}) = Between(current, key)
        /\ IsStrictPrefix(current, loc)
    BY <2>0, <2>1, BetweenEq
  <2>3. loc \notin DOMAIN doc
    BY <2>0 DEF AssignUnique
  <2>4. ASSUME NEW l \in Between(current, key)
        PROVE  l \notin opened \cup sealed /\ (l \in DOMAIN doc => doc[l] = "table")
    <3>1. PICK i \in 1 .. Len(key) - 1 : l = current \o SubSeq(key, 1, i)
      BY <2>4 DEF Between
    <3>2. i \in 0 .. Len(key) - 1 /\ i # 0
      BY <2>0
    <3>3. Way(doc, sealed, l) /\ l \notin opened
      BY <2>0, <3>1, <3>2, KeyMayPass DEF MayPass
    <3>4. l \in Seq(Steps) /\ l \in Prefixes(l)
      BY <3>3, PrefixFacts DEF Way
    <3>5. KindOnWay(l, l) = "table"
      BY <3>4 DEF KindOnWay
    <3> QED BY <3>3, <3>4, <3>5 DEF Way
  <2>5. Tree!MayAssign(loc)
    BY <2>0, <2>2, <2>3, <2>4, TreeOps DEF Tree!MayAssign
  <2>6. dotted' = dotted \cup Between(current, key)
    BY <1>3 DEF Between
  <2>7. Tree!Assign(loc, value)
    <3>1. doc' = Tree!Put(Tree!Grow(doc, Tree!Front(loc)), loc, value)
      BY <1>3, TreeOps
    <3>2. Tree!Prefixes(loc) \ (Tree!Prefixes(current) \cup {loc}) = Between(current, key)
      BY <2>2, TreeOps
    <3>3. sealed' = sealed \cup {loc \o l : l \in DOMAIN value}
      BY <1>3
    <3> HIDE DEF loc
    <3> QED BY <1>3, <2>5, <2>6, <3>1, <3>2, <3>3 DEF Tree!Assign
  <2>8. loc \in DOMAIN doc'
    <3>1. k = Front(current \o key) /\ f = Grow(doc, k) /\ e = Put(f, current \o key, value)
          /\ added = {current \o key \o l : l \in DOMAIN value}
      OBVIOUS
    <3>2. doc' = e
      BY <1>3
    <3> HIDE DEF k, f, added, e
    <3>3. current \o key \in DOMAIN e
      BY ONLY <2>0, <3>1, KeyKeeps
    <3> QED BY <3>2, <3>3
  <2> HIDE DEF loc
  <2> QED BY <2>7, <2>8 DEF Tree!Next
<1> QED BY <1>1, <1>2, <1>3 DEF KeyValue

LEMMA TreeNext ==
  ASSUME Plain, IInv, [Next]_vars PROVE [Tree!Next]_(Tree!vars)
<1>0. /\ HeaderPaths \cup KeyPaths \subseteq Seq(Names) \ {<< >>}
      /\ \A value \in Values : IsTree(value)
  BY TreeAssumption
<1>1. CASE UNCHANGED vars
  BY <1>1, TreeSame DEF vars
<1>2. ASSUME NEW path \in HeaderPaths, TableHeader(path) PROVE [Tree!Next]_(Tree!vars)
  BY <1>0, <1>2, TreeOpens
<1>3. ASSUME NEW path \in HeaderPaths, ArrayTableHeader(path) PROVE [Tree!Next]_(Tree!vars)
  BY <1>0, <1>3, TreeAppends
<1>4. ASSUME NEW key \in KeyPaths, NEW value \in Values, KeyValue(key, value)
      PROVE  [Tree!Next]_(Tree!vars)
  BY <1>0, <1>4, TreeAssigns
<1>5. CASE StrayToken
  <2>1. UNCHANGED <<doc, current, history>>
    BY <1>5 DEF StrayToken, Refuse, vars
  <2> QED BY <2>1, TreeSame
<1>6. CASE EndOfDocument
  BY <1>6, TreeSame DEF EndOfDocument
<1> QED BY <1>1, <1>2, <1>3, <1>4, <1>5, <1>6 DEF Next
-----------------------------------------------------------------------------
(* What the walk to a table meets.                                         *)

\* What is on the way to something on the way is on the way.
LEMMA PrefixTrans ==
  ASSUME NEW A, NEW l \in Seq(A), NEW m \in Prefixes(l) PROVE Prefixes(m) \subseteq Prefixes(l)
<1> DEFINE T == {k \in Seq(A) : \A j \in Prefixes(k) : Prefixes(j) \subseteq Prefixes(k)}
<1>1. << >> \in T
  BY PrefixesOfEmpty
<1>2. ASSUME NEW k \in Seq(A), NEW x \in A, k \in T PROVE Append(k, x) \in T
  <2>1. Append(k, x) \in Seq(A) /\ Prefixes(Append(k, x)) = Prefixes(k) \cup {Append(k, x)}
    BY Appended, PrefixesStep
  <2> QED BY <1>2, <2>1
<1>3. Seq(A) \subseteq T
  <2> HIDE DEF T
  <2> QED BY <1>1, <1>2, InductSeq
<1> QED BY <1>3

\* Where the walk of ensureTableRaw ends is under the path, and below where it was before.
LEMMA Meant ==
  ASSUME Shaped(doc, sealed), NEW path \in Seq(Names), ensureTable(path) # Nowhere
  PROVE  /\ ensureTable(path) \in Seq(Steps) /\ PathOf(ensureTable(path)) = path
         /\ \A q \in Prefixes(path) : /\ ensureTable(q) # Nowhere
                                      /\ ensureTable(q) \in Prefixes(ensureTable(path))
<1> DEFINE Good(p) == /\ ensureTable(p) \in Seq(Steps) /\ PathOf(ensureTable(p)) = p
                      /\ \A q \in Prefixes(p) : /\ ensureTable(q) # Nowhere
                                                /\ ensureTable(q) \in Prefixes(ensureTable(p))
           T == {p \in Seq(Names) : ensureTable(p) # Nowhere => Good(p)}
<1>0. DOMAIN doc \subseteq Seq(Steps) /\ IsFiniteSet(DOMAIN doc)
  BY DEF Shaped, Rooted
<1>1. << >> \in T
  <2>1. ensureTable(<< >>) = << >> /\ << >> \in Seq(Steps) /\ PathOf(<< >>) = << >>
        /\ Prefixes(<< >>) = {<< >>}
    BY <1>0, TableEmpty, PathEmpty, PrefixesOfEmpty
  <2>2. Nowhere \notin Seq(Steps)
    BY TreeAssumption DEF Steps
  <2>3. Good(<< >>)
    BY <2>1, <2>2
  <2>4. << >> \in Seq(Names)
    OBVIOUS
  <2> HIDE DEF Good
  <2> QED BY <2>3, <2>4
<1>2. ASSUME NEW p \in Seq(Names), NEW x \in Names, p \in T PROVE Append(p, x) \in T
  <2> DEFINE r == Append(p, x)
             k == ensureTable(p)
             slot == Append(k, x)
             last == Append(slot, Size(doc, slot))
  <2>0. r \in Seq(Names) /\ Prefixes(r) = Prefixes(p) \cup {r}
    BY Appended, PrefixesStep
  <2> SUFFICES ASSUME ensureTable(r) # Nowhere PROVE Good(r)
    BY <2>0
  <2>1. k # Nowhere /\ ensureTable(r) = Enter(k, x)
    BY <1>0, TableStep DEF Further
  <2>2. Good(p)
    BY <2>1, <1>2
  <2>3. x \in Steps /\ k \in Seq(Steps)
    BY <2>2 DEF Steps
  <2>4. /\ slot \in Seq(Steps) /\ Prefixes(slot) = Prefixes(k) \cup {slot}
        /\ PathOf(slot) = Append(PathOf(k), x)
    BY <2>3, OneStep, PathStep DEF Longer
  <2>5. Size(doc, slot) \in Steps /\ Size(doc, slot) \notin Names
    BY <1>0, SizeType
  <2>6. /\ last \in Seq(Steps) /\ Prefixes(last) = Prefixes(slot) \cup {last}
        /\ PathOf(last) = PathOf(slot)
    <3> HIDE DEF slot
    <3> QED BY <2>4, <2>5, OneStep, PathStep DEF Longer
  <2>7. ensureTable(r) = slot \/ ensureTable(r) = last
    BY <2>1 DEF Enter
  <2>8. /\ ensureTable(r) \in Seq(Steps) /\ PathOf(ensureTable(r)) = r
        /\ Prefixes(k) \subseteq Prefixes(ensureTable(r))
    <3> HIDE DEF slot, last
    <3> QED BY <2>2, <2>4, <2>6, <2>7
  <2>9. ensureTable(r) \in Prefixes(ensureTable(r))
    BY <2>8, PrefixFacts
  <2> HIDE DEF r, k
  <2>10. \A q \in Prefixes(r) : ensureTable(q) # Nowhere /\ ensureTable(q) \in Prefixes(ensureTable(r))
    BY <2>0, <2>2, <2>8, <2>9 DEF k
  <2> QED BY <2>8, <2>10
<1>3. Seq(Names) \subseteq T
  <2> HIDE DEF T
  <2> QED BY <1>1, <1>2, InductSeq
<1> QED BY <1>3

\* With one element in every array of tables, whatever is no part of a value can be reached.
Single(d, s) == \A l \in DOMAIN d \ s : d[l] = "array" => Size(d, l) <= 1

LEMMA SingleLive ==
  ASSUME NEW d, NEW s, Shaped(d, s), Single(d, s), NEW l \in DOMAIN d, Outer(d, s, l)
  PROVE  LiveIn(d, l)
<1>0. l \in Seq(Steps)
  BY DEF Shaped, Rooted
<1> SUFFICES ASSUME NEW i \in DOMAIN l, l[i] \notin Names
             PROVE  l[i] = Size(d, SubSeq(l, 1, i - 1))
  BY DEF LiveIn
<1> DEFINE m == SubSeq(l, 1, i)
           k == SubSeq(l, 1, i - 1)
<1>1. i \in 0..Len(l) /\ i # 0 /\ Len(l) \in Nat
  BY <1>0
<1>2. m \in Prefixes(l) /\ m \in Seq(Steps) /\ m # << >> /\ Last(m) = l[i] /\ Front(m) = k
  BY <1>0, <1>1, PrefixAt
<1> HIDE DEF m
<1>3. k \in Prefixes(l) /\ Len(k) = i - 1
  <2>1. i - 1 \in 0..Len(l)
    BY <1>1
  <2> QED BY <1>0, <2>1, PrefixAt
<1>4. k # l
  BY <1>1, <1>3
<1> HIDE DEF k
<1>5. k \in DOMAIN d \ s /\ d[k] = KindOnWay(k, l)
  BY <1>3, <1>4, OnTheWay
<1>6. d[k] = "array"
  BY <1>0, <1>2, <1>5, KindAt
<1>7. Children(d, k) = {Append(k, j) : j \in 1 .. Size(d, k)}
  BY <1>5, <1>6 DEF Shaped, Counted
<1>8. m \in Children(d, k)
  BY <1>2, PrefixClosed DEF Shaped, Children
<1>9. PICK j \in 1 .. Size(d, k) : m = Append(k, j)
  BY <1>7, <1>8
<1>10. Last(m) = j
  <2>1. k \in Seq(Steps) /\ j \in Steps
    BY <1>5, <1>9 DEF Shaped, Rooted, Steps
  <2> QED BY <2>1, <1>9, OneStep
<1>11. Size(d, k) <= 1 /\ Size(d, k) \in Nat
  BY <1>5, <1>6, SizeType DEF Single, Shaped, Rooted
<1>12. j = Size(d, k)
  BY <1>9, <1>11
<1> QED BY <1>2, <1>10, <1>12 DEF k

\* A node under a name is in a table that its path resolves to.
LEMMA Held ==
  ASSUME Shaped(doc, sealed), NEW l \in DOMAIN doc, Outer(doc, sealed, l), LiveIn(doc, l),
         l # << >>, Last(l) \in Names, NEW k, k = Front(l)
  PROVE  /\ k \in DOMAIN doc \ sealed /\ doc[k] = "table" /\ l = Append(k, Last(l))
         /\ PathOf(k) \in Seq(Names) /\ PathOf(l) = Append(PathOf(k), Last(l))
         /\ ensureTable(PathOf(k)) = k /\ ensureTable(PathOf(l)) = Enter(k, Last(l))
<1>0. DOMAIN doc \subseteq Seq(Steps) /\ l \in Seq(Steps)
  BY DEF Shaped, Rooted
<1>1. k \in Seq(Steps) /\ l = Append(k, Last(l)) /\ Last(l) \in Steps
  BY <1>0, LastStep
<1>2. PathOf(k) \in Seq(Names) /\ PathOf(l) = Append(PathOf(k), Last(l))
  BY <1>0, PathThere
<1>3. k \in DOMAIN doc /\ k \notin sealed
  BY DEF Shaped, Rooted, Outer
<1>4. doc[k] = "table"
  BY <1>3 DEF Shaped, Nested, ValuesNamed
<1>5. LiveIn(doc, k)
  BY <1>1, LiveStep
<1>6. ensureTable(PathOf(k)) = k
  BY <1>3, <1>4, <1>5, Placed
<1>7. k # Nowhere
  BY <1>1, TreeAssumption DEF Steps
<1>8. ensureTable(PathOf(l)) = Enter(k, Last(l))
  BY <1>0, <1>2, <1>6, <1>7, TableStep DEF Further
<1> QED BY <1>1, <1>2, <1>3, <1>4, <1>6, <1>8

\* Whoever walks along the path of a value comes upon the value.
LEMMA ValueOnWay ==
  ASSUME Shaped(doc, sealed), Single(doc, sealed), NEW l \in sealed, Front(l) \notin sealed,
         NEW path \in Seq(Names), PathOf(l) \in Prefixes(path), ensureTable(path) # Nowhere
  PROVE  l \in Prefixes(ensureTable(path))
<1> DEFINE k == Front(l)
           x == Last(l)
           last == Append(l, Size(doc, l))
           q == PathOf(l)
<1>1. l \in DOMAIN doc /\ l # << >> /\ x \in Names /\ l \in Seq(Steps)
  BY DEF Shaped, Rooted, ValuesNamed
<1>2. Outer(doc, sealed, l) /\ LiveIn(doc, l)
  <2>1. Outer(doc, sealed, l)
    BY <1>1 DEF Outer
  <2> QED BY <1>1, <2>1, SingleLive
<1>3. l = Append(k, x) /\ ensureTable(q) = Enter(k, x)
  BY <1>1, <1>2, Held
<1>4. ensureTable(q) # Nowhere /\ ensureTable(q) \in Prefixes(ensureTable(path))
      /\ ensureTable(path) \in Seq(Steps)
  BY Meant
<1>5. ensureTable(q) = l \/ ensureTable(q) = last
  BY <1>3, <1>4 DEF Enter
<1>6. l \in Prefixes(ensureTable(q))
  <2>1. Size(doc, l) \in Steps
    BY SizeType DEF Shaped, Rooted
  <2>2. Prefixes(last) = Prefixes(l) \cup {last} /\ l \in Prefixes(l)
    BY <1>1, <2>1, OneStep, PrefixFacts
  <2> HIDE DEF last
  <2> QED BY <1>5, <2>2
<1>7. Prefixes(ensureTable(q)) \subseteq Prefixes(ensureTable(path))
  <2> HIDE DEF q
  <2> QED BY <1>4, PrefixTrans
<1> QED BY <1>6, <1>7

-----------------------------------------------------------------------------
(* What every record stands for.                                           *)

\* A table under a name, whose path is recorded as e.
Named(l, e) == l # << >> /\ Last(l) \in Names /\ e = Encode(PathOf(l))

\* A table that was recorded is in the tree, a path that was closed leads to a value, and an
\* array has been counted at least as often as it has elements.
Stands(d, s, o, t, E, declared, dottedKey, closed) ==
  /\ \A e \in DOMAIN declared : \E l \in o : Named(l, e)
  /\ \A e \in DOMAIN dottedKey : \E l \in t : Named(l, e)
  /\ \A e \in DOMAIN closed : \E l \in s, p \in Seq(Names) :
       Front(l) \notin s /\ PathOf(l) \in Prefixes(p) /\ e = Encode(p)
  /\ \A e \in DOMAIN E : \E l \in DOMAIN d \ s : d[l] = "array" /\ e = Encode(PathOf(l))
  /\ \A l \in DOMAIN d \ s : d[l] = "array" =>
       Encode(PathOf(l)) \in DOMAIN E /\ Size(d, l) <= E[Encode(PathOf(l))]

Standing == Stands(doc, sealed, opened, dotted, arrayTableEpochs,
                   declaredTables, dottedKeyTables, closedInlineTables)

Once == \A e \in DOMAIN arrayTableEpochs : arrayTableEpochs[e] = 1

\* The walk along a recorded path ends at the table of the record.
LEMMA RecordedTable ==
  ASSUME Plain, IInv, Single(doc, sealed), NEW path \in Seq(Names),
         NEW l \in opened \cup dotted, Encode(path) = Encode(PathOf(l)),
         l # << >>, Last(l) \in Names
  PROVE  /\ l \in DOMAIN doc /\ doc[l] = "table" /\ PathOf(l) = path /\ ensureTable(path) = l
         /\ Append(ensureTable(Front(path)), Last(path)) = l
<1>0. Shaped(doc, sealed) /\ MarkedIn(doc, sealed, opened, dotted)
  BY DEF IInv
<1>1. l \in DOMAIN doc \ sealed /\ doc[l] = "table" /\ l \in Seq(Steps)
  BY <1>0 DEF MarkedIn, Shaped, Rooted
<1>2. PathOf(l) \in Seq(Names) /\ PathOf(l) = path
  BY <1>1, PathType, EncodeInjective
<1>3. Outer(doc, sealed, l) /\ LiveIn(doc, l)
  <2>1. Outer(doc, sealed, l)
    BY <1>0, <1>1 DEF Outer, Shaped, Nested
  <2> QED BY <1>0, <1>1, <2>1, SingleLive
<1>4. ensureTable(PathOf(l)) = l
  BY <1>0, <1>1, <1>3, Placed
<1>5. /\ l = Append(Front(l), Last(l)) /\ PathOf(Front(l)) \in Seq(Names)
      /\ PathOf(l) = Append(PathOf(Front(l)), Last(l))
      /\ ensureTable(PathOf(Front(l))) = Front(l)
  BY <1>0, <1>1, <1>3, Held
<1>6. Front(path) = PathOf(Front(l)) /\ Last(path) = Last(l)
  <2>1. Front(Append(PathOf(Front(l)), Last(l))) = PathOf(Front(l))
        /\ Last(Append(PathOf(Front(l)), Last(l))) = Last(l)
    BY <1>5, Appended
  <2> QED BY <2>1, <1>2, <1>5
<1> QED BY <1>1, <1>2, <1>4, <1>5, <1>6

\* Counted once, an array has one element.
LEMMA OnceSingle == ASSUME Standing, Once PROVE Single(doc, sealed)
BY DEF Standing, Stands, Once, Single

\* A path that was closed, or goes on from one, is the path of a value or goes on from one.
LEMMA ClosedValue ==
  ASSUME Plain, Standing, NEW path \in Seq(Names), closedInlinePrefix(path)
  PROVE  \E l \in sealed : Front(l) \notin sealed /\ PathOf(l) \in Prefixes(path)
<1>1. PICK i \in DOMAIN path : Encode(SubSeq(path, 1, i)) \in DOMAIN closedInlineTables
  BY DEF closedInlinePrefix, Recorded
<1> DEFINE q == SubSeq(path, 1, i)
<1>2. q \in Prefixes(path) /\ q \in Seq(Names)
  <2>1. path \in Seq(Steps) /\ i \in 0..Len(path)
    <3>1. Names \subseteq Steps
      BY DEF Steps
    <3> QED BY <3>1
  <2>2. q \in Prefixes(path)
    BY <2>1, PrefixAt
  <2> QED BY <2>2, PrefixFacts
<1>3. PICK l \in sealed : \E p \in Seq(Names) :
        Front(l) \notin sealed /\ PathOf(l) \in Prefixes(p) /\ Encode(q) = Encode(p)
  BY <1>1 DEF Standing, Stands
<1>4. PICK p \in Seq(Names) :
        Front(l) \notin sealed /\ PathOf(l) \in Prefixes(p) /\ Encode(q) = Encode(p)
  BY <1>3
<1>5. p = q
  BY <1>2, <1>4, EncodeInjective
<1>6. Prefixes(q) \subseteq Prefixes(path)
  BY <1>2, PrefixTrans
<1> QED BY <1>4, <1>5, <1>6

\* A counted path leads to an array.
LEMMA CountedArray ==
  ASSUME Plain, IInv, Standing, Single(doc, sealed), NEW path \in Seq(Names),
         Encode(path) \in DOMAIN arrayTableEpochs
  PROVE  ensureTable(path) = Nowhere \/ Last(ensureTable(path)) \notin Names
<1>0. Shaped(doc, sealed)
  BY DEF IInv
<1>1. PICK l \in DOMAIN doc \ sealed : doc[l] = "array" /\ Encode(path) = Encode(PathOf(l))
  BY DEF Standing, Stands
<1>2. l \in Seq(Steps) /\ Outer(doc, sealed, l) /\ LiveIn(doc, l)
  <2>1. l \in Seq(Steps) /\ Outer(doc, sealed, l)
    BY <1>0, <1>1 DEF Shaped, Rooted, Outer, Nested
  <2> QED BY <1>0, <1>1, <2>1, SingleLive
<1>3. PathOf(l) = path
  BY <1>1, <1>2, PathType, EncodeInjective
<1>4. l # << >> /\ Last(l) \in Names
  BY <1>0, <1>1, <1>2, Placed
<1>5. ensureTable(path) = Enter(Front(l), Last(l)) /\ l = Append(Front(l), Last(l))
  BY <1>0, <1>2, <1>3, <1>4, Held
<1>6. ensureTable(path) = Append(l, Size(doc, l)) \/ ensureTable(path) = Nowhere
  BY <1>1, <1>5 DEF Enter
<1>7. Size(doc, l) \notin Names /\ Size(doc, l) \in Steps
  BY <1>0, SizeType DEF Shaped, Rooted
<1>8. Last(Append(l, Size(doc, l))) = Size(doc, l)
  BY <1>2, <1>7, OneStep
<1> QED BY <1>6, <1>7, <1>8

-----------------------------------------------------------------------------
(* What the tree would allow, for any tree and any marks.                  *)

EnterIn(d, loc, name) ==
  LET slot == Append(loc, name)
      last == Append(slot, Size(d, slot))
  IN  CASE slot \notin DOMAIN d -> slot
        [] slot \in DOMAIN d /\ d[slot] = "table" -> slot
        [] /\ slot \in DOMAIN d /\ d[slot] = "array"
           /\ last \in DOMAIN d /\ d[last] = "table" -> last
        [] OTHER -> Nowhere

TableIn(d, path) ==
  FoldLeft(LAMBDA loc, n : IF loc = Nowhere THEN Nowhere ELSE EnterIn(d, loc, n), << >>, path)

ClearIn(d, s, loc) == \A l \in Prefixes(loc) :
  l \notin s /\ (l \in DOMAIN d => d[l] = KindOnWay(l, loc))

OpenIn(d, s, o, t, loc) ==
  /\ loc # Nowhere /\ loc # << >> /\ Last(loc) \in Names
  /\ LiveIn(d, loc) /\ ClearIn(d, s, loc) /\ loc \notin o \cup t

AppendIn(d, s, parent, loc) ==
  /\ parent # Nowhere /\ Len(loc) > 1
  /\ LiveIn(d, Front(loc)) /\ Last(loc) = Size(d, Front(loc)) + 1
  /\ ClearIn(d, s, loc)

AssignIn(d, c, s, o, loc) ==
  /\ c # Nowhere /\ IsStrictPrefix(c, loc) /\ loc \notin DOMAIN d
  /\ \A l \in Prefixes(loc) \ (Prefixes(c) \cup {loc}) :
       l \notin o \cup s /\ (l \in DOMAIN d => d[l] = "table")

AllowedIn(d, c, s, o, t, r) ==
  LET parent == TableIn(d, Front(r.path))
      slot   == Append(parent, Last(r.path))
  IN  \/ r.kind = "table" /\ OpenIn(d, s, o, t, TableIn(d, r.path))
      \/ r.kind = "array" /\ AppendIn(d, s, parent, Append(slot, Size(d, slot) + 1))
      \/ r.kind = "key" /\ AssignIn(d, c, s, o, c \o r.path)

LEMMA TableInEq == ASSUME NEW path PROVE TableIn(doc, path) = ensureTable(path)
BY DEF TableIn, EnterIn, ensureTable, Enter

\* That is what AllowedByTree says.
LEMMA AllowedEq ==
  Refused => (AllowedByTree <=> AllowedIn(doc, current, sealed, opened, dotted, result))
<1> SUFFICES ASSUME Refused
             PROVE  AllowedByTree <=> AllowedIn(doc, current, sealed, opened, dotted, result)
  OBVIOUS
<1> DEFINE path == result.path
           parent == ensureTable(Front(path))
           slot == Append(parent, Last(path))
           next == Append(slot, Size(doc, slot) + 1)
<1>1. \A l : Tree!Clear(l) <=> ClearIn(doc, sealed, l)
  BY TreeOps DEF Tree!Clear, ClearIn
<1>2. \A l : Tree!Live(l) <=> LiveIn(doc, l)
  BY LiveEq
<1>3. \A l : l # Nowhere /\ Tree!MayOpen(l) <=> OpenIn(doc, sealed, opened, dotted, l)
  BY <1>1, <1>2, TreeOps DEF Tree!MayOpen, OpenIn
<1>4. \A p, l : p # Nowhere /\ Tree!MayAppend(l) <=> AppendIn(doc, sealed, p, l)
  BY <1>1, <1>2, TreeOps DEF Tree!MayAppend, AppendIn
<1>5. \A l : Tree!MayAssign(l) <=> AssignIn(doc, current, sealed, opened, l)
  BY TreeOps DEF Tree!MayAssign, AssignIn
<1>6. TableIn(doc, Front(path)) = parent /\ TableIn(doc, path) = ensureTable(path)
  BY TableInEq
<1>7. AllowedIn(doc, current, sealed, opened, dotted, result) <=>
        \/ result.kind = "table" /\ ensureTable(path) # Nowhere /\ Tree!MayOpen(ensureTable(path))
        \/ result.kind = "array" /\ parent # Nowhere /\ Tree!MayAppend(next)
        \/ result.kind = "key" /\ Tree!MayAssign(current \o path)
  BY <1>3, <1>4, <1>5, <1>6 DEF AllowedIn
<1>8. CASE result.kind = "table"
  BY <1>7, <1>8 DEF AllowedByTree
<1>9. CASE result.kind = "array"
  BY <1>7, <1>9 DEF AllowedByTree
<1>10. CASE result.kind = "key"
  BY <1>7, <1>10 DEF AllowedByTree
<1> QED BY <1>8, <1>9, <1>10 DEF Refused

-----------------------------------------------------------------------------
(* What is refused is not allowed.                                         *)

\* Whatever can be refused is refused in a state like this.
Refusing == Plain /\ IInv /\ Standing /\ Once

\* A refused [path] is one that the tree does not allow.
LEMMA RefusedTable ==
  ASSUME Refusing, NEW path \in Seq(Names), path # << >>,
         TableClash(path) \/ ensureTable(path) = Nowhere
  PROVE  ~OpenIn(doc, sealed, opened, dotted, ensureTable(path))
<1> USE DEF Refusing
<1> DEFINE loc == ensureTable(path)
<1> SUFFICES ASSUME OpenIn(doc, sealed, opened, dotted, loc) PROVE FALSE
  OBVIOUS
<1>0. Shaped(doc, sealed) /\ Single(doc, sealed)
  BY OnceSingle DEF IInv
<1>1. loc # Nowhere /\ Last(loc) \in Names /\ ClearIn(doc, sealed, loc) /\ loc \notin opened \cup dotted
  BY DEF OpenIn
<1> HIDE DEF loc
<1>2. Encode(path) \notin arrayTables
  BY <1>0, <1>1, CountedArray DEF arrayTables, loc
<1>3. ~(Recorded(dottedKeyTables, path) \/ Recorded(declaredTables, path))
  <2> SUFFICES ASSUME Recorded(dottedKeyTables, path) \/ Recorded(declaredTables, path) PROVE FALSE
    OBVIOUS
  <2>1. PICK l \in opened \cup dotted : l # << >> /\ Last(l) \in Names /\ Encode(path) = Encode(PathOf(l))
    BY DEF Recorded, Standing, Stands, Named
  <2>2. loc = l
    BY <1>0, <2>1, RecordedTable DEF loc
  <2> QED BY <1>1, <2>2
<1>4. ~closedInlinePrefix(path)
  <2> SUFFICES ASSUME closedInlinePrefix(path) PROVE FALSE
    OBVIOUS
  <2>1. PICK l \in sealed : Front(l) \notin sealed /\ PathOf(l) \in Prefixes(path)
    BY ClosedValue
  <2>2. l \in Prefixes(loc)
    BY <1>0, <1>1, <2>1, ValueOnWay DEF loc
  <2> QED BY <1>1, <2>2 DEF ClearIn
<1> QED BY <1>1, <1>2, <1>3, <1>4 DEF TableClash, loc

\* Nor does it allow a refused [[path]].
LEMMA RefusedArray ==
  ASSUME Refusing, NEW path \in Seq(Names), path # << >>,
         ArrayClash(path) \/ appendArrayTable(path) = Nowhere,
         NEW parent, parent = ensureTable(Front(path)), NEW slot, slot = Append(parent, Last(path)),
         NEW next, next = Append(slot, Size(doc, slot) + 1)
  PROVE  ~AppendIn(doc, sealed, parent, next)
<1> USE DEF Refusing
<1> SUFFICES ASSUME AppendIn(doc, sealed, parent, next) PROVE FALSE
  OBVIOUS
<1>0. Shaped(doc, sealed) /\ Single(doc, sealed)
  BY OnceSingle DEF IInv
<1>1. parent # Nowhere /\ ClearIn(doc, sealed, next)
  BY DEF AppendIn
<1>2. Front(path) \in Seq(Names) /\ Last(path) \in Names /\ path = Append(Front(path), Last(path))
  BY LastStep
<1>3. parent \in Seq(Steps) /\ PathOf(parent) = Front(path)
  BY <1>0, <1>1, <1>2, Meant
<1>4. Last(path) \in Steps /\ Size(doc, slot) + 1 \in Steps /\ Size(doc, slot) + 1 \notin Names
  <2>1. Size(doc, slot) \in Nat
    BY <1>0, SizeType DEF Shaped, Rooted
  <2> QED BY <1>2, <2>1, TreeAssumption DEF Steps
<1>5. slot \in Seq(Steps) /\ Prefixes(slot) = Prefixes(parent) \cup {slot}
  BY <1>3, <1>4, OneStep
<1>6. next \in Seq(Steps) /\ Prefixes(next) = Prefixes(slot) \cup {next}
  BY <1>4, <1>5, OneStep
<1>7. next # Nowhere
  BY <1>6, TreeAssumption DEF Steps
<1>8. KindOnWay(slot, next) = "array"
  <2>1. KindOnWay(slot, Append(slot, Size(doc, slot) + 1)) = "array"
    BY ONLY <1>4, <1>5, KindStep
  <2> QED BY <2>1
<1>9. slot \notin sealed /\ (slot \in DOMAIN doc => doc[slot] = "array")
  <2>1. slot \in Prefixes(next)
    BY <1>5, <1>6
  <2> QED BY <1>1, <1>8, <2>1 DEF ClearIn
<1>10. appendArrayTable(path) # Nowhere
  BY <1>1, <1>7, <1>9 DEF appendArrayTable
<1>11. Encode(path) \notin DOMAIN declaredTables /\ ~Recorded(dottedKeyTables, path)
  <2> SUFFICES ASSUME Encode(path) \in DOMAIN declaredTables \/ Recorded(dottedKeyTables, path)
               PROVE  FALSE
    OBVIOUS
  <2>1. PICK l \in opened \cup dotted : l # << >> /\ Last(l) \in Names /\ Encode(path) = Encode(PathOf(l))
    BY DEF Recorded, Standing, Stands, Named
  <2>2. slot = l /\ l \in DOMAIN doc /\ doc[l] = "table"
    BY <1>0, <2>1, RecordedTable
  <2> QED BY <1>9, <2>2
<1>12. ~closedInlinePrefix(path)
  <2> SUFFICES ASSUME closedInlinePrefix(path) PROVE FALSE
    OBVIOUS
  <2>1. PICK l \in sealed : Front(l) \notin sealed /\ PathOf(l) \in Prefixes(path)
    BY ClosedValue
  <2>2. Prefixes(path) = Prefixes(Front(path)) \cup {path}
    <3>1. Prefixes(Append(Front(path), Last(path)))
            = Prefixes(Front(path)) \cup {Append(Front(path), Last(path))}
      BY ONLY <1>2, PrefixesStep
    <3> QED BY <1>2, <3>1
  <2>3. CASE PathOf(l) \in Prefixes(Front(path))
    <3>1. l \in Prefixes(parent)
      BY <1>0, <1>1, <1>2, <2>1, <2>3, ValueOnWay
    <3> QED BY <1>1, <1>5, <1>6, <3>1 DEF ClearIn
  <2>4. CASE PathOf(l) = path
    <3>1. l \in DOMAIN doc /\ l # << >> /\ Last(l) \in Names
      BY <1>0, <2>1 DEF Shaped, Rooted, ValuesNamed
    <3>2. Outer(doc, sealed, l) /\ LiveIn(doc, l)
      <4>1. Outer(doc, sealed, l)
        BY <2>1, <3>1 DEF Outer
      <4> QED BY <1>0, <3>1, <4>1, SingleLive
    <3>3. /\ l = Append(Front(l), Last(l)) /\ PathOf(Front(l)) \in Seq(Names)
          /\ path = Append(PathOf(Front(l)), Last(l))
          /\ ensureTable(PathOf(Front(l))) = Front(l)
      BY <1>0, <2>4, <3>1, <3>2, Held
    <3>4. Front(path) = PathOf(Front(l)) /\ Last(path) = Last(l)
      BY <3>1, <3>3, Appended
    <3>5. slot = l
      BY <3>3, <3>4
    <3> QED BY <1>9, <2>1, <3>5
  <2> QED BY <2>1, <2>2, <2>3, <2>4
<1> QED BY <1>10, <1>11, <1>12 DEF ArrayClash

\* Nor a refused key.
LEMMA RefusedKey ==
  ASSUME Refusing, NEW key \in Seq(Names), key # << >>,
         current # Nowhere, KeyClash(key) \/ ~AssignUnique(current \o key)
  PROVE  ~AssignIn(doc, current, sealed, opened, current \o key)
<1> USE DEF Refusing
<1> DEFINE loc == current \o key
           At(i) == current \o SubSeq(key, 1, i)
           PathAt(i) == currentPath \o SubSeq(key, 1, i)
<1> SUFFICES ASSUME AssignIn(doc, current, sealed, opened, loc) PROVE FALSE
  OBVIOUS
<1>0. Shaped(doc, sealed) /\ Single(doc, sealed) /\ TableAt(doc, sealed, current, currentPath)
      /\ DOMAIN doc \subseteq Seq(Steps)
  BY OnceSingle DEF IInv, Shaped, Rooted
<1>1. /\ current \in Seq(Steps) /\ currentPath = PathOf(current) /\ currentPath \in Seq(Names)
      /\ currentPath \in Seq(Steps) /\ Len(key) \in Nat /\ Len(key) # 0 /\ Names \subseteq Steps
  <2>1. current \in Seq(Steps) /\ currentPath = PathOf(current)
    BY <1>0 DEF TableAt
  <2>2. Names \subseteq Steps /\ currentPath \in Seq(Names)
    BY <2>1, PathType DEF Steps
  <2> QED BY <2>1, <2>2
<1>2. loc \notin DOMAIN doc /\ \A l \in Between(current, key) :
        l \notin opened \cup sealed /\ (l \in DOMAIN doc => doc[l] = "table")
  <2>1. Prefixes(loc) \ (Prefixes(current) \cup {loc}) = Between(current, key)
    BY <1>1, BetweenEq
  <2> QED BY <2>1 DEF AssignIn
<1>3. \A i \in 1 .. Len(key) - 1 : At(i) \in Between(current, key)
  BY DEF Between
<1> HIDE DEF loc
<1>4. \A i \in 0 .. Len(key) : /\ At(i) \in Seq(Steps) /\ Len(At(i)) = Len(current) + i
                              /\ SubSeq(loc, 1, Len(current) + i) = At(i)
                              /\ PathAt(i) \in Seq(Names)
  <2> SUFFICES ASSUME NEW i \in 0 .. Len(key)
               PROVE  /\ At(i) \in Seq(Steps) /\ Len(At(i)) = Len(current) + i
                      /\ SubSeq(loc, 1, Len(current) + i) = At(i)
                      /\ PathAt(i) \in Seq(Names)
    OBVIOUS
  <2>1. At(i) \in Seq(Steps) /\ Len(At(i)) = Len(current) + i /\ SubSeq(key, 1, i) \in Seq(Names)
        /\ SubSeq(loc, 1, Len(current) + i) = At(i)
    BY <1>1, KeyPart DEF loc
  <2>2. PathAt(i) \in Seq(Names)
    BY <2>1, <1>1
  <2> QED BY <2>1, <2>2
<1>5. AssignUnique(loc)
  <2> SUFFICES ASSUME NEW j \in Len(current) + 1 .. Len(loc) - 1, SubSeq(loc, 1, j) \in DOMAIN doc
               PROVE  doc[SubSeq(loc, 1, j)] = "table"
    BY <1>2 DEF AssignUnique
  <2>1. Len(loc) = Len(current) + Len(key) /\ Len(current) \in Nat
    <3>1. Len(key) \in 0 .. Len(key)
      BY <1>1
    <3>2. Len(At(Len(key))) = Len(current) + Len(key)
      BY <1>4, <3>1
    <3>3. SubSeq(key, 1, Len(key)) = key
      BY <1>1, <3>1, KeyPart
    <3> QED BY <1>1, <3>2, <3>3 DEF loc
  <2> DEFINE i == j - Len(current)
  <2>2. i \in 1 .. Len(key) - 1 /\ j = Len(current) + i /\ i \in 0 .. Len(key)
    BY <1>1, <2>1
  <2>3. SubSeq(loc, 1, j) = At(i)
    BY <1>4, <2>2
  <2> HIDE DEF At, i
  <2> QED BY <1>2, <1>3, <2>2, <2>3
<1>6. PICK i \in 1 .. Len(key) - 1 : \/ Encode(PathAt(i)) \in DOMAIN declaredTables
                                     \/ Recorded(closedInlineTables, PathAt(i))
  BY <1>5 DEF KeyClash, Inner, loc
<1>7. \A n \in 0 .. Len(key) - 1 : ensureTable(PathAt(n)) = At(n)
  <2> DEFINE S == {n \in Nat : n <= Len(key) - 1 => ensureTable(PathAt(n)) = At(n)}
  <2>1. 0 \in S
    <3>1. At(0) = current /\ PathAt(0) = currentPath
      BY <1>1, KeyPart
    <3>2. ensureTable(currentPath) = current
      BY <1>0, <1>1, Placed DEF TableAt
    <3> HIDE DEF At, PathAt
    <3> QED BY <3>1, <3>2
  <2>2. ASSUME NEW n \in Nat, n \in S PROVE n + 1 \in S
    <3> SUFFICES ASSUME n + 1 <= Len(key) - 1 PROVE ensureTable(PathAt(n + 1)) = At(n + 1)
      OBVIOUS
    <3>1. n < Len(key) /\ n \in 0 .. Len(key) /\ n + 1 \in 1 .. Len(key) - 1
      BY <1>1
    <3>2. At(n + 1) = Append(At(n), key[n + 1]) /\ key[n + 1] \in Names
          /\ PathAt(n + 1) = Append(PathAt(n), key[n + 1])
      BY <1>1, <3>1, KeyPartStep
    <3>3. ensureTable(PathAt(n)) = At(n)
      BY <1>1, <2>2
    <3> HIDE DEF At, PathAt
    <3>4. At(n) # Nowhere
      BY <1>4, <3>1, TreeAssumption DEF Steps
    <3>5. ensureTable(PathAt(n + 1)) = Enter(At(n), key[n + 1])
      BY <1>0, <1>4, <3>1, <3>2, <3>3, <3>4, TableStep DEF Further
    <3>6. At(n + 1) \in DOMAIN doc => doc[At(n + 1)] = "table"
      BY <1>2, <1>3, <3>1
    <3> QED BY <3>2, <3>5, <3>6 DEF Enter
  <2>3. Nat \subseteq S
    <3> HIDE DEF S
    <3> QED BY <2>1, <2>2, Induct
  <2> HIDE DEF At, PathAt
  <2> QED BY <1>1, <2>3
<1>8. i \in 0 .. Len(key) /\ i \in 0 .. Len(key) - 1
  BY <1>1
<1> HIDE DEF At, PathAt
<1>9. ensureTable(PathAt(i)) = At(i) /\ PathAt(i) \in Seq(Names) /\ At(i) \in Between(current, key)
      /\ ensureTable(PathAt(i)) # Nowhere /\ At(i) \in Seq(Steps)
  BY <1>3, <1>4, <1>7, <1>8, TreeAssumption DEF Steps
<1>10. CASE Encode(PathAt(i)) \in DOMAIN declaredTables
  <2>1. PICK l \in opened : l # << >> /\ Last(l) \in Names /\ Encode(PathAt(i)) = Encode(PathOf(l))
    BY <1>10 DEF Standing, Stands, Named
  <2>2. At(i) = l
    BY <1>0, <1>9, <2>1, RecordedTable
  <2> QED BY <1>2, <1>9, <2>1, <2>2
<1>11. CASE Recorded(closedInlineTables, PathAt(i))
  <2>1. PICK l \in sealed : \E p \in Seq(Names) :
          Front(l) \notin sealed /\ PathOf(l) \in Prefixes(p) /\ Encode(PathAt(i)) = Encode(p)
    BY <1>11 DEF Recorded, Standing, Stands
  <2>2. Front(l) \notin sealed /\ PathOf(l) \in Prefixes(PathAt(i))
    BY <1>9, <2>1, EncodeInjective
  <2>3. l \in Prefixes(At(i))
    BY <1>0, <1>9, <2>1, <2>2, ValueOnWay
  <2>4. At(i) \in Prefixes(loc) /\ loc \in Seq(Steps)
    <3>1. loc \in Seq(Steps)
      BY <1>1, PathOfConcat DEF loc
    <3>2. Prefixes(loc) \ (Prefixes(current) \cup {loc}) = Between(current, key)
      BY <1>1, BetweenEq DEF loc
    <3> QED BY <1>9, <3>1, <3>2
  <2>5. l \in Prefixes(loc)
    BY <2>3, <2>4, PrefixTrans
  <2>6. l \notin Between(current, key)
    BY <1>2
  <2>7. l # loc
    BY <1>0, <1>2 DEF Shaped, Rooted
  <2>8. l \in Prefixes(current)
    <3>1. Prefixes(loc) \ (Prefixes(current) \cup {loc}) = Between(current, key)
      BY <1>1, BetweenEq DEF loc
    <3> QED BY <2>5, <2>6, <2>7, <3>1
  <2>9. Way(doc, sealed, current)
    BY <1>0, WayTo DEF TableAt
  <2> QED BY <2>8, <2>9 DEF Way
<1> QED BY <1>6, <1>10, <1>11

-----------------------------------------------------------------------------
(* Every record keeps standing for something.                              *)

\* What grows still holds what its records stand for.
LEMMA StandsOn ==
  ASSUME NEW d, NEW s, NEW o, NEW t, NEW E, NEW declared, NEW dottedKey, NEW closed,
         Stands(d, s, o, t, E, declared, dottedKey, closed),
         NEW e, NEW r, NEW u, NEW v, NEW F, NEW declaredF, NEW dottedF, NEW closedF,
         s \subseteq r, o \subseteq u, t \subseteq v,
         \A l \in DOMAIN d \ s : l \in DOMAIN e \ r /\ e[l] = d[l],
         \A l \in s : Front(l) \notin s => Front(l) \notin r,
         \A x \in DOMAIN declaredF \ DOMAIN declared : \E l \in u : Named(l, x),
         \A x \in DOMAIN dottedF \ DOMAIN dottedKey : \E l \in v : Named(l, x),
         \A x \in DOMAIN closedF \ DOMAIN closed : \E l \in r, p \in Seq(Names) :
            Front(l) \notin r /\ PathOf(l) \in Prefixes(p) /\ x = Encode(p),
         \A x \in DOMAIN F \ DOMAIN E : \E l \in DOMAIN e \ r : e[l] = "array" /\ x = Encode(PathOf(l)),
         \A l \in DOMAIN e \ r : e[l] = "array" =>
            Encode(PathOf(l)) \in DOMAIN F /\ Size(e, l) <= F[Encode(PathOf(l))]
  PROVE  Stands(e, r, u, v, F, declaredF, dottedF, closedF)
<1>1. \A x \in DOMAIN declaredF : \E l \in u : Named(l, x)
  BY DEF Stands
<1>2. \A x \in DOMAIN dottedF : \E l \in v : Named(l, x)
  BY DEF Stands
<1>3. \A x \in DOMAIN closedF : \E l \in r, p \in Seq(Names) :
        Front(l) \notin r /\ PathOf(l) \in Prefixes(p) /\ x = Encode(p)
  BY DEF Stands
<1>4. \A x \in DOMAIN F : \E l \in DOMAIN e \ r : e[l] = "array" /\ x = Encode(PathOf(l))
  BY DEF Stands
<1> QED BY <1>1, <1>2, <1>3, <1>4 DEF Stands

LEMMA InitStands == ASSUME Init PROVE Standing
<1>1. DOMAIN doc = {<< >>} /\ doc[<< >>] = "table"
  BY DEF Init
<1>2. DOMAIN declaredTables = {} /\ DOMAIN dottedKeyTables = {}
      /\ DOMAIN closedInlineTables = {} /\ DOMAIN arrayTableEpochs = {}
  BY DEF Init
<1> QED BY <1>1, <1>2 DEF Standing, Stands

LEMMA SameStands ==
  ASSUME Standing, UNCHANGED <<doc, tables, arrayTableEpochs, history>> PROVE Standing'
BY DEF Standing, tables, history

\* [path] records the table it opens.
LEMMA OpenStands ==
  ASSUME IInv, Standing, NEW path, NEW next, Way(doc, sealed, next), PathOf(next) = path,
         next # << >>, Last(next) \in Names, NEW e, e = Grow(doc, next)
  PROVE  Stands(e, sealed, opened \cup {next}, dotted, arrayTableEpochs,
                RecordIn(arrayTableEpochs, declaredTables, {path}), dottedKeyTables, closedInlineTables)
<1> DEFINE E == arrayTableEpochs
           declared == RecordIn(E, declaredTables, {path})
<1>1. /\ DOMAIN e = DOMAIN doc \cup Prefixes(next)
      /\ \A l \in DOMAIN doc : e[l] = doc[l]
      /\ \A l \in DOMAIN e \ DOMAIN doc : e[l] = "table"
      /\ \A l \in DOMAIN doc \ sealed : doc[l] = "array" => Children(e, l) = Children(doc, l)
  <2>1. Grown(doc, sealed, next, e)
    BY DEF Grown, IInv
  <2>2. GrownTo(doc, sealed, next, e)
    BY ONLY <2>1, GrowTable
  <2> QED BY <2>2 DEF GrownTo
<1>2. DOMAIN declared = DOMAIN declaredTables \cup {Encode(path)}
  BY DEF RecordIn
<1> HIDE DEF declared
<1>3. \A x \in DOMAIN declared \ DOMAIN declaredTables : \E l \in opened \cup {next} : Named(l, x)
  BY <1>2 DEF Named
<1>4. \A l \in DOMAIN e \ sealed : e[l] = "array" =>
        Encode(PathOf(l)) \in DOMAIN E /\ Size(e, l) <= E[Encode(PathOf(l))]
  BY <1>1 DEF Standing, Stands, Size
<1>5. \A l \in DOMAIN doc \ sealed : l \in DOMAIN e \ sealed /\ e[l] = doc[l]
  BY <1>1
<1>6. Stands(doc, sealed, opened, dotted, E, declaredTables, dottedKeyTables, closedInlineTables)
  BY DEF Standing
<1>7. Stands(e, sealed, opened \cup {next}, dotted, E, declared, dottedKeyTables, closedInlineTables)
  BY <1>3, <1>4, <1>5, <1>6, StandsOn
<1> QED BY <1>7 DEF declared

\* [[path]] counts the element it adds.
LEMMA AppendStands ==
  ASSUME IInv, Standing, NEW path, Encode(path) \in DOMAIN arrayTableEpochs =>
                                   arrayTableEpochs[Encode(path)] < MaxEpoch,
         NEW k, NEW x, NEW slot, NEW next, NEW e, Lengthened(doc, sealed, k, x, slot, next, e),
         PathOf(slot) = path
  PROVE  Stands(e, sealed, opened \cup {next}, dotted, CountIn(arrayTableEpochs, path),
                declaredTables, dottedKeyTables, closedInlineTables)
<1> DEFINE E == arrayTableEpochs
           F == CountIn(E, path)
<1>0. Shaped(doc, sealed) /\ Epochs(E)
  BY Parts DEF IInv
<1>1. /\ slot \in DOMAIN e /\ slot \notin sealed /\ e[slot] = "array"
      /\ DOMAIN doc \subseteq DOMAIN e
      /\ \A l \in DOMAIN doc : e[l] = doc[l]
      /\ \A l \in DOMAIN e \ DOMAIN doc : l # slot => e[l] = "table"
      /\ Size(e, slot) = Size(doc, slot) + 1
      /\ \A l \in DOMAIN doc \ sealed : doc[l] = "array" /\ l # slot => Size(e, l) = Size(doc, l)
  <2>1. LengthenedTo(doc, sealed, k, x, slot, next, e)
    BY GrowElement
  <2> QED BY <2>1 DEF LengthenedTo, Lengthened
<1>2. /\ DOMAIN F = DOMAIN E \cup {Encode(path)}
      /\ \A y \in DOMAIN E : y # Encode(path) => F[y] = E[y]
      /\ Encode(path) \in DOMAIN E => F[Encode(path)] = E[Encode(path)] + 1
      /\ Encode(path) \notin DOMAIN E => F[Encode(path)] = 1
  <2>1. Counts(E, path, F)
    BY <1>0 DEF Counts
  <2>2. \A y \in DOMAIN E \cup {Encode(path)} :
          F[y] = (IF y \in DOMAIN E THEN E[y] ELSE 0) + (IF y = Encode(path) THEN 1 ELSE 0)
    BY DEF CountIn
  <2> HIDE DEF F
  <2>3. \A y \in DOMAIN E : E[y] \in Nat
    BY <1>0 DEF Epochs
  <2>4. Encode(path) \in DOMAIN E => F[Encode(path)] = E[Encode(path)] + 1
    BY ONLY <2>2, <2>3
  <2>5. Encode(path) \notin DOMAIN E => F[Encode(path)] = 1
    BY ONLY <2>2
  <2>6. DOMAIN F = DOMAIN E \cup {Encode(path)} /\ \A y \in DOMAIN E : y # Encode(path) => F[y] = E[y]
    BY ONLY <2>1, CountType
  <2> QED BY ONLY <2>4, <2>5, <2>6
<1> HIDE DEF F
<1>3. \A y \in DOMAIN E : E[y] \in Nat /\ F[y] \in Nat /\ E[y] <= F[y]
  BY <1>0, <1>2 DEF Epochs
<1> HIDE DEF F
<1>4. \A y \in DOMAIN F \ DOMAIN E : \E l \in DOMAIN e \ sealed : e[l] = "array" /\ y = Encode(PathOf(l))
  BY <1>1, <1>2
<1>5. ASSUME NEW l \in DOMAIN e \ sealed, e[l] = "array"
      PROVE  Encode(PathOf(l)) \in DOMAIN F /\ Size(e, l) <= F[Encode(PathOf(l))]
  <2>1. CASE l = slot
    <3>1. CASE slot \in DOMAIN doc
      <4>1. Encode(path) \in DOMAIN E /\ Size(doc, slot) <= E[Encode(path)]
        BY <1>1, <3>1 DEF Standing, Stands
      <4>2. Size(doc, slot) \in Nat
        BY <1>0, SizeType DEF Shaped, Rooted
      <4> QED BY <1>1, <1>2, <1>3, <2>1, <4>1, <4>2
    <3>2. CASE slot \notin DOMAIN doc
      <4>1. Children(doc, slot) = {}
        BY <1>0, <3>2 DEF Children, Shaped, Rooted
      <4>2. Size(doc, slot) = 0
        BY <4>1, FS_EmptySet DEF Size
      <4>3. F[Encode(path)] >= 1
        BY <1>0, <1>2 DEF Epochs
      <4> QED BY <1>1, <1>2, <2>1, <4>2, <4>3
    <3> QED BY <3>1, <3>2
  <2>2. CASE l # slot
    <3>1. l \in DOMAIN doc \ sealed /\ doc[l] = "array" /\ Size(e, l) = Size(doc, l)
      BY <1>1, <1>5, <2>2
    <3>2. Encode(PathOf(l)) \in DOMAIN E /\ Size(doc, l) <= E[Encode(PathOf(l))]
      BY <3>1 DEF Standing, Stands
    <3>3. Size(doc, l) \in Nat
      BY <1>0, SizeType DEF Shaped, Rooted
    <3> QED BY <1>2, <1>3, <3>1, <3>2, <3>3
  <2> QED BY <2>1, <2>2
<1>6. \A l \in DOMAIN doc \ sealed : l \in DOMAIN e \ sealed /\ e[l] = doc[l]
  BY <1>1
<1>7. Stands(doc, sealed, opened, dotted, E, declaredTables, dottedKeyTables, closedInlineTables)
  BY DEF Standing
<1> QED BY <1>4, <1>5, <1>6, <1>7, StandsOn DEF F

\* A key records the tables on the way to its value, and what is in the value as closed.
LEMMA AssignStands ==
  ASSUME Plain, IInv, Standing, current # Nowhere, NEW key \in Seq(Names), key # << >>,
         ~KeyClash(key), AssignUnique(current \o key), NEW value, IsTree(value),
         NEW k, k = Front(current \o key), NEW f, f = Grow(doc, k),
         NEW added, added = {current \o key \o l : l \in DOMAIN value},
         NEW e, e = Put(f, current \o key, value)
  PROVE  Stands(e, sealed \cup added, opened, dotted \cup Between(current, key), arrayTableEpochs,
                declaredTables, RecordIn(arrayTableEpochs, dottedKeyTables, Inner(key)),
                RecordIn(arrayTableEpochs, closedInlineTables, ValuePaths(currentPath \o key, value)))
<1> DEFINE E == arrayTableEpochs
           loc == current \o key
           path == currentPath \o key
           r == sealed \cup added
           between == Between(current, key)
           passed == RecordIn(E, dottedKeyTables, Inner(key))
           closed == RecordIn(E, closedInlineTables, ValuePaths(path, value))
<1>0. Shaped(doc, sealed) /\ TableAt(doc, sealed, current, currentPath)
  BY DEF IInv
<1>1. /\ Grown(doc, sealed, k, f) /\ Filled(f, sealed, k, Last(key), loc, value, added, e)
      /\ PathOf(loc) = path
      /\ currentPath \in Seq(Names) /\ current \in Seq(Steps) /\ k \in Seq(Steps)
  BY KeyMayAssign
<1>2. /\ DOMAIN f = DOMAIN doc \cup Prefixes(k)
      /\ \A l \in DOMAIN doc : f[l] = doc[l]
      /\ \A l \in DOMAIN f \ DOMAIN doc : f[l] = "table"
      /\ \A l \in DOMAIN doc \ sealed : doc[l] = "array" => Size(f, l) = Size(doc, l)
  <2>1. Grown(doc, sealed, k, f)
    BY <1>1
  <2>2. GrownTo(doc, sealed, k, f)
    BY ONLY <2>1, GrowTable
  <2> QED BY <2>2 DEF GrownTo, Size
<1>3. /\ DOMAIN e = DOMAIN f \cup added /\ DOMAIN f \cap added = {} /\ loc \in added
      /\ \A l \in DOMAIN f : e[l] = f[l]
      /\ \A l \in DOMAIN f \ sealed : f[l] = "array" => Size(e, l) = Size(f, l)
  <2>1. FilledTo(f, sealed, k, loc, value, added, e)
    BY <1>1, PutValue
  <2> QED BY <2>1 DEF FilledTo
<1>4. loc \in Seq(Steps) /\ Front(loc) = k /\ k \in DOMAIN f \ sealed /\ path \in Seq(Names)
      /\ key \in Seq(Steps)
  <2>1. loc = Append(k, Last(key)) /\ Last(key) \in Steps /\ k \in DOMAIN f \ sealed
    BY <1>1 DEF Filled, Steps
  <2>2. k \in Seq(Steps)
    BY <1>1
  <2>3. Append(k, Last(key)) \in Seq(Steps) /\ Front(Append(k, Last(key))) = k
    BY ONLY <2>1, <2>2, OneStep
  <2>4. path \in Seq(Names)
    BY <1>1
  <2>5. Names \subseteq Steps
    BY DEF Steps
  <2> QED BY <2>1, <2>3, <2>4, <2>5
<1>5. /\ DOMAIN passed = DOMAIN dottedKeyTables \cup {Encode(p) : p \in Inner(key)}
      /\ DOMAIN closed = DOMAIN closedInlineTables \cup {Encode(p) : p \in ValuePaths(path, value)}
  BY DEF RecordIn
<1> HIDE DEF passed, closed
<1>6. ASSUME NEW p \in Inner(key) PROVE \E l \in between : Named(l, Encode(p))
  <2>1. PICK i \in 1 .. Len(key) - 1 : p = currentPath \o SubSeq(key, 1, i)
    BY DEF Inner
  <2> DEFINE l == current \o SubSeq(key, 1, i)
  <2>2. l \in between
    BY DEF Between
  <2>3. i \in 0 .. Len(key) /\ SubSeq(key, 1, i) \in Seq(Names)
    OBVIOUS
  <2>4. PathOf(l) = p
    BY <1>0, <1>1, <2>1, <2>3, PathOfConcat DEF TableAt
  <2>5. l # << >> /\ Last(l) \in Names
    <3>1. i - 1 \in Nat /\ i - 1 < Len(key) /\ (i - 1) + 1 = i /\ i - 1 \in 0 .. Len(key)
      OBVIOUS
    <3>2. l = Append(current \o SubSeq(key, 1, i - 1), key[i]) /\ key[i] \in Names
      <4>1. current \o SubSeq(key, 1, (i - 1) + 1)
              = Append(current \o SubSeq(key, 1, i - 1), key[(i - 1) + 1]) /\ key[(i - 1) + 1] \in Names
        BY <1>1, <3>1, KeyPartStep
      <4> QED BY <3>1, <4>1
    <3>3. current \o SubSeq(key, 1, i - 1) \in Seq(Steps) /\ key[i] \in Steps
      BY <1>1, <3>1, <3>2, KeyPart DEF Steps
    <3> HIDE DEF l
    <3> QED BY <3>2, <3>3, OneStep
  <2> HIDE DEF l
  <2> QED BY <2>2, <2>4, <2>5 DEF Named
<1>7. ASSUME NEW p \in ValuePaths(path, value)
      PROVE  p \in Seq(Names) /\ PathOf(loc) \in Prefixes(p)
  <2>1. PICK l \in DOMAIN value : p = path \o PathOf(l)
    BY DEF ValuePaths
  <2>2. l \in Seq(Steps)
    BY DEF IsTree, Steps
  <2>3. PathOf(l) \in Seq(Names) /\ PathOf(l) \in Seq(Steps) /\ path \in Seq(Steps)
    <3>1. Names \subseteq Steps
      BY DEF Steps
    <3> QED BY <1>4, <2>2, <3>1, PathType
  <2>4. path \in Prefixes(path \o PathOf(l))
    BY <2>3, Below
  <2> QED BY <1>1, <1>4, <2>1, <2>3, <2>4
<1> HIDE DEF loc, path, between
<1>8. \A x \in DOMAIN passed \ DOMAIN dottedKeyTables : \E l \in dotted \cup between : Named(l, x)
  BY <1>5, <1>6
<1>9. \A x \in DOMAIN closed \ DOMAIN closedInlineTables : \E l \in r, p \in Seq(Names) :
        Front(l) \notin r /\ PathOf(l) \in Prefixes(p) /\ x = Encode(p)
  <2> SUFFICES ASSUME NEW p \in ValuePaths(path, value)
               PROVE  \E l \in r, q \in Seq(Names) :
                        Front(l) \notin r /\ PathOf(l) \in Prefixes(q) /\ Encode(p) = Encode(q)
    BY <1>5
  <2>1. loc \in r /\ Front(loc) \notin r
    BY <1>3, <1>4
  <2> QED BY <1>7, <2>1
<1>10. \A l \in DOMAIN e \ r : e[l] = "array" =>
         Encode(PathOf(l)) \in DOMAIN E /\ Size(e, l) <= E[Encode(PathOf(l))]
  <2> SUFFICES ASSUME NEW l \in DOMAIN e \ r, e[l] = "array"
               PROVE  Encode(PathOf(l)) \in DOMAIN E /\ Size(e, l) <= E[Encode(PathOf(l))]
    OBVIOUS
  <2>1. l \in DOMAIN f \ sealed /\ f[l] = "array"
    BY <1>3
  <2>2. l \in DOMAIN doc \ sealed /\ doc[l] = "array"
    BY <1>2, <2>1
  <2>3. Size(e, l) = Size(doc, l)
    BY <1>2, <1>3, <2>1, <2>2
  <2> QED BY <2>2, <2>3 DEF Standing, Stands
<1>11. \A l \in DOMAIN doc \ sealed : l \in DOMAIN e \ r /\ e[l] = doc[l]
  BY <1>2, <1>3
<1>12. \A l \in sealed : Front(l) \notin sealed => Front(l) \notin r
  <2>1. \A l \in sealed : Front(l) \in DOMAIN doc
    BY <1>0 DEF Shaped, Rooted
  <2> QED BY <2>1, <1>2, <1>3
<1>13. Stands(doc, sealed, opened, dotted, E, declaredTables, dottedKeyTables, closedInlineTables)
  BY DEF Standing
<1>14. Stands(e, r, opened, dotted \cup between, E, declaredTables, passed, closed)
  <2>1. sealed \subseteq r /\ dotted \subseteq dotted \cup between
    OBVIOUS
  <2>2. \A x \in DOMAIN declaredTables \ DOMAIN declaredTables : \E l \in opened : Named(l, x)
    OBVIOUS
  <2>3. \A x \in DOMAIN E \ DOMAIN E : \E l \in DOMAIN e \ r : e[l] = "array" /\ x = Encode(PathOf(l))
    OBVIOUS
  <2> HIDE DEF r, E
  <2> QED BY ONLY <1>8, <1>9, <1>10, <1>11, <1>12, <1>13, <2>1, <2>2, <2>3, StandsOn
<1> QED BY <1>14 DEF passed, closed, between, path

-----------------------------------------------------------------------------
(* Every refusal is justified, step by step.                               *)

\* RefusalJustified, for any tree, any records and any answer.
JustIn(f, d, c, s, o, t, E, r) ==
  /\ r.kind \in {"table", "array", "key"} /\ << >> \in f.open
  /\ \A e \in DOMAIN E : E[e] = 1
  => ~AllowedIn(d, c, s, o, t, r)

LEMMA JustEq ==
  RefusalJustified <=> JustIn(filter, doc, current, sealed, opened, dotted, arrayTableEpochs, result)
BY AllowedEq DEF RefusalJustified, JustIn, Refused, AsksForAll, arrayTables

LEMMA JustNext ==
  RefusalJustified' <=> JustIn(filter', doc', current', sealed', opened', dotted',
                               arrayTableEpochs', result')
<1>1. (RefusalJustified <=> JustIn(filter, doc, current, sealed, opened, dotted,
                                   arrayTableEpochs, result))'
  BY JustEq, PTL
<1> QED BY <1>1

\* A destination that takes every key passes over no section.
LEMMA AllKnown == ASSUME AsksForAll, NEW path \in Seq(Names) PROVE Known(path)
<1>1. << >> \in Prefixes(path)
  BY PrefixFacts
<1> QED BY <1>1 DEF Known, AsksForAll

\* With AsksForAll the records stay as described; without, counts are made for sections that
\* are not in the tree.
RInv == AsksForAll => Standing

LEMMA ReadingKind == Reading.kind = "reading"
BY DEF Reading, Answer

\* A statement that is read, or the end of the document, refuses nothing.
LEMMA NoRefusal ==
  ASSUME result'.kind \notin {"table", "array", "key"} PROVE RefusalJustified'
BY JustNext DEF JustIn

\* A refusal changes nothing, so its reason can be looked for in the state it is made in.
LEMMA Refusal ==
  ASSUME NEW kind, NEW path, Refuse(kind, path),
         JustIn(filter, doc, current, sealed, opened, dotted, arrayTableEpochs, Answer(kind, path))
  PROVE  RefusalJustified'
<1>1. /\ filter' = filter /\ doc' = doc /\ current' = current /\ sealed' = sealed
      /\ opened' = opened /\ dotted' = dotted /\ arrayTableEpochs' = arrayTableEpochs
      /\ result' = Answer(kind, path)
  BY DEF Refuse, history
<1> QED BY <1>1, JustNext

LEMMA SameJust ==
  ASSUME RefusalJustified,
         UNCHANGED <<filter, doc, current, history, arrayTableEpochs, result>>
  PROVE  RefusalJustified'
<1>1. /\ filter' = filter /\ doc' = doc /\ current' = current /\ sealed' = sealed
      /\ opened' = opened /\ dotted' = dotted /\ arrayTableEpochs' = arrayTableEpochs
      /\ result' = result
  BY DEF history
<1> QED BY <1>1, JustNext, JustEq

LEMMA TableHeaderJust ==
  ASSUME Plain, IInv, RInv, NEW path \in Seq(Names) \ {<< >>}, TableHeader(path)
  PROVE  RInv' /\ RefusalJustified'
<1> DEFINE next == ensureTable(path)
<1>0. result = Reading
  BY DEF TableHeader, Ready
<1>1. CASE (TableClash(path) \/ (Known(path) /\ next = Nowhere)) /\ Refuse("table", path)
  <2>1. RInv'
    BY <1>1, SameStands DEF Refuse, RInv, AsksForAll
  <2>2. ASSUME AsksForAll, Once PROVE ~AllowedIn(doc, current, sealed, opened, dotted, Answer("table", path))
    <3>1. Refusing
      BY <2>2 DEF Refusing, RInv
    <3>2. ~OpenIn(doc, sealed, opened, dotted, next)
      BY <1>1, <3>1, RefusedTable
    <3>3. TableIn(doc, path) = next
      BY TableInEq
    <3>4. Answer("table", path).kind = "table" /\ Answer("table", path).path = path
      BY DEF Answer
    <3> HIDE DEF next
    <3> QED BY <3>2, <3>3, <3>4 DEF AllowedIn
  <2>3. JustIn(filter, doc, current, sealed, opened, dotted, arrayTableEpochs, Answer("table", path))
    BY <2>2 DEF JustIn, AsksForAll, Once
  <2> QED BY <1>1, <2>1, <2>3, Refusal
<1>2. CASE SkipSection /\ ~Known(path)
  <2>1. RInv'
    BY <1>2, AllKnown DEF RInv, SkipSection, AsksForAll
  <2>2. result'.kind = "reading"
    BY <1>0, <1>2, ReadingKind DEF SkipSection
  <2> QED BY <2>1, <2>2, NoRefusal
<1>3. CASE /\ ~TableClash(path) /\ Known(path) /\ next # Nowhere
           /\ EnterSection(next, path)
           /\ declaredTables' = Record(declaredTables, {path})
           /\ UNCHANGED arrayTableEpochs
  <2>1. /\ Way(doc, sealed, next) /\ PathOf(next) = path
        /\ next # << >> /\ Last(next) \in Names
    BY <1>3, HeaderMayOpen
  <2>2. /\ doc' = Grow(doc, next) /\ result' = result
        /\ opened' = opened \cup {next} /\ dotted' = dotted /\ sealed' = sealed
        /\ filter' = filter /\ dottedKeyTables' = dottedKeyTables
        /\ closedInlineTables' = closedInlineTables /\ arrayTableEpochs' = arrayTableEpochs
        /\ declaredTables' = RecordIn(arrayTableEpochs, declaredTables, {path})
    BY <1>3, RecordEq DEF EnterSection
  <2> HIDE DEF next
  <2>3. ASSUME Standing PROVE Standing'
    <3>1. Stands(Grow(doc, next), sealed, opened \cup {next}, dotted, arrayTableEpochs,
                 RecordIn(arrayTableEpochs, declaredTables, {path}), dottedKeyTables, closedInlineTables)
      BY <2>1, <2>3, OpenStands
    <3> QED BY <2>2, <3>1 DEF Standing
  <2>4. RInv'
    BY <2>2, <2>3 DEF RInv, AsksForAll
  <2>5. result'.kind = "reading"
    BY <1>0, <2>2, ReadingKind
  <2> QED BY <2>4, <2>5, NoRefusal
<1> QED BY <1>1, <1>2, <1>3 DEF TableHeader

LEMMA ArrayTableHeaderJust ==
  ASSUME Plain, IInv, RInv, NEW path \in Seq(Names) \ {<< >>}, ArrayTableHeader(path)
  PROVE  RInv' /\ RefusalJustified'
<1> DEFINE parent == ensureTable(Front(path))
           slot == Append(parent, Last(path))
           next == appendArrayTable(path)
<1>0. result = Reading /\ (Encode(path) \in DOMAIN arrayTableEpochs =>
                             arrayTableEpochs[Encode(path)] < MaxEpoch)
  BY DEF ArrayTableHeader, Ready, arrayTables
<1>1. CASE (ArrayClash(path) \/ (Known(path) /\ next = Nowhere)) /\ Refuse("array", path)
  <2>1. RInv'
    BY <1>1, SameStands DEF Refuse, RInv, AsksForAll
  <2>2. ASSUME AsksForAll, Once PROVE ~AllowedIn(doc, current, sealed, opened, dotted, Answer("array", path))
    <3>1. Refusing
      BY <2>2 DEF Refusing, RInv
    <3>2. ~AppendIn(doc, sealed, parent, Append(slot, Size(doc, slot) + 1))
      BY <1>1, <3>1, RefusedArray
    <3>3. TableIn(doc, Front(path)) = parent
      BY TableInEq
    <3>4. Answer("array", path).kind = "array" /\ Answer("array", path).path = path
      BY DEF Answer
    <3> HIDE DEF parent, next
    <3> QED BY <3>2, <3>3, <3>4 DEF AllowedIn
  <2>3. JustIn(filter, doc, current, sealed, opened, dotted, arrayTableEpochs, Answer("array", path))
    BY <2>2 DEF JustIn, AsksForAll, Once
  <2> QED BY <1>1, <2>1, <2>3, Refusal
<1>2. CASE SkipSection /\ ~Known(path)
  <2>1. RInv'
    BY <1>2, AllKnown DEF RInv, SkipSection, AsksForAll
  <2>2. result'.kind = "reading"
    BY <1>0, <1>2, ReadingKind DEF SkipSection
  <2> QED BY <2>1, <2>2, NoRefusal
<1>3. CASE /\ ~ArrayClash(path) /\ Known(path) /\ next # Nowhere
           /\ EnterSection(next, path) /\ CountElement(path) /\ UNCHANGED declaredTables
  <2>1. Lengthened(doc, sealed, parent, Last(path), slot, next, Grow(doc, next)) /\ PathOf(slot) = path
    <3>1. IInv /\ Headed(path, parent, slot, next)
      BY <1>3 DEF Headed
    <3> HIDE DEF parent, slot, next
    <3> QED BY ONLY <3>1, HeaderMayAppend
  <2>2. /\ doc' = Grow(doc, next) /\ result' = result
        /\ opened' = opened \cup {next} /\ dotted' = dotted /\ sealed' = sealed
        /\ filter' = filter /\ dottedKeyTables' = dottedKeyTables
        /\ closedInlineTables' = closedInlineTables /\ declaredTables' = declaredTables
        /\ arrayTableEpochs' = CountIn(arrayTableEpochs, path)
    BY <1>3 DEF EnterSection, CountElement, CountIn, arrayTables
  <2> HIDE DEF next, slot, parent
  <2>3. ASSUME Standing PROVE Standing'
    <3>1. Stands(Grow(doc, next), sealed, opened \cup {next}, dotted, CountIn(arrayTableEpochs, path),
                 declaredTables, dottedKeyTables, closedInlineTables)
      BY <1>0, <2>1, <2>3, AppendStands
    <3> QED BY <2>2, <3>1 DEF Standing
  <2>4. RInv'
    BY <2>2, <2>3 DEF RInv, AsksForAll
  <2>5. result'.kind = "reading"
    BY <1>0, <2>2, ReadingKind
  <2> QED BY <2>4, <2>5, NoRefusal
<1> QED BY <1>1, <1>2, <1>3 DEF ArrayTableHeader

LEMMA SameRInv ==
  ASSUME IInv, RInv, RefusalJustified, UNCHANGED vars PROVE RInv' /\ RefusalJustified'
<1>1. RInv'
  BY SameStands DEF vars, RInv, AsksForAll
<1>2. RefusalJustified'
  BY SameJust DEF vars
<1> QED BY <1>1, <1>2

LEMMA KeyValueJust ==
  ASSUME Plain, IInv, RInv, RefusalJustified, NEW key \in Seq(Names) \ {<< >>},
         NEW value, IsTree(value), KeyValue(key, value)
  PROVE  RInv' /\ RefusalJustified'
<1>0. result = Reading
  BY DEF KeyValue, Ready
<1>1. CASE UNCHANGED vars
  BY <1>1, SameRInv
<1>2. CASE current # Nowhere /\ (KeyClash(key) \/ ~AssignUnique(current \o key)) /\ Refuse("key", key)
  <2>1. RInv'
    BY <1>2, SameStands DEF Refuse, RInv, AsksForAll
  <2>2. ASSUME AsksForAll, Once PROVE ~AllowedIn(doc, current, sealed, opened, dotted, Answer("key", key))
    <3>1. Refusing
      BY <2>2 DEF Refusing, RInv
    <3>2. ~AssignIn(doc, current, sealed, opened, current \o key)
      BY <1>2, <3>1, RefusedKey
    <3>3. Answer("key", key).kind = "key" /\ Answer("key", key).path = key
      BY DEF Answer
    <3> QED BY <3>2, <3>3 DEF AllowedIn
  <2>3. JustIn(filter, doc, current, sealed, opened, dotted, arrayTableEpochs, Answer("key", key))
    BY <2>2 DEF JustIn, AsksForAll, Once
  <2> QED BY <1>2, <2>1, <2>3, Refusal
<1>3. CASE /\ current # Nowhere
           /\ ~KeyClash(key) /\ AssignUnique(current \o key)
           /\ doc' = Put(Grow(doc, Front(current \o key)), current \o key, value)
           /\ dottedKeyTables' = Record(dottedKeyTables, Inner(key))
           /\ closedInlineTables' = Record(closedInlineTables, ValuePaths(currentPath \o key, value))
           /\ dotted' = dotted \cup {current \o SubSeq(key, 1, i) : i \in 1..Len(key) - 1}
           /\ sealed' = sealed \cup {current \o key \o l : l \in DOMAIN value}
           /\ UNCHANGED <<filter, current, currentPath, declaredTables,
                          arrayTableEpochs, inTable, result, opened>>
  <2> DEFINE k == Front(current \o key)
             f == Grow(doc, k)
             added == {current \o key \o l : l \in DOMAIN value}
             e == Put(f, current \o key, value)
             E == arrayTableEpochs
  <2>1. ASSUME Standing
        PROVE  Stands(e, sealed \cup added, opened, dotted \cup Between(current, key), E,
                      declaredTables, RecordIn(E, dottedKeyTables, Inner(key)),
                      RecordIn(E, closedInlineTables, ValuePaths(currentPath \o key, value)))
    <3>1. /\ Plain /\ IInv /\ Standing /\ current # Nowhere /\ key \in Seq(Names) /\ key # << >>
          /\ ~KeyClash(key) /\ AssignUnique(current \o key) /\ IsTree(value)
      BY <1>3, <2>1
    <3>2. k = Front(current \o key) /\ f = Grow(doc, k) /\ e = Put(f, current \o key, value)
          /\ added = {current \o key \o l : l \in DOMAIN value}
      OBVIOUS
    <3> HIDE DEF k, f, added, e
    <3> QED BY ONLY <3>1, <3>2, AssignStands
  <2>2. /\ doc' = e /\ sealed' = sealed \cup added /\ opened' = opened
        /\ dotted' = dotted \cup Between(current, key)
        /\ declaredTables' = declaredTables /\ arrayTableEpochs' = E
        /\ dottedKeyTables' = RecordIn(E, dottedKeyTables, Inner(key))
        /\ closedInlineTables' =
             RecordIn(E, closedInlineTables, ValuePaths(currentPath \o key, value))
        /\ filter' = filter /\ result' = result
    <3>1. /\ Record(dottedKeyTables, Inner(key)) = RecordIn(E, dottedKeyTables, Inner(key))
          /\ Record(closedInlineTables, ValuePaths(currentPath \o key, value))
               = RecordIn(E, closedInlineTables, ValuePaths(currentPath \o key, value))
      BY RecordEq
    <3>2. {current \o SubSeq(key, 1, i) : i \in 1..Len(key) - 1} = Between(current, key)
      BY DEF Between
    <3> HIDE DEF e, added
    <3>3. doc' = e /\ sealed' = sealed \cup added
      BY <1>3 DEF e, added
    <3> QED BY <1>3, <3>1, <3>2, <3>3
  <2> HIDE DEF k, f, added, e
  <2>3. Standing => Standing'
    BY <2>1, <2>2 DEF Standing
  <2>4. RInv'
    BY <2>2, <2>3 DEF RInv, AsksForAll
  <2>5. result'.kind = "reading"
    BY <1>0, <2>2, ReadingKind
  <2> QED BY <2>4, <2>5, NoRefusal
<1> QED BY <1>1, <1>2, <1>3 DEF KeyValue

LEMMA NextJust ==
  ASSUME Plain, IInv, RInv, RefusalJustified, [Next]_vars PROVE RInv' /\ RefusalJustified'
<1>0. /\ HeaderPaths \cup KeyPaths \subseteq Seq(Names) \ {<< >>}
      /\ \A value \in Values : IsTree(value)
  BY TreeAssumption
<1>1. CASE UNCHANGED vars
  BY <1>1, SameRInv
<1>2. ASSUME NEW path \in HeaderPaths, TableHeader(path) PROVE RInv' /\ RefusalJustified'
  BY <1>0, <1>2, TableHeaderJust
<1>3. ASSUME NEW path \in HeaderPaths, ArrayTableHeader(path) PROVE RInv' /\ RefusalJustified'
  BY <1>0, <1>3, ArrayTableHeaderJust
<1>4. ASSUME NEW key \in KeyPaths, NEW value \in Values, KeyValue(key, value)
      PROVE  RInv' /\ RefusalJustified'
  BY <1>0, <1>4, KeyValueJust
<1>5. CASE StrayToken
  <2>1. CASE UNCHANGED vars
    BY <2>1, SameRInv
  <2>2. CASE Refuse("stray", << >>)
    <3>1. result'.kind = "stray"
      BY <2>2 DEF Refuse, Answer
    <3>2. RInv'
      BY <2>2, SameStands DEF Refuse, RInv, AsksForAll
    <3> QED BY <3>1, <3>2, NoRefusal
  <2> QED BY <1>5, <2>1, <2>2 DEF StrayToken
<1>6. CASE EndOfDocument
  <2>1. result'.kind \in {"root", "syntax"}
    BY <1>6 DEF EndOfDocument, Root, Answer
  <2>2. RInv'
    BY <1>6, SameStands DEF EndOfDocument, RInv, AsksForAll
  <2> QED BY <2>1, <2>2, NoRefusal
<1> QED BY <1>1, <1>2, <1>3, <1>4, <1>5, <1>6 DEF Next
-----------------------------------------------------------------------------
(* The theorems                                                            *)

\* Under Plain, the invariant of parseDocument's maps and tree holds in every behaviour.
LEMMA Invariant == ASSUME Plain PROVE Spec => []IInv
<1>1. Plain
  OBVIOUS
<1>2. IInv /\ [Next]_vars => IInv'
  BY <1>1, NextInv
<1> QED BY InitInv, <1>2, PTL DEF Spec

\* The locals of parseDocument keep their types: the current path is that of the current table, and
\* every record names a context that some [[header]] has opened (value.go:56-79, 1338).
THEOREM Typedness == ASSUME Plain PROVE Spec => []TypeOK
<1>1. IInv => TypeOK
  BY DEF IInv
<1> QED BY <1>1, Invariant, PTL

\* Whatever a statement can still reach in the tree, the maps that parseDocument looks its path up in
\* have it as what it is, in the present context, however many elements of arrays of tables began
\* since it was made (value.go:84-96, 121-131, 214-222).
THEOREM RecordsCurrent == ASSUME Plain PROVE Spec => []Bookkeeping
<1>1. IInv => Bookkeeping
  BY DEF IInv
<1> QED BY <1>1, Invariant, PTL

\* parseDocument, which decides by looking up encoded paths, implements the rules that TomlTree states
\* about nodes: it opens no table twice, adds nothing to a value, and nothing by a dotted key to a
\* table that a header has opened (value.go:66-320).
THEOREM ImplementsTree == ASSUME Plain PROVE Spec => TreeSpec
<1>1. Plain
  OBVIOUS
<1>2. IInv /\ [Next]_vars => [Tree!Next]_(Tree!vars)
  BY <1>1, TreeNext
<1> QED BY <1>2, TreeInit, Invariant, PTL DEF Spec, TreeSpec, Tree!Spec

\* A destination that takes every key gets an error only for a statement that the tree does not
\* allow, as long as no array of tables has a second element: the records of declared, dotted and
\* closed paths say nothing of tables that are not there (value.go:78-96, 116-131, 203-222).
THEOREM RefusalsJustified == ASSUME Plain PROVE Spec => []RefusalJustified
<1>1. Plain
  OBVIOUS
<1>2. Init => RInv /\ RefusalJustified
  <2> SUFFICES ASSUME Init PROVE RInv /\ RefusalJustified
    OBVIOUS
  <2>1. result.kind = "reading"
    BY ReadingKind DEF Init
  <2> QED BY <2>1, InitStands DEF RInv, RefusalJustified, Refused
<1>3. IInv /\ RInv /\ RefusalJustified /\ [Next]_vars => RInv' /\ RefusalJustified'
  BY <1>1, NextJust
<1> QED BY <1>2, <1>3, Invariant, PTL DEF Spec
=============================================================================
