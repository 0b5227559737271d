---------------------------- MODULE Pools_proofs ----------------------------
(***************************************************************************)
(* Every pooled object has one owner, whatever the number of callers,      *)
(* objects, calls and their nesting.                                       *)
(***************************************************************************)
EXTENDS Pools, SequenceTheorems, FiniteSetTheorems, TLAPS

Sorts == {"buffer", "keys", "map", "path"}
Object == Nat \cup {None}
FrameType ==
  [op : {"marshal", "encode", "tree", "direct"}, buf : Object, keys : Seq(Nat),
   maps : SUBSET Nat, path : Object, current : Object, keeps : BOOLEAN, wrote : SUBSET Nat]

TypeOK == /\ sort \in Seq(Sorts) /\ pooled \in Seq(Nat) /\ Len(pooled) = Len(sort)
          /\ dirty \subseteq Made /\ large \subseteq Nat /\ held \subseteq Made
          /\ stack \in [Callers -> Seq(FrameType)]
          /\ calls \in [Callers -> Nat]

\* A call has only the objects of its operation, each in one role.
Shaped(f) ==
  /\ f.op \in {"marshal", "encode"} =>
       /\ f.maps = {} /\ f.path = None /\ f.current = None
       /\ f.buf \in Nat \ Range(f.keys) /\ IsInjective(f.keys)
  /\ f.op = "tree" => f.buf = None /\ f.keys = << >> /\ f.path = None /\ f.current = None
  /\ f.op = "direct" => /\ f.buf = None /\ f.keys = << >> /\ f.maps = {}
                        /\ f.path # None => f.path # f.current
Shapes == \A p \in Callers : \A i \in DOMAIN stack[p] : Shaped(stack[p][i])

\* What the call at level i of a caller has, and what it wrote to.
HeldBy(p, i) == IF i \in DOMAIN stack[p] THEN Objects(stack[p][i]) ELSE {}
Wrote(p, i)  == IF i \in DOMAIN stack[p] THEN stack[p][i].wrote ELSE {}

AllMade   == \A p \in Callers, i \in Nat : HeldBy(p, i) \subseteq Made
Separate  == \A p, q \in Callers : \A i, j \in Nat :
               p # q \/ i # j => HeldBy(p, i) \cap HeldBy(q, j) = {}
HeldApart == \A p \in Callers, i \in Nat : HeldBy(p, i) \cap held = {}
\* An object is in its pool at most once, reset, and with nobody else.
PoolSound == \A o \in Made :
               /\ pooled[o] <= 1
               /\ pooled[o] = 1 => /\ o \notin held /\ o \notin dirty
                                   /\ \A p \in Callers, i \in Nat : o \notin HeldBy(p, i)
Clean     == \A p \in Callers, i \in Nat : HeldBy(p, i) \cap dirty \subseteq Wrote(p, i)

Owned == AllMade /\ Separate /\ HeldApart /\ PoolSound /\ Clean
IInv  == TypeOK /\ Shapes /\ Owned
-----------------------------------------------------------------------------
(* One step of one call: it comes to have objects nobody has, gives some   *)
(* back to their pools and others to the client.                           *)

\* The call at level k of p comes to have N and puts back R.
Exchanged(p, k, N, R) ==
  /\ Made \subseteq Made' /\ N \subseteq Made' /\ R \subseteq Made \ N
  /\ \A q \in Callers, j \in Nat :
       q # p \/ j # k => HeldBy(q, j)' = HeldBy(q, j) /\ Wrote(q, j)' = Wrote(q, j)
  /\ HeldBy(p, k)' \subseteq HeldBy(p, k) \cup N
  /\ N \cap held = {} /\ \A q \in Callers, j \in Nat : N \cap HeldBy(q, j) = {}
  /\ R \subseteq HeldBy(p, k) /\ R \cap HeldBy(p, k)' = {} /\ R \cap held' = {}
  /\ \A o \in Made' : pooled'[o] = IF o \in N \/ o \notin Made THEN 0
                                    ELSE pooled[o] + IF o \in R THEN 1 ELSE 0
  /\ \A o \in Made : pooled[o] \in Nat
  /\ held' \subseteq held \cup (HeldBy(p, k) \ HeldBy(p, k)')
  /\ dirty' \subseteq (dirty \cup HeldBy(p, k)') \ R
  /\ HeldBy(p, k)' \cap dirty' \subseteq Wrote(p, k)'

\* Everything else stays with its owner.
LEMMA Exchange ==
  ASSUME NEW p \in Callers, NEW k \in Nat, NEW N, NEW R, Owned, Exchanged(p, k, N, R)
  PROVE  Owned'
<1> USE DEF Exchanged
<1>1. AllMade' BY DEF Owned, AllMade
<1>2. Separate'
  <2>1. ASSUME NEW q \in Callers, NEW j \in Nat, q # p \/ j # k
        PROVE  HeldBy(p, k)' \cap HeldBy(q, j)' = {}
    BY <2>1 DEF Owned, Separate
  <2>2. ASSUME NEW q \in Callers, NEW j \in Nat, NEW r \in Callers, NEW i \in Nat,
               q # r \/ j # i, q # p \/ j # k, r # p \/ i # k
        PROVE  HeldBy(q, j)' \cap HeldBy(r, i)' = {}
    BY <2>2 DEF Owned, Separate
  <2> QED BY <2>1, <2>2 DEF Separate
<1>3. HeldApart'
  <2>1. ASSUME NEW q \in Callers, NEW j \in Nat, q # p \/ j # k
        PROVE  HeldBy(q, j)' \cap held' = {}
    BY <2>1 DEF Owned, Separate, HeldApart
  <2>2. HeldBy(p, k)' \cap held' = {} BY DEF Owned, HeldApart
  <2> QED BY <2>1, <2>2 DEF HeldApart
<1>4. PoolSound'
  <2> SUFFICES ASSUME NEW o \in Made'
               PROVE  /\ pooled'[o] <= 1
                      /\ pooled'[o] = 1 => /\ o \notin held' /\ o \notin dirty'
                                           /\ \A q \in Callers, j \in Nat : o \notin HeldBy(q, j)'
    BY DEF PoolSound
  <2>1. CASE o \in N \/ o \notin Made BY <2>1
  <2>2. CASE o \in R
    <3>1. o \in HeldBy(p, k) /\ o \in Made /\ o \notin N BY <2>2
    <3>2. pooled[o] = 0 BY <3>1 DEF Owned, PoolSound
    <3>3. \A q \in Callers, j \in Nat : q # p \/ j # k => o \notin HeldBy(q, j)'
      BY <3>1 DEF Owned, Separate
    <3> QED BY <2>2, <3>1, <3>2, <3>3
  <2>3. CASE o \notin N /\ o \in Made /\ o \notin R
    <3>1. pooled'[o] = pooled[o] /\ pooled[o] \in Nat BY <2>3
    <3>2. pooled[o] = 1 => /\ o \notin HeldBy(p, k) /\ o \notin dirty /\ o \notin held
                           /\ \A q \in Callers, j \in Nat : o \notin HeldBy(q, j)
      BY <2>3 DEF Owned, PoolSound
    <3>3. pooled[o] = 1 => /\ o \notin HeldBy(p, k)' /\ o \notin dirty' /\ o \notin held'
      BY <2>3, <3>2
    <3>4. pooled[o] = 1 => \A q \in Callers, j \in Nat : o \notin HeldBy(q, j)'
      BY <3>2, <3>3
    <3> QED BY <2>3, <3>1, <3>3, <3>4 DEF Owned, PoolSound
  <2> QED BY <2>1, <2>2, <2>3
<1>5. Clean'
  <2> SUFFICES ASSUME NEW q \in Callers, NEW j \in Nat, q # p \/ j # k
               PROVE  HeldBy(q, j)' \cap dirty' \subseteq Wrote(q, j)'
    BY DEF Clean
  <2>1. HeldBy(q, j)' \cap HeldBy(p, k)' = {} BY <1>2 DEF Separate
  <2> QED BY <2>1 DEF Owned, Clean
<1> QED BY <1>1, <1>2, <1>3, <1>4, <1>5 DEF Owned
-----------------------------------------------------------------------------
(* The three ways a step changes the calls a caller is inside of.          *)

OnlyAt(p, k) ==
  /\ \A q \in Callers, j \in Nat :
       q # p \/ j # k => HeldBy(q, j)' = HeldBy(q, j) /\ Wrote(q, j)' = Wrote(q, j)
  /\ stack' \in [Callers -> Seq(FrameType)]

LEMMA Pushed ==
  ASSUME TypeOK, Shapes, NEW p \in Callers, NEW f \in FrameType, Shaped(f), NEW k, k = Len(stack[p]) + 1,
         stack' = [stack EXCEPT ![p] = Append(@, f)]
  PROVE  /\ k \in Nat /\ HeldBy(p, k) = {} /\ HeldBy(p, k)' = Objects(f)
         /\ Wrote(p, k)' = f.wrote /\ OnlyAt(p, k) /\ Shapes'
<1>1. stack[p] \in Seq(FrameType) BY DEF TypeOK
<1>2. stack'[p] = Append(stack[p], f) /\ \A q \in Callers : q # p => stack'[q] = stack[q]
  BY DEF TypeOK
<1>3. /\ Append(stack[p], f) \in Seq(FrameType) /\ k \in Nat \ {0}
      /\ DOMAIN stack[p] = 1 .. k - 1 /\ DOMAIN Append(stack[p], f) = 1 .. k
      /\ Append(stack[p], f)[k] = f
      /\ \A j \in 1 .. k - 1 : Append(stack[p], f)[j] = stack[p][j]
  BY <1>1, AppendProperties, LenProperties
<1>4. stack' \in [Callers -> Seq(FrameType)] BY <1>3 DEF TypeOK
<1>5. HeldBy(p, k) = {} /\ HeldBy(p, k)' = Objects(f) /\ Wrote(p, k)' = f.wrote
  BY <1>2, <1>3 DEF HeldBy, Wrote, Objects
<1>6. ASSUME NEW q \in Callers, NEW j \in Nat, q # p \/ j # k
      PROVE  HeldBy(q, j)' = HeldBy(q, j) /\ Wrote(q, j)' = Wrote(q, j)
  <2>1. CASE q # p BY <1>2, <2>1 DEF HeldBy, Wrote, Objects
  <2>2. CASE q = p
    <3>1. j \in DOMAIN stack'[p] <=> j \in DOMAIN stack[p] BY <1>2, <1>3, <1>6, <2>2
    <3>2. j \in DOMAIN stack[p] => stack'[p][j] = stack[p][j] BY <1>2, <1>3
    <3>3. CASE j \in DOMAIN stack[p] BY <2>2, <3>1, <3>2, <3>3 DEF HeldBy, Wrote, Objects
    <3>4. CASE j \notin DOMAIN stack[p] BY <2>2, <3>1, <3>4 DEF HeldBy, Wrote, Objects
    <3> QED BY <3>3, <3>4
  <2> QED BY <2>1, <2>2
<1>7. Shapes' BY <1>2, <1>3 DEF Shapes, Shaped
<1> QED BY <1>3, <1>4, <1>5, <1>6, <1>7 DEF OnlyAt

LEMMA TopFrame ==
  ASSUME TypeOK, Shapes, NEW p \in Callers, Busy(p), NEW k, k = Len(stack[p])
  PROVE  /\ stack[p] \in Seq(FrameType) /\ k \in Nat \ {0} /\ DOMAIN stack[p] = 1 .. k
         /\ Top(p) = stack[p][k] /\ Top(p) \in FrameType /\ Shaped(Top(p))
         /\ HeldBy(p, k) = Objects(Top(p)) /\ Wrote(p, k) = Top(p).wrote
         /\ Front(stack[p]) \in Seq(FrameType) /\ Len(Front(stack[p])) = k - 1
         /\ DOMAIN Front(stack[p]) = 1 .. k - 1
         /\ \A j \in 1 .. k - 1 : Front(stack[p])[j] = stack[p][j]
<1>1. stack[p] \in Seq(FrameType) /\ stack[p] # << >> BY DEF TypeOK, Busy
<1>2. k \in Nat \ {0} /\ DOMAIN stack[p] = 1 .. k BY <1>1, EmptySeq, LenProperties
<1>3. Top(p) = stack[p][k] /\ Top(p) \in FrameType BY <1>1, <1>2, ElementOfSeq DEF Top, Last
<1>4. \A j \in 1 .. k - 1 : stack[p][j] \in FrameType BY <1>1, <1>2, ElementOfSeq
<1>5. /\ Front(stack[p]) \in Seq(FrameType) /\ Len(Front(stack[p])) = k - 1
      /\ \A j \in 1 .. k - 1 : Front(stack[p])[j] = stack[p][j]
  BY <1>1, <1>2, <1>4, SubSeqProperties DEF Front
<1>6. DOMAIN Front(stack[p]) = 1 .. k - 1 BY <1>5, LenProperties
<1>7. Shaped(Top(p)) BY <1>2, <1>3 DEF Shapes
<1>8. HeldBy(p, k) = Objects(Top(p)) /\ Wrote(p, k) = Top(p).wrote
  BY <1>2, <1>3 DEF HeldBy, Wrote
<1> QED BY <1>1, <1>2, <1>3, <1>5, <1>6, <1>7, <1>8

LEMMA Replaced ==
  ASSUME TypeOK, Shapes, NEW p \in Callers, Busy(p), NEW k, k = Len(stack[p]),
         NEW f \in FrameType, Shaped(f), Replace(p, f)
  PROVE  HeldBy(p, k)' = Objects(f) /\ Wrote(p, k)' = f.wrote /\ OnlyAt(p, k) /\ Shapes'
<1> DEFINE s == Append(Front(stack[p]), f)
<1>1. stack'[p] = s /\ \A q \in Callers : q # p => stack'[q] = stack[q]
  BY DEF Replace, TypeOK
<1>2. /\ s \in Seq(FrameType) /\ DOMAIN s = 1 .. k /\ s[k] = f
      /\ \A j \in 1 .. k - 1 : s[j] = stack[p][j]
      /\ k \in Nat \ {0} /\ DOMAIN stack[p] = 1 .. k
  <2>1. /\ Front(stack[p]) \in Seq(FrameType) /\ Len(Front(stack[p])) = k - 1
        /\ \A j \in 1 .. k - 1 : Front(stack[p])[j] = stack[p][j]
        /\ k \in Nat \ {0} /\ DOMAIN stack[p] = 1 .. k
    BY TopFrame
  <2>2. s \in Seq(FrameType) /\ Len(s) = k /\ s[k] = f /\ DOMAIN s = 1 .. Len(s)
    BY <2>1, AppendProperties, LenProperties
  <2>3. \A j \in 1 .. k - 1 : s[j] = Front(stack[p])[j]
    BY <2>1, AppendProperties
  <2> QED BY <2>1, <2>2, <2>3
<1>3. stack' \in [Callers -> Seq(FrameType)] BY <1>2 DEF TypeOK, Replace
<1>4. HeldBy(p, k)' = Objects(f) /\ Wrote(p, k)' = f.wrote
  BY <1>1, <1>2 DEF HeldBy, Wrote, Objects
<1>5. ASSUME NEW q \in Callers, NEW j \in Nat, q # p \/ j # k
      PROVE  HeldBy(q, j)' = HeldBy(q, j) /\ Wrote(q, j)' = Wrote(q, j)
  <2>1. CASE q # p BY <1>1, <2>1 DEF HeldBy, Wrote, Objects
  <2>2. CASE q = p
    <3>1. DOMAIN stack'[p] = DOMAIN stack[p] BY <1>1, <1>2
    <3>2. j \in DOMAIN stack[p] => stack'[p][j] = stack[p][j] BY <1>1, <1>2, <1>5, <2>2
    <3> QED BY <2>2, <3>1, <3>2 DEF HeldBy, Wrote, Objects
  <2> QED BY <2>1, <2>2
<1>6. Shapes'
  <2>1. ASSUME NEW q \in Callers, NEW j \in DOMAIN stack'[q] PROVE Shaped(stack'[q][j])
    <3>1. CASE q # p BY <1>1, <2>1, <3>1 DEF Shapes
    <3>2. CASE q = p /\ j = k BY <1>1, <1>2, <3>2
    <3>3. CASE q = p /\ j # k
      <4>1. j \in 1 .. k - 1 BY <1>1, <1>2, <2>1, <3>3
      <4> QED BY <1>1, <1>2, <3>3, <4>1 DEF Shapes
    <3> QED BY <3>1, <3>2, <3>3
  <2> QED BY <2>1 DEF Shapes, Shaped
<1> QED BY <1>3, <1>4, <1>5, <1>6 DEF OnlyAt

LEMMA Popped ==
  ASSUME TypeOK, Shapes, NEW p \in Callers, Busy(p), NEW k, k = Len(stack[p]), Pop(p)
  PROVE  HeldBy(p, k)' = {} /\ OnlyAt(p, k) /\ Shapes'
<1>1. stack'[p] = Front(stack[p]) /\ \A q \in Callers : q # p => stack'[q] = stack[q]
  BY DEF Pop, TypeOK
<1>2. /\ Front(stack[p]) \in Seq(FrameType) /\ DOMAIN Front(stack[p]) = 1 .. k - 1
      /\ \A j \in 1 .. k - 1 : Front(stack[p])[j] = stack[p][j]
      /\ k \in Nat \ {0} /\ DOMAIN stack[p] = 1 .. k
  BY TopFrame
<1>3. stack' \in [Callers -> Seq(FrameType)] BY <1>2 DEF TypeOK, Pop
<1>4. HeldBy(p, k)' = {} BY <1>1, <1>2 DEF HeldBy
<1>5. ASSUME NEW q \in Callers, NEW j \in Nat, q # p \/ j # k
      PROVE  HeldBy(q, j)' = HeldBy(q, j) /\ Wrote(q, j)' = Wrote(q, j)
  <2>1. CASE q # p BY <1>1, <2>1 DEF HeldBy, Wrote, Objects
  <2>2. CASE q = p
    <3>1. j \in DOMAIN stack'[p] <=> j \in DOMAIN stack[p] BY <1>1, <1>2, <1>5, <2>2
    <3>2. j \in DOMAIN stack'[p] => stack'[p][j] = stack[p][j] BY <1>1, <1>2
    <3> QED BY <2>2, <3>1, <3>2 DEF HeldBy, Wrote, Objects
  <2> QED BY <2>1, <2>2
<1>6. Shapes'
  <2>1. ASSUME NEW q \in Callers, NEW j \in DOMAIN stack'[q] PROVE Shaped(stack'[q][j])
    <3>1. CASE q # p BY <1>1, <2>1, <3>1 DEF Shapes
    <3>2. CASE q = p
      <4>1. j \in 1 .. k - 1 BY <1>1, <1>2, <2>1, <3>2
      <4> QED BY <1>1, <1>2, <3>2, <4>1 DEF Shapes
    <3> QED BY <3>1, <3>2
  <2> QED BY <2>1 DEF Shapes, Shaped
<1> QED BY <1>3, <1>4, <1>5, <1>6 DEF OnlyAt
-----------------------------------------------------------------------------
(* Taking an object from a pool and putting objects back.                  *)

LEMMA Counted == ASSUME NEW n \in Nat PROVE Cardinality(1 .. n) = n
<1>1. 1 \in Int /\ n \in Int OBVIOUS
<1>2. Cardinality(1 .. n) = IF 1 > n THEN 0 ELSE n - 1 + 1 BY ONLY <1>1, FS_Interval
<1> QED BY <1>2

\* What Get answers is with nobody, and reset.
LEMMA Taken ==
  ASSUME TypeOK, Owned, NEW o \in 1 .. MaxObjects, NEW kind \in Sorts, Got(o, kind), Take(o, kind)
  PROVE  /\ sort' \in Seq(Sorts) /\ pooled' \in Seq(Nat) /\ Len(pooled') = Len(sort')
         /\ Made \subseteq Made' /\ o \in Made' /\ o \in Nat /\ o \notin held /\ o \notin dirty
         /\ \A q \in Callers, j \in Nat : o \notin HeldBy(q, j)
         /\ \A x \in Made' : pooled'[x] = IF x = o \/ x \notin Made THEN 0 ELSE pooled[x]
<1> DEFINE n == Len(sort)
<1>1. /\ n \in Nat /\ Made = 1 .. n /\ Len(pooled) = n /\ DOMAIN pooled = 1 .. n
      /\ \A x \in 1 .. n : pooled[x] \in Nat
      /\ o \in Nat
  BY LenProperties, ElementOfSeq, PoolsAssumption DEF TypeOK, Made
<1>2. CASE o \in Made
  <2>1. pooled[o] = 1
    <3>1. pooled[o] > 0
      <4>1. Cardinality(1 .. n) = n BY <1>1, Counted
      <4> QED BY <1>1, <1>2, <4>1 DEF Got
    <3> QED BY <1>1, <1>2, <3>1 DEF Owned, PoolSound
  <2>2. sort' = sort /\ pooled' = [pooled EXCEPT ![o] = @ - 1] BY <1>2 DEF Take
  <2>3. pooled' \in Seq(Nat) /\ Len(pooled') = n
    BY <1>1, <1>2, <2>1, <2>2, ExceptSeq DEF TypeOK
  <2>4. \A x \in 1 .. n : pooled'[x] = IF x = o THEN 0 ELSE pooled[x]
    BY <1>1, <1>2, <2>1, <2>2
  <2>5. /\ o \notin held /\ o \notin dirty
        /\ \A q \in Callers, j \in Nat : o \notin HeldBy(q, j)
    BY <1>2, <2>1 DEF Owned, PoolSound
  <2> QED BY <1>1, <1>2, <2>2, <2>3, <2>4, <2>5 DEF TypeOK, Made
<1>3. CASE o \notin Made
  <2>1. o = n + 1
    <3>1. Cardinality(1 .. n) = n BY <1>1, Counted
    <3> QED BY <1>1, <1>3, <3>1 DEF Got
  <2>2. sort' = Append(sort, kind) /\ pooled' = Append(pooled, 0) BY <1>3 DEF Take
  <2>3. /\ sort' \in Seq(Sorts) /\ Len(sort') = n + 1 /\ DOMAIN sort' = 1 .. n + 1
    BY <2>2, AppendProperties, LenProperties DEF TypeOK
  <2>4. /\ pooled' \in Seq(Nat) /\ Len(pooled') = n + 1 /\ pooled'[n + 1] = 0
        /\ \A x \in 1 .. n : pooled'[x] = pooled[x]
    BY <1>1, <2>2, AppendProperties DEF TypeOK
  <2>5. /\ o \notin held /\ o \notin dirty
        /\ \A q \in Callers, j \in Nat : o \notin HeldBy(q, j)
    BY <1>3 DEF Owned, AllMade, TypeOK
  <2>6. Made' = 1 .. n + 1 BY <2>3 DEF Made
  <2>7. \A x \in Made' : pooled'[x] = IF x = o \/ x \notin Made THEN 0 ELSE pooled[x]
    BY <1>1, <2>1, <2>4, <2>6
  <2> QED BY <1>1, <2>1, <2>3, <2>4, <2>5, <2>6, <2>7
<1> QED BY <1>2, <1>3

LEMMA PutBack ==
  ASSUME TypeOK, NEW R, Put(R), sort' = sort
  PROVE  /\ pooled' \in Seq(Nat) /\ Len(pooled') = Len(sort')
         /\ \A x \in Made' : pooled'[x] = pooled[x] + IF x \in R THEN 1 ELSE 0
<1> DEFINE n == Len(sort)
<1>1. n \in Nat /\ Made = 1 .. n /\ Made' = 1 .. n /\ \A x \in 1 .. n : pooled[x] \in Nat
  BY LenProperties, ElementOfSeq DEF TypeOK, Made
<1>2. pooled' = [x \in 1 .. n |-> pooled[x] + IF x \in R THEN 1 ELSE 0] BY <1>1 DEF Put
<1>3. \A x \in 1 .. n : pooled[x] + (IF x \in R THEN 1 ELSE 0) \in Nat BY <1>1
<1>4. pooled' \in [1 .. n -> Nat] BY <1>2, <1>3
<1>5. pooled' \in Seq(Nat) /\ Len(pooled') = n BY <1>1, <1>4, SeqDef, LenProperties
<1> QED BY <1>1, <1>2, <1>5

LEMMA Takes ==
  ASSUME IInv, NEW p \in Callers, NEW k \in Nat, OnlyAt(p, k),
         NEW o \in 1 .. MaxObjects, NEW kind \in Sorts, Got(o, kind), Take(o, kind),
         HeldBy(p, k)' \subseteq HeldBy(p, k) \cup {o}, Wrote(p, k) \subseteq Wrote(p, k)',
         dirty' \subseteq dirty, held' = held, large' = large, calls' \in [Callers -> Nat]
  PROVE  TypeOK' /\ Owned'
<1>1. TypeOK /\ Owned BY DEF IInv
<1>2. /\ sort' \in Seq(Sorts) /\ pooled' \in Seq(Nat) /\ Len(pooled') = Len(sort')
      /\ Made \subseteq Made' /\ o \in Made' /\ o \notin held /\ o \notin dirty
      /\ \A q \in Callers, j \in Nat : o \notin HeldBy(q, j)
      /\ \A x \in Made' : pooled'[x] = IF x = o \/ x \notin Made THEN 0 ELSE pooled[x]
  BY <1>1, Taken
<1>3. \A x \in Made : pooled[x] \in Nat BY <1>1, ElementOfSeq, LenProperties DEF TypeOK, Made
<1>4. \A x \in Made' : pooled'[x] = IF x \in {o} \/ x \notin Made THEN 0
                                    ELSE pooled[x] + IF x \in {} THEN 1 ELSE 0
  BY <1>2, <1>3
<1>5. HeldBy(p, k)' \cap dirty' \subseteq Wrote(p, k)'
  BY <1>1, <1>2 DEF Owned, Clean
<1>6. \A q \in Callers, j \in Nat :
         q # p \/ j # k => HeldBy(q, j)' = HeldBy(q, j) /\ Wrote(q, j)' = Wrote(q, j)
  BY DEF OnlyAt
<1>7. Owned'
  <2>1. Exchanged(p, k, {o}, {}) BY <1>2, <1>3, <1>4, <1>5, <1>6 DEF Exchanged
  <2> QED BY <1>1, <2>1, Exchange
<1>8. TypeOK' BY <1>1, <1>2 DEF TypeOK, OnlyAt
<1> QED BY <1>7, <1>8

LEMMA Gives ==
  ASSUME IInv, NEW p \in Callers, NEW k \in Nat, OnlyAt(p, k), NEW R, Put(R), sort' = sort,
         R \subseteq HeldBy(p, k) \ HeldBy(p, k)', HeldBy(p, k)' \subseteq HeldBy(p, k),
         dirty' \subseteq (dirty \cup HeldBy(p, k)') \ R,
         HeldBy(p, k)' \cap dirty' \subseteq Wrote(p, k)',
         held \subseteq held', held' \subseteq held \cup ((HeldBy(p, k) \ HeldBy(p, k)') \ R),
         large' = large, calls' = calls
  PROVE  TypeOK' /\ Owned'
<1>1. TypeOK /\ Owned BY DEF IInv
<1>2. /\ pooled' \in Seq(Nat) /\ Len(pooled') = Len(sort') /\ Made' = Made
      /\ \A x \in Made' : pooled'[x] = pooled[x] + IF x \in R THEN 1 ELSE 0
  BY <1>1, PutBack DEF Made
<1>3. \A x \in Made : pooled[x] \in Nat BY <1>1, ElementOfSeq, LenProperties DEF TypeOK, Made
<1>4. HeldBy(p, k) \subseteq Made /\ HeldBy(p, k) \cap held = {}
  BY <1>1 DEF Owned, AllMade, HeldApart
<1>5. \A q \in Callers, j \in Nat :
         q # p \/ j # k => HeldBy(q, j)' = HeldBy(q, j) /\ Wrote(q, j)' = Wrote(q, j)
  BY DEF OnlyAt
<1>6. Owned'
  <2>1. Exchanged(p, k, {}, R) BY <1>2, <1>3, <1>4, <1>5 DEF Exchanged
  <2> QED BY <1>1, <2>1, Exchange
<1>7. TypeOK'
  <2>1. dirty' \subseteq Made' /\ held' \subseteq Made' /\ large' \subseteq Nat
    BY <1>1, <1>2, <1>4 DEF TypeOK
  <2> QED BY <1>1, <1>2, <2>1 DEF TypeOK, OnlyAt
<1> QED BY <1>6, <1>7
-----------------------------------------------------------------------------
(* The operations.                                                         *)

\* A call begins with an object of a pool, in the role of f.
LEMMA BeginsWith ==
  ASSUME IInv, NEW p \in Callers, NEW o \in 1 .. MaxObjects, NEW kind \in Sorts,
         NEW f \in FrameType, Shaped(f), Objects(f) = {o},
         Got(o, kind), Take(o, kind), stack' = [stack EXCEPT ![p] = Append(@, f)],
         dirty' = dirty \ {o}, Count(p), large' = large, held' = held
  PROVE  IInv'
<1> PICK k : k = Len(stack[p]) + 1 OBVIOUS
<1>1. TypeOK /\ Shapes BY DEF IInv
<1>2. /\ k \in Nat /\ HeldBy(p, k) = {} /\ HeldBy(p, k)' = {o} /\ Wrote(p, k) \subseteq Wrote(p, k)'
      /\ OnlyAt(p, k) /\ Shapes'
  <2>1. Wrote(p, k) = {}
    <3>1. stack[p] \in Seq(FrameType) BY <1>1 DEF TypeOK
    <3>2. k \notin DOMAIN stack[p] BY <3>1, LenProperties
    <3> QED BY <3>2 DEF Wrote
  <2> QED BY <1>1, <2>1, Pushed
<1>3. calls' \in [Callers -> Nat] BY <1>1 DEF Count, TypeOK
<1>4. TypeOK' /\ Owned' BY <1>2, <1>3, Takes
<1> QED BY <1>2, <1>4 DEF IInv

\* A call comes to have one more object of a pool, f instead of its frame.
LEMMA ComesToHave ==
  ASSUME IInv, NEW p \in Callers, Busy(p), NEW o \in 1 .. MaxObjects, NEW kind \in Sorts,
         NEW f \in FrameType, Shaped(f), Objects(f) \subseteq Objects(Top(p)) \cup {o},
         f.wrote = Top(p).wrote, Got(o, kind), Take(o, kind), Replace(p, f),
         dirty' \subseteq dirty, large' = large, calls' = calls, held' = held
  PROVE  IInv'
<1> PICK k : k = Len(stack[p]) OBVIOUS
<1>1. TypeOK /\ Shapes BY DEF IInv
<1>2. HeldBy(p, k) = Objects(Top(p)) /\ Wrote(p, k) = Top(p).wrote /\ k \in Nat
  BY <1>1, TopFrame
<1>3. HeldBy(p, k)' = Objects(f) /\ Wrote(p, k)' = f.wrote /\ OnlyAt(p, k) /\ Shapes'
  BY <1>1, Replaced
<1>4. calls' \in [Callers -> Nat] BY <1>1 DEF TypeOK
<1>5. TypeOK' /\ Owned' BY <1>2, <1>3, <1>4, Takes
<1> QED BY <1>3, <1>5 DEF IInv

\* A call goes on as f and puts back R.
LEMMA GoesOn ==
  ASSUME IInv, NEW p \in Callers, Busy(p), NEW f \in FrameType, Shaped(f), NEW R,
         Replace(p, f), Put(R), Objects(f) \subseteq Objects(Top(p)),
         R \subseteq Objects(Top(p)) \ Objects(f),
         Top(p).wrote \cap Objects(f) \subseteq f.wrote,
         dirty' \subseteq (dirty \cup (f.wrote \cap Objects(f))) \ R,
         UNCHANGED <<sort, large, calls, held>>
  PROVE  IInv'
<1> PICK k : k = Len(stack[p]) OBVIOUS
<1>1. TypeOK /\ Shapes /\ Owned BY DEF IInv
<1>2. HeldBy(p, k) = Objects(Top(p)) /\ Wrote(p, k) = Top(p).wrote /\ k \in Nat
  BY <1>1, TopFrame
<1>3. HeldBy(p, k)' = Objects(f) /\ Wrote(p, k)' = f.wrote /\ OnlyAt(p, k) /\ Shapes'
  BY <1>1, Replaced
<1>4. HeldBy(p, k) \cap dirty \subseteq Wrote(p, k) BY <1>1, <1>2 DEF Owned, Clean
<1>5. HeldBy(p, k)' \cap dirty' \subseteq Wrote(p, k)' BY <1>2, <1>3, <1>4
<1>6. TypeOK' /\ Owned' BY <1>2, <1>3, <1>5, Gives
<1> QED BY <1>3, <1>6 DEF IInv

\* A call ends: some of its objects go back, others to the client.
LEMMA GoesAway ==
  ASSUME IInv, NEW p \in Callers, Busy(p), NEW R, NEW H, Pop(p), Put(R),
         R \subseteq Objects(Top(p)), H \subseteq Objects(Top(p)) \ R, held' = held \cup H,
         dirty' \subseteq dirty \ R, UNCHANGED <<sort, large, calls>>
  PROVE  IInv'
<1> PICK k : k = Len(stack[p]) OBVIOUS
<1>1. TypeOK /\ Shapes BY DEF IInv
<1>2. HeldBy(p, k) = Objects(Top(p)) /\ k \in Nat BY <1>1, TopFrame
<1>3. HeldBy(p, k)' = {} /\ OnlyAt(p, k) /\ Shapes' BY <1>1, Popped
<1>4. TypeOK' /\ Owned' BY <1>2, <1>3, Gives
<1> QED BY <1>3, <1>4 DEF IInv

LEMMA StartsOwned == Init => IInv
<1> SUFFICES ASSUME Init PROVE IInv
  OBVIOUS
<1>1. Made = {} BY DEF Init, Made
<1>2. TypeOK BY <1>1 DEF Init, TypeOK
<1>3. \A p \in Callers, i \in Nat : HeldBy(p, i) = {} BY DEF Init, HeldBy
<1>4. Owned BY <1>1, <1>3 DEF Owned, AllMade, Separate, HeldApart, PoolSound, Clean
<1>5. Shapes BY DEF Init, Shapes
<1> QED BY <1>2, <1>4, <1>5 DEF IInv
-----------------------------------------------------------------------------
(* Each action preserves the invariant.                                    *)

LEMMA FreshFrame ==
  ASSUME NEW op \in {"marshal", "encode", "tree", "direct"}
  PROVE  Frame(op) \in FrameType
<1>1. << >> \in Seq(Nat) BY EmptySeq
<1> QED BY <1>1 DEF Frame, FrameType, Object

LEMMA NothingPut == ASSUME TypeOK, pooled' = pooled PROVE Put({})
<1> DEFINE n == Len(sort)
<1>1. n \in Nat /\ Made = 1 .. n /\ DOMAIN pooled = 1 .. n /\ \A x \in 1 .. n : pooled[x] \in Nat
  BY LenProperties, ElementOfSeq DEF TypeOK, Made
<1>2. pooled = [x \in 1 .. n |-> pooled[x]] BY <1>1, EmptySeq DEF TypeOK
<1>3. \A x \in 1 .. n : pooled[x] + (IF x \in {} THEN 1 ELSE 0) = pooled[x] BY <1>1
<1>4. [x \in 1 .. n |-> pooled[x]] = [x \in 1 .. n |-> pooled[x] + IF x \in {} THEN 1 ELSE 0]
  BY <1>3
<1> QED BY <1>1, <1>2, <1>4 DEF Put

LEMMA BeginMarshalOwned ==
  ASSUME IInv, NEW p \in Callers, NEW o \in 1 .. MaxObjects, NEW op \in {"marshal", "encode"},
         BeginMarshal(p, op, o)
  PROVE  IInv'
<1> DEFINE f == [Frame(op) EXCEPT !.buf = o]
<1>1. Frame(op) \in FrameType BY FreshFrame
<1>2. o \in Nat /\ o # None BY PoolsAssumption
<1>3. f \in FrameType BY <1>1, <1>2 DEF FrameType, Object
<1>4. f.buf = o /\ f.path = None /\ f.current = None /\ f.keys = << >> /\ f.maps = {} /\ f.op = op
  BY DEF Frame
<1>5. Range(f.keys) = {} /\ IsInjective(f.keys) BY <1>4 DEF Range, IsInjective
<1>6. Objects(f) = {o} BY <1>2, <1>4, <1>5 DEF Objects
<1>7. Shaped(f) BY <1>2, <1>4, <1>5 DEF Shaped
<1>8. "buffer" \in Sorts BY DEF Sorts
<1>9. /\ Got(o, "buffer") /\ Take(o, "buffer") /\ stack' = [stack EXCEPT ![p] = Append(@, f)]
      /\ dirty' = dirty \ {o} /\ Count(p) /\ large' = large /\ held' = held
  BY DEF BeginMarshal
<1> HIDE DEF f
<1> QED BY <1>3, <1>6, <1>7, <1>8, <1>9, BeginsWith

LEMMA BeginTreeOwned ==
  ASSUME IInv, NEW p \in Callers, NEW o \in 1 .. MaxObjects, NEW keeps \in BOOLEAN,
         BeginTree(p, o, keeps)
  PROVE  IInv'
<1> DEFINE f == [Frame("tree") EXCEPT !.maps = {o}, !.keeps = keeps]
<1>1. Frame("tree") \in FrameType BY FreshFrame
<1>2. o \in Nat /\ o # None BY PoolsAssumption
<1>3. f \in FrameType BY <1>1, <1>2 DEF FrameType, Object
<1>4. f.buf = None /\ f.path = None /\ f.current = None /\ f.keys = << >> /\ f.maps = {o} /\ f.op = "tree"
  BY DEF Frame
<1>5. Range(f.keys) = {} BY <1>4 DEF Range
<1>6. Objects(f) = {o} BY <1>2, <1>4, <1>5 DEF Objects
<1>7. Shaped(f) BY <1>4 DEF Shaped
<1>8. "map" \in Sorts BY DEF Sorts
<1>9. /\ Got(o, "map") /\ Take(o, "map") /\ stack' = [stack EXCEPT ![p] = Append(@, f)]
      /\ dirty' = dirty \ {o} /\ Count(p) /\ large' = large /\ held' = held
  BY DEF BeginTree
<1> HIDE DEF f
<1> QED BY <1>3, <1>6, <1>7, <1>8, <1>9, BeginsWith

LEMMA BeginDirectOwned ==
  ASSUME IInv, NEW p \in Callers, BeginDirect(p)
  PROVE  IInv'
<1> PICK k : k = Len(stack[p]) + 1 OBVIOUS
<1> PICK f : f = Frame("direct") OBVIOUS
<1>1. TypeOK /\ Shapes BY DEF IInv
<1>2. f \in FrameType BY FreshFrame
<1>3. f.buf = None /\ f.path = None /\ f.current = None /\ f.keys = << >> /\ f.maps = {} /\ f.op = "direct"
  BY DEF Frame
<1>4. Objects(f) = {} /\ Shaped(f) BY <1>3 DEF Objects, Range, Shaped
<1>5. stack' = [stack EXCEPT ![p] = Append(@, f)] BY DEF BeginDirect
<1>6. k \in Nat /\ HeldBy(p, k) = {} /\ HeldBy(p, k)' = {} /\ OnlyAt(p, k) /\ Shapes'
  BY <1>1, <1>2, <1>4, <1>5, Pushed
<1>7. Exchanged(p, k, {}, {})
  <2>1. \A x \in Made : pooled[x] \in Nat
    BY <1>1, ElementOfSeq, LenProperties DEF TypeOK, Made
  <2> QED BY <1>6, <2>1 DEF Exchanged, OnlyAt, BeginDirect, Made
<1>8. Owned' BY <1>6, <1>7, Exchange DEF IInv
<1>9. TypeOK' BY <1>1, <1>6 DEF TypeOK, OnlyAt, BeginDirect, Count, Made
<1> QED BY <1>6, <1>8, <1>9 DEF IInv

\* The frame of an operation on the way.
LEMMA DoingTop ==
  ASSUME IInv, NEW p \in Callers, NEW ops, Doing(p, ops)
  PROVE  Busy(p) /\ Top(p) \in FrameType /\ Shaped(Top(p)) /\ Top(p).op \in ops /\ TypeOK /\ Shapes
BY TopFrame DEF IInv, Doing

LEMMA KeysAppended ==
  ASSUME NEW s \in Seq(Nat), NEW o \in Nat
  PROVE  /\ Append(s, o) \in Seq(Nat) /\ Range(Append(s, o)) = Range(s) \cup {o}
         /\ IsInjective(s) /\ o \notin Range(s) => IsInjective(Append(s, o))
<1>1. /\ Append(s, o) \in Seq(Nat) /\ DOMAIN s = 1 .. Len(s) /\ Len(s) \in Nat
      /\ DOMAIN Append(s, o) = 1 .. Len(s) + 1 /\ Append(s, o)[Len(s) + 1] = o
      /\ \A i \in 1 .. Len(s) : Append(s, o)[i] = s[i]
  BY AppendProperties, LenProperties
<1>2. Range(Append(s, o)) = Range(s) \cup {o} BY <1>1 DEF Range
<1>3. ASSUME IsInjective(s), o \notin Range(s) PROVE IsInjective(Append(s, o))
  BY <1>1, <1>3 DEF IsInjective, Range
<1> QED BY <1>1, <1>2, <1>3

LEMMA KeysLeft ==
  ASSUME NEW s \in Seq(Nat), s # << >>, IsInjective(s)
  PROVE  /\ Front(s) \in Seq(Nat) /\ Last(s) \in Range(s) /\ IsInjective(Front(s))
         /\ Range(Front(s)) = Range(s) \ {Last(s)}
<1>1. DOMAIN s = 1 .. Len(s) /\ Len(s) \in Nat \ {0} /\ \A i \in 1 .. Len(s) : s[i] \in Nat
  BY EmptySeq, LenProperties, ElementOfSeq
<1>2. /\ Front(s) \in Seq(Nat) /\ Len(Front(s)) = Len(s) - 1
      /\ \A i \in 1 .. Len(s) - 1 : Front(s)[i] = s[i]
  BY <1>1, SubSeqProperties DEF Front
<1>3. DOMAIN Front(s) = 1 .. Len(s) - 1 BY <1>2, LenProperties
<1>4. IsInjective(Front(s))
  <2>1. ASSUME NEW i \in 1 .. Len(s) - 1, NEW j \in 1 .. Len(s) - 1, s[i] = s[j] PROVE i = j
    BY <1>1, <2>1 DEF IsInjective
  <2> QED BY <1>2, <1>3, <2>1 DEF IsInjective
<1>5. Range(Front(s)) = Range(s) \ {Last(s)}
  <2>1. \A i \in 1 .. Len(s) - 1 : s[i] # s[Len(s)] BY <1>1 DEF IsInjective
  <2>2. ASSUME NEW o \in Range(Front(s)) PROVE o \in Range(s) /\ o # Last(s)
    <3>1. PICK i \in 1 .. Len(s) - 1 : o = s[i] BY <1>2, <1>3 DEF Range
    <3>2. i \in 1 .. Len(s) BY <1>1
    <3> QED BY <1>1, <2>1, <3>1, <3>2 DEF Range, Last
  <2>3. ASSUME NEW o \in Range(s), o # Last(s) PROVE o \in Range(Front(s))
    <3>1. PICK i \in 1 .. Len(s) : o = s[i] BY <1>1 DEF Range
    <3>2. i \in 1 .. Len(s) - 1 BY <1>1, <2>3, <3>1 DEF Last
    <3> QED BY <1>2, <1>3, <3>1, <3>2 DEF Range
  <2> QED BY <2>2, <2>3
<1>6. Last(s) \in Range(s) BY <1>1 DEF Last, Range
<1> QED BY <1>2, <1>4, <1>5, <1>6

LEMMA EnterMapOwned ==
  ASSUME IInv, NEW p \in Callers, NEW o \in 1 .. MaxObjects, EnterMap(p, o)
  PROVE  IInv'
<1> PICK t : t = Top(p) OBVIOUS
<1> DEFINE f == [t EXCEPT !.keys = Append(@, o)]
<1>1. /\ Busy(p) /\ t \in FrameType /\ Shaped(t) /\ t.op \in {"marshal", "encode"} /\ TypeOK
  BY DoingTop DEF EnterMap
<1>2. Got(o, "keys") /\ Take(o, "keys") /\ Replace(p, f) /\ dirty' = dirty \ {o}
      /\ large' = large /\ calls' = calls /\ held' = held
  BY DEF EnterMap
<1>3. "keys" \in Sorts /\ o \in Nat BY PoolsAssumption DEF Sorts
<1>4. t.keys \in Seq(Nat) BY <1>1 DEF FrameType
<1>5. \A q \in Callers, j \in Nat : o \notin HeldBy(q, j) BY <1>1, <1>2, <1>3, Taken DEF IInv
<1>6. o \notin Objects(t)
  <2>1. Len(stack[p]) \in Nat /\ HeldBy(p, Len(stack[p])) = Objects(t)
    BY <1>1, TopFrame DEF IInv
  <2> QED BY <1>5, <2>1
<1>7. /\ f.keys = Append(t.keys, o) /\ f.buf = t.buf /\ f.maps = t.maps /\ f.path = t.path
      /\ f.current = t.current /\ f.op = t.op /\ f.wrote = t.wrote
  BY <1>1 DEF FrameType
<1>8. o \notin Range(t.keys) /\ o # t.buf
  BY <1>3, <1>6, PoolsAssumption DEF Objects
<1>9. /\ f.keys \in Seq(Nat) /\ Range(f.keys) = Range(t.keys) \cup {o}
      /\ IsInjective(t.keys) => IsInjective(f.keys)
  BY <1>3, <1>4, <1>7, <1>8, KeysAppended
<1>10. f \in FrameType BY <1>1, <1>7, <1>9 DEF FrameType
<1>11. Shaped(f) BY <1>1, <1>7, <1>8, <1>9 DEF Shaped
<1>12. Objects(f) \subseteq Objects(t) \cup {o} BY <1>7, <1>9 DEF Objects
<1> HIDE DEF f
<1> QED BY <1>1, <1>2, <1>3, <1>7, <1>10, <1>11, <1>12, ComesToHave

LEMMA NewMapOwned ==
  ASSUME IInv, NEW p \in Callers, NEW o \in 1 .. MaxObjects, NewMap(p, o)
  PROVE  IInv'
<1> PICK t : t = Top(p) OBVIOUS
<1> DEFINE f == [t EXCEPT !.maps = @ \cup {o}]
<1>1. /\ Busy(p) /\ t \in FrameType /\ Shaped(t) /\ t.op = "tree" /\ TypeOK
  BY DoingTop DEF NewMap
<1>2. Got(o, "map") /\ Take(o, "map") /\ Replace(p, f) /\ dirty' = dirty \ {o}
      /\ large' = large /\ calls' = calls /\ held' = held
  BY DEF NewMap
<1>3. "map" \in Sorts /\ o \in Nat BY PoolsAssumption DEF Sorts
<1>4. /\ f.keys = t.keys /\ f.buf = t.buf /\ f.maps = t.maps \cup {o} /\ f.path = t.path
      /\ f.current = t.current /\ f.op = t.op /\ f.wrote = t.wrote
  BY <1>1 DEF FrameType
<1>5. f \in FrameType BY <1>1, <1>3, <1>4 DEF FrameType
<1>6. Shaped(f) BY <1>1, <1>4 DEF Shaped
<1>7. Objects(f) \subseteq Objects(t) \cup {o} BY <1>4 DEF Objects
<1> HIDE DEF f
<1> QED BY <1>1, <1>2, <1>3, <1>4, <1>5, <1>6, <1>7, ComesToHave

LEMMA LongPathOwned ==
  ASSUME IInv, NEW p \in Callers, NEW o \in 1 .. MaxObjects, LongPath(p, o)
  PROVE  IInv'
<1> PICK t : t = Top(p) OBVIOUS
<1> DEFINE f == [t EXCEPT !.path = o]
<1>1. /\ Busy(p) /\ t \in FrameType /\ Shaped(t) /\ t.op = "direct" /\ TypeOK
  BY DoingTop DEF LongPath
<1>2. Got(o, "path") /\ Take(o, "path") /\ Replace(p, f) /\ dirty' = dirty
      /\ large' = large /\ calls' = calls /\ held' = held
  BY DEF LongPath
<1>3. "path" \in Sorts /\ o \in Nat BY PoolsAssumption DEF Sorts
<1>4. \A q \in Callers, j \in Nat : o \notin HeldBy(q, j) BY <1>1, <1>2, <1>3, Taken DEF IInv
<1>5. o \notin Objects(t)
  <2>1. Len(stack[p]) \in Nat /\ HeldBy(p, Len(stack[p])) = Objects(t)
    BY <1>1, TopFrame DEF IInv
  <2> QED BY <1>4, <2>1
<1>6. /\ f.keys = t.keys /\ f.buf = t.buf /\ f.maps = t.maps /\ f.path = o
      /\ f.current = t.current /\ f.op = t.op /\ f.wrote = t.wrote
  BY <1>1 DEF FrameType
<1>7. f \in FrameType BY <1>1, <1>3, <1>6 DEF FrameType, Object
<1>8. o # t.current BY <1>3, <1>5, PoolsAssumption DEF Objects
<1>9. Shaped(f) BY <1>1, <1>6, <1>8 DEF Shaped
<1>10. Objects(f) \subseteq Objects(t) \cup {o} BY <1>6 DEF Objects
<1> HIDE DEF f
<1> QED BY <1>1, <1>2, <1>3, <1>6, <1>7, <1>9, <1>10, ComesToHave

LEMMA WriteOwned ==
  ASSUME IInv, NEW p \in Callers, NEW o \in 1 .. MaxObjects, Busy(p), Write(p, o)
  PROVE  IInv'
<1> PICK t : t = Top(p) OBVIOUS
<1> DEFINE f == [t EXCEPT !.wrote = @ \cup {o}]
<1>1. t \in FrameType /\ Shaped(t) /\ TypeOK BY TopFrame DEF IInv
<1>2. o \in Objects(t) /\ Replace(p, f) /\ dirty' = dirty \cup {o}
      /\ UNCHANGED <<sort, pooled, large, calls, held>>
  BY DEF Write
<1>3. Put({}) BY <1>1, <1>2, NothingPut
<1>4. /\ f.keys = t.keys /\ f.buf = t.buf /\ f.maps = t.maps /\ f.path = t.path
      /\ f.current = t.current /\ f.op = t.op /\ f.wrote = t.wrote \cup {o}
  BY <1>1 DEF FrameType
<1>5. f \in FrameType BY <1>1, <1>4, PoolsAssumption DEF FrameType
<1>6. Shaped(f) /\ Objects(f) = Objects(t) BY <1>1, <1>4 DEF Shaped, Objects
<1> HIDE DEF f
<1> QED BY <1>2, <1>3, <1>4, <1>5, <1>6, GoesOn

LEMMA LeaveMapOwned ==
  ASSUME IInv, NEW p \in Callers, LeaveMap(p)
  PROVE  IInv'
<1> PICK t : t = Top(p) OBVIOUS
<1> PICK o : o = Last(t.keys) OBVIOUS
<1> DEFINE f == [t EXCEPT !.keys = Front(@), !.wrote = @ \ {o}]
<1>1. /\ Busy(p) /\ t \in FrameType /\ Shaped(t) /\ t.op \in {"marshal", "encode"} /\ TypeOK
  BY DoingTop DEF LeaveMap
<1>2. /\ t.keys # << >> /\ Replace(p, f) /\ Put({o} \ large) /\ dirty' = dirty \ {o}
      /\ UNCHANGED <<sort, large, calls, held>>
  BY DEF LeaveMap
<1>3. t.keys \in Seq(Nat) /\ IsInjective(t.keys) BY <1>1 DEF FrameType, Shaped
<1>4. /\ f.keys = Front(t.keys) /\ f.buf = t.buf /\ f.maps = t.maps /\ f.path = t.path
      /\ f.current = t.current /\ f.op = t.op /\ f.wrote = t.wrote \ {o}
  BY <1>1 DEF FrameType
<1>5. /\ f.keys \in Seq(Nat) /\ o \in Range(t.keys) /\ IsInjective(f.keys)
      /\ Range(f.keys) = Range(t.keys) \ {o} /\ o \in Nat
  <2>1. Range(t.keys) \subseteq Nat BY <1>3, ElementOfSeq, LenProperties DEF Range
  <2> QED BY <1>2, <1>3, <1>4, <2>1, KeysLeft
<1>6. f \in FrameType BY <1>1, <1>4, <1>5 DEF FrameType
<1>7. Shaped(f) BY <1>1, <1>4, <1>5 DEF Shaped
<1>8. Objects(f) \subseteq Objects(t) \ {o} /\ o \in Objects(t)
  <2>1. t.buf # o /\ t.maps = {} /\ t.path = None /\ t.current = None
    BY <1>1, <1>5 DEF Shaped
  <2>2. o # None BY <1>5, PoolsAssumption
  <2> QED BY <1>4, <1>5, <2>1, <2>2 DEF Objects
<1>9. PICK R : R = {o} \ large OBVIOUS
<1>10. /\ R \subseteq Objects(t) \ Objects(f) /\ t.wrote \cap Objects(f) \subseteq f.wrote
       /\ dirty' \subseteq (dirty \cup (f.wrote \cap Objects(f))) \ R
  BY <1>2, <1>4, <1>8, <1>9
<1> HIDE DEF f
<1> QED BY <1>1, <1>2, <1>6, <1>7, <1>8, <1>9, <1>10, GoesOn

\* What a marshalling call has, and what it can put back.
LEMMA MarshalObjects ==
  ASSUME NEW t \in FrameType, Shaped(t), t.op \in {"marshal", "encode"}
  PROVE  Objects(t) = {t.buf} \cup Range(t.keys) /\ t.buf \notin Range(t.keys)
<1>1. t.maps = {} /\ t.path = None /\ t.current = None /\ t.buf \in Nat \ Range(t.keys)
  BY DEF Shaped
<1>2. Range(t.keys) \subseteq Nat
  <2>1. t.keys \in Seq(Nat) BY DEF FrameType
  <2> QED BY <2>1, ElementOfSeq, LenProperties DEF Range
<1> QED BY <1>1, <1>2, PoolsAssumption DEF Objects

LEMMA FailMarshalOwned ==
  ASSUME IInv, NEW p \in Callers, FailMarshal(p)
  PROVE  IInv'
<1> PICK t : t = Top(p) OBVIOUS
<1> PICK R : R = ({t.buf} \cup Range(t.keys)) \ large OBVIOUS
<1>1. Busy(p) /\ t \in FrameType /\ Shaped(t) /\ t.op \in {"marshal", "encode"}
  BY DoingTop DEF FailMarshal
<1>2. /\ Pop(p) /\ Put(R) /\ dirty' = dirty \ R /\ held' = held \cup {}
      /\ UNCHANGED <<sort, large, calls>>
  BY DEF FailMarshal
<1>3. R \subseteq Objects(t) BY <1>1, MarshalObjects
<1> QED BY <1>1, <1>2, <1>3, GoesAway

LEMMA FinishMarshalOwned ==
  ASSUME IInv, NEW p \in Callers, FinishMarshal(p)
  PROVE  IInv'
<1> PICK t : t = Top(p) OBVIOUS
<1> PICK R : R = {t.buf} \ large OBVIOUS
<1> PICK H : H = IF t.op = "marshal" THEN {t.buf} \cap large ELSE {} OBVIOUS
<1>1. Busy(p) /\ t \in FrameType /\ Shaped(t) /\ t.op \in {"marshal", "encode"}
  BY DoingTop DEF FinishMarshal
<1>2. /\ Pop(p) /\ Put(R) /\ dirty' = dirty \ R /\ held' = held \cup H
      /\ UNCHANGED <<sort, large, calls>>
  BY DEF FinishMarshal
<1>3. R \subseteq Objects(t) /\ H \subseteq Objects(t) \ R BY <1>1, MarshalObjects
<1> QED BY <1>1, <1>2, <1>3, GoesAway

LEMMA FailTreeOwned ==
  ASSUME IInv, NEW p \in Callers, FailTree(p)
  PROVE  IInv'
<1>1. Busy(p) /\ TypeOK BY DoingTop DEF FailTree
<1>2. /\ Pop(p) /\ dirty' \subseteq dirty \ {} /\ held' = held \cup {}
      /\ UNCHANGED <<sort, pooled, large, calls>>
  BY DEF FailTree
<1>3. Put({}) BY <1>1, <1>2, NothingPut
<1> QED BY <1>1, <1>2, <1>3, GoesAway

LEMMA BindOwned ==
  ASSUME IInv, NEW p \in Callers, Bind(p)
  PROVE  IInv'
<1> PICK t : t = Top(p) OBVIOUS
<1> PICK R : R = IF t.keeps THEN {} ELSE t.maps OBVIOUS
<1> PICK H : H = IF t.keeps THEN t.maps ELSE {} OBVIOUS
<1>1. Busy(p) /\ t \in FrameType BY DoingTop DEF Bind
<1>2. /\ Pop(p) /\ Put(R) /\ dirty' \subseteq dirty \ R /\ held' = held \cup H
      /\ UNCHANGED <<sort, large, calls>>
  BY DEF Bind
<1>3. t.maps \subseteq Objects(t)
  <2>1. t.maps \subseteq Nat BY <1>1 DEF FrameType
  <2> QED BY <2>1, PoolsAssumption DEF Objects
<1>4. R \subseteq Objects(t) /\ H \subseteq Objects(t) \ R BY <1>3
<1> QED BY <1>1, <1>2, <1>4, GoesAway

LEMMA DropPathOwned ==
  ASSUME IInv, NEW p \in Callers, DropPath(p)
  PROVE  IInv'
<1> PICK t : t = Top(p) OBVIOUS
<1> DEFINE f == [t EXCEPT !.path = None, !.wrote = @ \ {t.path}]
<1>1. /\ Busy(p) /\ t \in FrameType /\ Shaped(t) /\ t.op = "direct" /\ TypeOK
  BY DoingTop DEF DropPath
<1>2. /\ t.path # None /\ Replace(p, f) /\ UNCHANGED <<sort, pooled, dirty, large, calls, held>>
  BY DEF DropPath
<1>3. Put({}) BY <1>1, <1>2, NothingPut
<1>4. /\ f.keys = t.keys /\ f.buf = t.buf /\ f.maps = t.maps /\ f.path = None
      /\ f.current = t.current /\ f.op = t.op /\ f.wrote = t.wrote \ {t.path}
  BY <1>1 DEF FrameType
<1>5. f \in FrameType BY <1>1, <1>4 DEF FrameType, Object
<1>6. Shaped(f) /\ Objects(f) \subseteq Objects(t) \ {t.path}
  BY <1>1, <1>2, <1>4 DEF Shaped, Objects, Range
<1> HIDE DEF f
<1> QED BY <1>1, <1>2, <1>3, <1>4, <1>5, <1>6, GoesOn

LEMMA KeyPathOwned ==
  ASSUME IInv, NEW p \in Callers, KeyPath(p)
  PROVE  IInv'
<1> PICK t : t = Top(p) OBVIOUS
<1> DEFINE f == [t EXCEPT !.path = None, !.wrote = @ \ {t.path}]
<1>1. /\ Busy(p) /\ t \in FrameType /\ Shaped(t) /\ t.op = "direct" /\ TypeOK
  BY DoingTop DEF KeyPath
<1> PICK R : R = {t.path} \ {None} OBVIOUS
<1>2. /\ t.path # None /\ Replace(p, f) /\ Put(R) /\ dirty' \subseteq dirty \ R
      /\ UNCHANGED <<sort, large, calls, held>>
  BY DEF KeyPath, Release
<1>3. /\ f.keys = t.keys /\ f.buf = t.buf /\ f.maps = t.maps /\ f.path = None
      /\ f.current = t.current /\ f.op = t.op /\ f.wrote = t.wrote \ {t.path}
  BY <1>1 DEF FrameType
<1>4. f \in FrameType BY <1>1, <1>3 DEF FrameType, Object
<1>5. Shaped(f) /\ Objects(f) = Objects(t) \ {t.path} /\ t.path \in Objects(t)
  BY <1>1, <1>2, <1>3 DEF Shaped, Objects, Range
<1>6. /\ R \subseteq Objects(t) \ Objects(f) /\ t.wrote \cap Objects(f) \subseteq f.wrote
      /\ dirty' \subseteq (dirty \cup (f.wrote \cap Objects(f))) \ R
  BY <1>2, <1>3, <1>5
<1> HIDE DEF f
<1> QED BY <1>1, <1>2, <1>4, <1>5, <1>6, GoesOn

LEMMA HeaderPathOwned ==
  ASSUME IInv, NEW p \in Callers, HeaderPath(p)
  PROVE  IInv'
<1> PICK t : t = Top(p) OBVIOUS
<1> DEFINE f == [t EXCEPT !.path = None, !.current = t.path, !.wrote = @ \ {t.current}]
<1>1. /\ Busy(p) /\ t \in FrameType /\ Shaped(t) /\ t.op = "direct" /\ TypeOK
  BY DoingTop DEF HeaderPath
<1> PICK R : R = {t.current} \ {None} OBVIOUS
<1>2. /\ Replace(p, f) /\ Put(R) /\ dirty' \subseteq dirty \ R
      /\ UNCHANGED <<sort, large, calls, held>>
  BY DEF HeaderPath, Release
<1>3. /\ f.keys = t.keys /\ f.buf = t.buf /\ f.maps = t.maps /\ f.path = None
      /\ f.current = t.path /\ f.op = t.op /\ f.wrote = t.wrote \ {t.current}
  BY <1>1 DEF FrameType
<1>4. f \in FrameType BY <1>1, <1>3 DEF FrameType, Object
<1>5. Shaped(f) BY <1>1, <1>3 DEF Shaped
<1>6. Objects(f) = Objects(t) \ R /\ R \subseteq Objects(t) /\ t.current \notin Objects(f)
  BY <1>1, <1>2, <1>3 DEF Shaped, Objects, Range
<1>7. /\ R \subseteq Objects(t) \ Objects(f) /\ t.wrote \cap Objects(f) \subseteq f.wrote
      /\ dirty' \subseteq (dirty \cup (f.wrote \cap Objects(f))) \ R
  BY <1>2, <1>3, <1>6
<1> HIDE DEF f
<1> QED BY <1>1, <1>2, <1>4, <1>5, <1>6, <1>7, GoesOn

LEMMA EndDirectOwned ==
  ASSUME IInv, NEW p \in Callers, EndDirect(p)
  PROVE  IInv'
<1> PICK t : t = Top(p) OBVIOUS
<1> PICK R : R = {t.path, t.current} \ {None} OBVIOUS
<1>1. Busy(p) /\ t \in FrameType BY DoingTop DEF EndDirect
<1>2. /\ Pop(p) /\ Put(R) /\ dirty' \subseteq dirty \ R /\ held' = held \cup {}
      /\ UNCHANGED <<sort, large, calls>>
  BY DEF EndDirect, Release
<1>3. R \subseteq Objects(t) BY DEF Objects
<1> QED BY <1>1, <1>2, <1>3, GoesAway

LEMMA EnlargeOwned ==
  ASSUME IInv, NEW p \in Callers, NEW o \in 1 .. MaxObjects, Enlarge(p, o)
  PROVE  IInv'
<1>1. large' = large \cup {o} /\ UNCHANGED <<sort, pooled, dirty, stack, calls, held>>
  BY DEF Enlarge
<1>2. TypeOK' BY <1>1, PoolsAssumption DEF IInv, TypeOK, Made
<1>3. Shapes' BY <1>1 DEF IInv, Shapes
<1>4. Owned'
  BY <1>1 DEF IInv, Owned, AllMade, Separate, HeldApart, PoolSound, Clean, HeldBy, Wrote, Made
<1> QED BY <1>2, <1>3, <1>4 DEF IInv

LEMMA CollectOwned ==
  ASSUME IInv, NEW o \in 1 .. MaxObjects, Collect(o)
  PROVE  IInv'
<1>1. /\ o \in Made /\ pooled[o] > 0 /\ pooled' = [pooled EXCEPT ![o] = @ - 1]
      /\ UNCHANGED <<sort, dirty, large, stack, calls, held>>
  BY DEF Collect
<1>2. /\ Made = DOMAIN pooled /\ DOMAIN pooled = 1 .. Len(pooled)
      /\ pooled \in Seq(Nat) /\ \A x \in Made : pooled[x] \in Nat
  BY LenProperties, ElementOfSeq DEF IInv, TypeOK, Made
<1>3. pooled' \in Seq(Nat) /\ Len(pooled') = Len(pooled)
  BY <1>1, <1>2, ExceptSeq
<1>4. TypeOK' BY <1>1, <1>3 DEF IInv, TypeOK, Made
<1>5. Shapes' BY <1>1 DEF IInv, Shapes
<1>6. \A x \in Made : pooled'[x] \in Nat /\ pooled'[x] <= pooled[x] BY <1>1, <1>2
<1>7. AllMade' /\ Separate' /\ HeldApart' /\ Clean'
  BY <1>1 DEF IInv, Owned, AllMade, Separate, HeldApart, Clean, HeldBy, Wrote, Made
<1>8. PoolSound'
  <2>1. Made' = Made /\ \A q \in Callers, j \in Nat : HeldBy(q, j)' = HeldBy(q, j)
    BY <1>1 DEF Made, HeldBy
  <2>2. ASSUME NEW x \in Made
        PROVE  /\ pooled'[x] <= 1
               /\ pooled'[x] = 1 => /\ x \notin held /\ x \notin dirty
                                    /\ \A q \in Callers, j \in Nat : x \notin HeldBy(q, j)
    BY <1>2, <1>6 DEF IInv, Owned, PoolSound
  <2> QED BY <1>1, <2>1, <2>2 DEF PoolSound
<1> QED BY <1>4, <1>5, <1>7, <1>8 DEF IInv, Owned

LEMMA Inductive == ASSUME IInv, [Next]_vars PROVE IInv'
<1>1. CASE UNCHANGED vars
  BY <1>1 DEF vars, IInv, TypeOK, Shapes, Owned, AllMade, Separate, HeldApart, PoolSound,
              Clean, HeldBy, Wrote, Made
<1>2. ASSUME NEW o \in 1 .. MaxObjects, Collect(o) PROVE IInv'
  BY <1>2, CollectOwned
<1>3. ASSUME NEW p \in Callers, Ends(p) PROVE IInv'
  BY <1>3, LeaveMapOwned, FailMarshalOwned, FinishMarshalOwned, FailTreeOwned, BindOwned,
     EndDirectOwned DEF Ends
<1>4. ASSUME NEW p \in Callers, BeginDirect(p) \/ DropPath(p) \/ HeaderPath(p) \/ KeyPath(p)
      PROVE  IInv'
  BY <1>4, BeginDirectOwned, DropPathOwned, HeaderPathOwned, KeyPathOwned
<1>5. ASSUME NEW p \in Callers, NEW o \in 1 .. MaxObjects,
             Enlarge(p, o) \/ EnterMap(p, o) \/ NewMap(p, o) \/ LongPath(p, o)
      PROVE  IInv'
  BY <1>5, EnlargeOwned, EnterMapOwned, NewMapOwned, LongPathOwned
<1>6. ASSUME NEW p \in Callers, NEW o \in 1 .. MaxObjects, NEW op \in {"marshal", "encode"},
             BeginMarshal(p, op, o)
      PROVE  IInv'
  BY <1>6, BeginMarshalOwned
<1>7. ASSUME NEW p \in Callers, NEW o \in 1 .. MaxObjects, NEW keeps \in BOOLEAN,
             BeginTree(p, o, keeps)
      PROVE  IInv'
  BY <1>7, BeginTreeOwned
<1>8. ASSUME NEW p \in Callers, NEW o \in 1 .. MaxObjects, Busy(p) /\ Write(p, o)
      PROVE  IInv'
  BY <1>8, WriteOwned
<1> QED BY <1>1, <1>2, <1>3, <1>4, <1>5, <1>6, <1>7, <1>8 DEF Next

LEMMA AlwaysOwned == Spec => []IInv
<1>1. Init => IInv BY StartsOwned
<1>2. IInv /\ [Next]_vars => IInv' BY Inductive
<1> QED BY <1>1, <1>2, PTL DEF Spec
-----------------------------------------------------------------------------
(* What follows from it.                                                   *)

LEMMA Levels == ASSUME TypeOK, NEW q \in Callers PROVE DOMAIN stack[q] \subseteq Nat
<1>1. stack[q] \in Seq(FrameType) BY DEF TypeOK
<1> QED BY <1>1, LenProperties

LEMMA InUseHeld ==
  ASSUME TypeOK, NEW o
  PROVE  o \in InUse <=> \E q \in Callers, j \in Nat : o \in HeldBy(q, j)
BY Levels DEF InUse, HeldBy

LEMMA OneOwnerNow == IInv => OneOwner
<1> SUFFICES ASSUME IInv PROVE OneOwner
  OBVIOUS
<1>1. TypeOK /\ Shapes /\ Owned BY DEF IInv
<1>2. \A o \in Made : pooled[o] <= 1 /\ (pooled[o] = 1 => o \notin InUse \cup held)
  BY <1>1, InUseHeld DEF Owned, PoolSound
<1>3. InUse \cap held = {}
  BY <1>1, InUseHeld DEF Owned, HeldApart
<1>4. ASSUME NEW q \in Callers, NEW r \in Callers, NEW i \in DOMAIN stack[q],
             NEW j \in DOMAIN stack[r], q # r \/ i # j
      PROVE  Objects(stack[q][i]) \cap Objects(stack[r][j]) = {}
  <2>1. HeldBy(q, i) \cap HeldBy(r, j) = {} BY <1>1, <1>4, Levels DEF Owned, Separate
  <2> QED BY <2>1 DEF HeldBy
<1>5. ASSUME NEW q \in Callers, NEW i \in DOMAIN stack[q]
      PROVE  /\ IsInjective(stack[q][i].keys)
             /\ stack[q][i].path # None => stack[q][i].path # stack[q][i].current
  <2> PICK f : f = stack[q][i] OBVIOUS
  <2>1. Shaped(f) BY <1>1 DEF Shapes
  <2>2. f \in FrameType
    <3>1. stack[q] \in Seq(FrameType) BY <1>1 DEF TypeOK
    <3> QED BY <3>1, ElementOfSeq, LenProperties
  <2>3. f.op \in {"marshal", "encode", "tree", "direct"} BY <2>2 DEF FrameType
  <2>4. f.keys = << >> => IsInjective(f.keys) BY DEF IsInjective
  <2> QED BY <2>1, <2>3, <2>4 DEF Shaped
<1> QED BY <1>2, <1>3, <1>4, <1>5 DEF OneOwner

\* An object has one owner: a pool, where it is once, one call, in one of its
\* roles, or the client that got it (marshal.go:109, unmarshal.go:75,
\* unmarshal_direct.go:837 and 877).
THEOREM OwnedOnce == Spec => []OneOwner
BY OneOwnerNow, AlwaysOwned, PTL

\* A call finds every object it got and has not yet written to empty.
THEOREM NothingLeftOver == Spec => []NoLeftovers
<1>1. ASSUME IInv PROVE NoLeftovers
  <2>1. TypeOK /\ Clean BY <1>1 DEF IInv, Owned
  <2>2. ASSUME NEW q \in Callers, NEW i \in DOMAIN stack[q]
        PROVE  Objects(stack[q][i]) \cap dirty \subseteq stack[q][i].wrote
    <3>1. HeldBy(q, i) \cap dirty \subseteq Wrote(q, i) BY <2>1, Levels DEF Clean
    <3> QED BY <3>1 DEF HeldBy, Wrote
  <2> QED BY <2>2 DEF NoLeftovers
<1> QED BY <1>1, AlwaysOwned, PTL

LEMMA HeldGrows == ASSUME [Next]_vars PROVE held \subseteq held'
<1>1. ASSUME NEW p \in Callers, Ends(p) PROVE held \subseteq held'
  BY <1>1 DEF Ends, LeaveMap, FailMarshal, FinishMarshal, FailTree, Bind, EndDirect
<1>2. ASSUME NEW p \in Callers, NEW o, NEW op, NEW keeps,
             \/ BeginMarshal(p, op, o) \/ BeginTree(p, o, keeps) \/ BeginDirect(p)
             \/ Enlarge(p, o) \/ EnterMap(p, o) \/ NewMap(p, o) \/ LongPath(p, o) \/ Write(p, o)
             \/ DropPath(p) \/ HeaderPath(p) \/ KeyPath(p) \/ Collect(o)
      PROVE  held' = held
  BY <1>2 DEF BeginMarshal, BeginTree, BeginDirect, Enlarge, EnterMap, NewMap, LongPath, Write,
              DropPath, HeaderPath, KeyPath, Collect
<1>3. CASE UNCHANGED vars BY <1>3 DEF vars
<1>4. CASE Next
  <2>1. CASE \E o \in 1 .. MaxObjects : Collect(o) BY <2>1 DEF Collect
  <2>2. ASSUME NEW p \in Callers, BeginDirect(p) \/ DropPath(p) \/ HeaderPath(p) \/ KeyPath(p)
        PROVE  held' = held
    BY <2>2 DEF BeginDirect, DropPath, HeaderPath, KeyPath
  <2>3. ASSUME NEW p \in Callers, NEW o \in 1 .. MaxObjects, NEW op, NEW keeps,
               \/ Enlarge(p, o) \/ EnterMap(p, o) \/ NewMap(p, o) \/ LongPath(p, o)
               \/ BeginMarshal(p, op, o) \/ BeginTree(p, o, keeps) \/ Write(p, o)
        PROVE  held' = held
    BY <1>2, <2>3
  <2> QED BY <1>1, <1>4, <2>1, <2>2, <2>3 DEF Next
<1> QED BY <1>3, <1>4

\* Nothing of the library gets hold of what a client was given (marshal.go:109).
THEOREM HandedOut == Spec => HandedOutForGood
<1>1. ASSUME IInv, [Next]_vars PROVE held \subseteq held' /\ held \cap InUse' = {}
  <2>1. held \subseteq held' BY <1>1, HeldGrows
  <2>2. IInv' BY <1>1, Inductive
  <2>3. OneOwner' BY <2>2, OneOwnerNow, PTL
  <2> QED BY <2>1, <2>3 DEF OneOwner
<1>2. IInv /\ [Next]_vars => [held \subseteq held' /\ held \cap InUse' = {}]_vars BY <1>1
<1> QED BY <1>2, AlwaysOwned, PTL DEF Spec, HandedOutForGood

\* What a call has to put back when it ends.
Owes(p) == ({Top(p).buf, Top(p).path, Top(p).current} \cup Range(Top(p).keys)) \ {None}

\* Only the end of its innermost call shortens what a caller is inside of.
LEMMA Stays ==
  ASSUME IInv, NEW p \in Callers, NEW q \in Callers,
         \/ UNCHANGED stack
         \/ \E f : stack' = [stack EXCEPT ![q] = Append(@, f)]
         \/ Busy(q) /\ \E f : Replace(q, f)
         \/ p # q /\ Pop(q)
  PROVE  ~ Len(stack'[p]) < Len(stack[p])
<1>1. TypeOK /\ Shapes BY DEF IInv
<1>2. stack[p] \in Seq(FrameType) /\ Len(stack[p]) \in Nat BY <1>1, LenProperties DEF TypeOK
<1>3. CASE stack'[p] = stack[p] BY <1>2, <1>3
<1>4. ASSUME NEW f, stack'[p] = Append(stack[p], f)
      PROVE  ~ Len(stack'[p]) < Len(stack[p])
  BY <1>2, <1>4
<1>5. ASSUME NEW f, Busy(p), stack'[p] = Append(Front(stack[p]), f)
      PROVE  ~ Len(stack'[p]) < Len(stack[p])
  <2>1. Front(stack[p]) \in Seq(FrameType) /\ Len(Front(stack[p])) = Len(stack[p]) - 1
    BY <1>1, <1>5, TopFrame
  <2>2. Len(stack'[p]) = Len(stack[p]) - 1 + 1 BY <1>5, <2>1
  <2> QED BY <1>2, <2>2
<1>6. p # q => stack'[p] = stack[p] BY <1>1 DEF TypeOK, Replace, Pop
<1> QED BY <1>1, <1>3, <1>4, <1>5, <1>6 DEF TypeOK, Replace

LEMMA Returned ==
  ASSUME IInv, IInv', NEW R, Put(R), sort' = sort, NEW o \in R, o \in Made
  PROVE  pooled'[o] = 1
<1>1. pooled'[o] = pooled[o] + 1 /\ pooled[o] \in Nat
  <2>1. TypeOK BY DEF IInv
  <2>2. pooled'[o] = pooled[o] + 1 BY <2>1, PutBack DEF Made
  <2> QED BY <2>1, <2>2, ElementOfSeq, LenProperties DEF TypeOK, Made
<1>2. pooled'[o] <= 1 BY DEF IInv, Owned, PoolSound, Made
<1> QED BY <1>1, <1>2

LEMMA EndPutsBack ==
  ASSUME IInv, IInv', NEW p \in Callers,
         FailMarshal(p) \/ FinishMarshal(p) \/ FailTree(p) \/ Bind(p) \/ EndDirect(p),
         NEW o \in Owes(p)
  PROVE  o \in large \/ pooled'[o] = 1
<1> PICK t : t = Top(p) OBVIOUS
<1>1. Busy(p) /\ t \in FrameType /\ Shaped(t) /\ TypeOK /\ Shapes
  BY DoingTop DEF FailMarshal, FinishMarshal, FailTree, Bind, EndDirect
<1>2. o \in Made
  <2>1. Len(stack[p]) \in Nat /\ HeldBy(p, Len(stack[p])) = Objects(t) BY <1>1, TopFrame
  <2>2. o \in Objects(t) BY DEF Owes, Objects
  <2> QED BY <2>1, <2>2 DEF IInv, Owned, AllMade
<1>3. CASE FailMarshal(p)
  <2> PICK R : R = ({t.buf} \cup Range(t.keys)) \ large OBVIOUS
  <2>1. Put(R) /\ sort' = sort /\ t.op \in {"marshal", "encode"}
    BY <1>3 DEF FailMarshal, Doing
  <2>2. o \in R \/ o \in large BY <1>1, <2>1 DEF Owes, Shaped
  <2> QED BY <1>2, <2>1, <2>2, Returned
<1>4. CASE FinishMarshal(p)
  <2> PICK R : R = {t.buf} \ large OBVIOUS
  <2>1. Put(R) /\ sort' = sort /\ t.op \in {"marshal", "encode"} /\ t.keys = << >>
    BY <1>4 DEF FinishMarshal, Doing
  <2>2. Range(t.keys) = {} BY <2>1 DEF Range
  <2>3. o \in R \/ o \in large BY <1>1, <2>1, <2>2 DEF Owes, Shaped
  <2> QED BY <1>2, <2>1, <2>3, Returned
<1>5. CASE FailTree(p) \/ Bind(p)
  <2>1. t.op = "tree" BY <1>5 DEF FailTree, Bind, Doing
  <2>2. t.buf = None /\ t.path = None /\ t.current = None /\ t.keys = << >>
    BY <1>1, <2>1 DEF Shaped
  <2> QED BY <2>2 DEF Owes, Range
<1>6. CASE EndDirect(p)
  <2> PICK R : R = {t.path, t.current} \ {None} OBVIOUS
  <2>1. Put(R) /\ sort' = sort /\ t.op = "direct" BY <1>6 DEF EndDirect, Release, Doing
  <2>2. t.buf = None /\ t.keys = << >> BY <1>1, <2>1 DEF Shaped
  <2>3. o \in R BY <2>2 DEF Owes, Range
  <2> QED BY <1>2, <2>1, <2>3, Returned
<1> QED BY <1>3, <1>4, <1>5, <1>6

LEMMA OnlyEndsShorten ==
  ASSUME IInv, [Next]_vars, NEW p \in Callers, Len(stack'[p]) < Len(stack[p])
  PROVE  FailMarshal(p) \/ FinishMarshal(p) \/ FailTree(p) \/ Bind(p) \/ EndDirect(p)
<1> SUFFICES ASSUME ~ (FailMarshal(p) \/ FinishMarshal(p) \/ FailTree(p) \/ Bind(p) \/ EndDirect(p))
             PROVE  FALSE
  OBVIOUS
<1>1. CASE UNCHANGED vars BY <1>1, Stays DEF vars
<1>2. ASSUME NEW o \in 1 .. MaxObjects, Collect(o) PROVE FALSE
  BY <1>2, Stays DEF Collect
<1>3. ASSUME NEW q \in Callers, Ends(q) PROVE FALSE
  <2>1. CASE LeaveMap(q)
    <3>1. Busy(q) /\ \E f : Replace(q, f) BY <2>1 DEF LeaveMap, Doing
    <3> QED BY <3>1, Stays
  <2>2. CASE p # q /\ ~ LeaveMap(q)
    <3>1. Pop(q) BY <1>3, <2>2 DEF Ends, FailMarshal, FinishMarshal, FailTree, Bind, EndDirect
    <3> QED BY <2>2, <3>1, Stays
  <2> QED BY <1>3, <2>1, <2>2 DEF Ends
<1>4. ASSUME NEW q \in Callers, BeginDirect(q) PROVE FALSE
  <2>1. \E f : stack' = [stack EXCEPT ![q] = Append(@, f)] BY <1>4 DEF BeginDirect
  <2> QED BY <2>1, Stays
<1>5. ASSUME NEW q \in Callers, DropPath(q) \/ HeaderPath(q) \/ KeyPath(q) PROVE FALSE
  <2>1. Busy(q) /\ \E f : Replace(q, f) BY <1>5 DEF DropPath, HeaderPath, KeyPath, Doing
  <2> QED BY <2>1, Stays
<1>6. ASSUME NEW q \in Callers, NEW o \in 1 .. MaxObjects,
             \/ EnterMap(q, o) \/ NewMap(q, o) \/ LongPath(q, o) \/ (Busy(q) /\ Write(q, o))
      PROVE  FALSE
  <2>1. Busy(q) /\ \E f : Replace(q, f)
    BY <1>6 DEF EnterMap, NewMap, LongPath, Write, Doing
  <2> QED BY <2>1, Stays
<1>7. ASSUME NEW q \in Callers, NEW o \in 1 .. MaxObjects, Enlarge(q, o) PROVE FALSE
  BY <1>7, Stays DEF Enlarge
<1>8. ASSUME NEW q \in Callers, NEW o \in 1 .. MaxObjects, NEW op \in {"marshal", "encode"},
             BeginMarshal(q, op, o)
      PROVE  FALSE
  <2>1. \E f : stack' = [stack EXCEPT ![q] = Append(@, f)] BY <1>8 DEF BeginMarshal
  <2> QED BY <2>1, Stays
<1>9. ASSUME NEW q \in Callers, NEW o \in 1 .. MaxObjects, NEW keeps \in BOOLEAN,
             BeginTree(q, o, keeps)
      PROVE  FALSE
  <2>1. \E f : stack' = [stack EXCEPT ![q] = Append(@, f)] BY <1>9 DEF BeginTree
  <2> QED BY <2>1, Stays
<1>10. CASE Next
  <2>1. ~ \E o \in 1 .. MaxObjects : Collect(o) BY <1>2
  <2>2. PICK q \in Callers :
          \/ Ends(q) \/ BeginDirect(q) \/ DropPath(q) \/ HeaderPath(q) \/ KeyPath(q)
          \/ \E o \in 1 .. MaxObjects :
               \/ Enlarge(q, o) \/ EnterMap(q, o) \/ NewMap(q, o) \/ LongPath(q, o)
               \/ \E op \in {"marshal", "encode"} : BeginMarshal(q, op, o)
               \/ \E keeps \in BOOLEAN : BeginTree(q, o, keeps)
               \/ Busy(q) /\ Write(q, o)
    BY <1>10, <2>1 DEF Next
  <2> QED BY <1>3, <1>4, <1>5, <1>6, <1>7, <1>8, <1>9, <2>2
<1> QED BY <1>1, <1>10

\* A call puts back its buffer, its slices and its paths on every way out, the
\* ones that are too large excepted (marshal.go:106, 143, 147).
THEOREM PutBackAlways == Spec => PutBackOnExit
<1>1. ASSUME IInv, [Next]_vars, NEW p \in Callers, Len(stack'[p]) < Len(stack[p]),
             NEW o \in ({Top(p).buf, Top(p).path, Top(p).current} \cup Range(Top(p).keys)) \ {None}
      PROVE  o \in large \/ pooled'[o] = 1
  <2>1. o \in Owes(p) BY DEF Owes
  <2>2. IInv' BY <1>1, Inductive
  <2>3. FailMarshal(p) \/ FinishMarshal(p) \/ FailTree(p) \/ Bind(p) \/ EndDirect(p)
    BY <1>1, OnlyEndsShorten
  <2> QED BY <1>1, <2>1, <2>2, <2>3, EndPutsBack
<1>2. IInv /\ [Next]_vars =>
        [\A p \in Callers : Len(stack'[p]) < Len(stack[p]) =>
           \A o \in ({Top(p).buf, Top(p).path, Top(p).current} \cup Range(Top(p).keys)) \ {None} :
             o \in large \/ pooled'[o] = 1]_vars
  BY <1>1
<1> QED BY <1>2, AlwaysOwned, PTL DEF Spec, PutBackOnExit
=============================================================================
