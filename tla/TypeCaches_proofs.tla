-------------------------- MODULE TypeCaches_proofs --------------------------
(***************************************************************************)
(* What concurrent callers publish in the shared tables is one complete    *)
(* object per type, the verdict on direct binding among it is right, and   *)
(* only a type within itself runs out of stack: whatever the types, the    *)
(* callers and their calls.                                                *)
(***************************************************************************)
EXTENDS TypeCaches, FiniteSetTheorems, SequenceTheorems, TLAPS

Keys == Types \cup {Offset}
IsTable(tab) == DOMAIN tab = Caches /\ \A c \in Caches : DOMAIN tab[c] = Keys
IsStack(s)   == s \in Seq(Range(s))

\* FilterOf in the table tab.
FilterIn(tab, t) == IF IsStruct(Inside[t]) THEN tab["filter"][Inside[t]] ELSE NoFilter

\* Parts a filter has got so far.
GotSound(tab, f) ==
  /\ f.got \in Seq(Range(f.got)) /\ Len(f.got) <= Len(Parts[f.type])
  /\ \A i \in 1 .. Len(f.got) :
       f.got[i] # Missing /\ f.got[i] = FilterIn(tab, Parts[f.type][i])

\* What a call of directTypeContainsMap is about.
Levels == [of : Types, left : Seq(Types)]

FrameSound(tab, f) ==
  /\ DOMAIN f = {"cache", "type", "pc", "todo", "seen", "got"}
  /\ f.cache \in Caches \cup {"unmarshal", "marshal", "recycle"}
  /\ f.type \in IF f.cache = "zone" THEN {Offset} ELSE Types
  /\ f.todo \in Seq(Levels) /\ (f.cache # "eligible" => f.todo = << >>)
  /\ f.cache = "info" /\ f.pc = "store" => Kind[f.type] # "badtag"
  /\ f.cache = "eligible" => /\ IsStruct(f.type)
                             /\ f.pc = "load" => f.todo = << >>
                             /\ f.pc = "fields" => f.todo # << >>
  /\ f.cache = "filter" =>
       /\ f.pc \in {"load", "info", "element"} => f.got = << >>
       /\ f.pc = "element" => Kind[f.type] = "list"
       /\ f.pc \in {"info", "field"} => IsStruct(f.type)
       /\ f.pc = "field" => Kind[f.type] # "badtag" /\ Len(f.got) < Len(Parts[f.type])
       /\ GotSound(tab, f)
  /\ f.cache = "recycle" => IsStack(f.got)

\* Frames that wait for an entry and use it.
AwaitsInfo(f)   == f.cache \in {"direct", "filter"} /\ f.pc = "info"
AwaitsFilter(f) == f.cache = "filter" /\ f.pc \in {"field", "element"}
NextPart(f)     == Parts[f.type][Len(f.got) + 1]

\* g computes what f waits for.
Serves(f, g) ==
  /\ AwaitsInfo(f) => g.cache = "info" /\ g.type = f.type
  /\ AwaitsFilter(f) => g.cache = "filter" /\ Inside[g.type] = Inside[NextPart(f)]

\* r is what a frame for this entry may return, and what f may have been told.
Answers(tab, cache, type, r) ==
  /\ cache = "info" => r = Failed \/ (r # Missing /\ r = tab["info"][type])
  /\ cache = "filter" => r = Failed \/ (r # Missing /\ r = FilterIn(tab, type))
Told(tab, f, r) == /\ AwaitsInfo(f) => Answers(tab, "info", f.type, r)
                   /\ AwaitsFilter(f) => Answers(tab, "filter", NextPart(f), r)

\* The frames of one caller, which was last told r.
Chained(tab, s, r) ==
  /\ IsStack(s)
  /\ \A i \in 1 .. Len(s) : /\ FrameSound(tab, s[i])
                            /\ i < Len(s) => Serves(s[i], s[i + 1])
                            /\ i = Len(s) => Told(tab, s[i], r)

\* v is a complete entry for the type.
Fits(tab, c, t, v) ==
  /\ c = "info" => Kind[t] # "badtag"
  /\ c = "direct" => v.info = tab["info"][t] /\ tab["info"][t] # Missing
  /\ c = "special" => v = [kind |-> Kind[t]]
  /\ c = "filter" => /\ IsStruct(t) /\ Kind[t] # "badtag"
                     /\ v.children = [i \in DOMAIN Parts[t] |-> FilterIn(tab, Parts[t][i])]
                     /\ \A i \in DOMAIN Parts[t] : FilterIn(tab, Parts[t][i]) # Missing

Whole(tab) == \A c \in Caches, t \in Types : tab[c][t] # Missing => Fits(tab, c, t, tab[c][t])

HandedStored == \A h \in handed : /\ h[1] \in Caches /\ h[2] \in Keys
                                 /\ h[3] # Missing /\ h[3] = table[h[1]][h[2]]
Chains == /\ DOMAIN stack = Callers /\ DOMAIN ret = Callers
          /\ \A p \in Callers : Chained(table, stack[p], ret[p])

IInv == IsTable(table) /\ Whole(table) /\ HandedStored /\ Chains
-----------------------------------------------------------------------------
(* Entries that are there stay, and with them all that was said of them.   *)

Grows(tab, new) ==
  \A c \in Caches, t \in Keys : tab[c][t] # Missing => new[c][t] = tab[c][t]

LEMMA InsideTyped ==
  ASSUME NEW t \in Types
  PROVE  /\ Inside[t] \in Types
         /\ Kind[t] # "list" => Inside[t] = t
         /\ Kind[t] = "list" => Head(Parts[t]) \in Types /\ Inside[t] = Inside[Head(Parts[t])]
<1>1. Kind[t] = "list" => Parts[t] \in Seq(Types) /\ Len(Parts[t]) = 1 BY TypesAssumption
<1>2. Kind[t] = "list" => Head(Parts[t]) \in Types BY <1>1
<1> QED BY <1>2, TypesAssumption

LEMMA PartsTyped ==
  ASSUME NEW t \in Types
  PROVE  /\ Parts[t] \in Seq(Types) /\ DOMAIN Parts[t] = 1 .. Len(Parts[t])
         /\ Len(Parts[t]) \in Nat /\ \A i \in 1 .. Len(Parts[t]) : Parts[t][i] \in Types
<1>1. Parts[t] \in Seq(Types) BY TypesAssumption
<1> QED BY <1>1, LenProperties, ElementOfSeq

LEMMA FilterStays ==
  ASSUME NEW tab, NEW new, Grows(tab, new), NEW t \in Types, FilterIn(tab, t) # Missing
  PROVE  FilterIn(new, t) = FilterIn(tab, t)
<1>1. Inside[t] \in Keys BY TypesAssumption DEF Keys
<1>2. "filter" \in Caches BY DEF Caches
<1> QED BY <1>1, <1>2 DEF Grows, FilterIn

LEMMA FrameStays ==
  ASSUME NEW tab, NEW new, Grows(tab, new), NEW f, FrameSound(tab, f)
  PROVE  FrameSound(new, f)
<1>1. ASSUME f.cache = "filter" PROVE GotSound(new, f)
  <2>1. GotSound(tab, f) /\ f.type \in Types BY <1>1 DEF FrameSound
  <2>2. Len(f.got) \in Nat /\ DOMAIN f.got = 1 .. Len(f.got)
    BY <2>1, LenProperties DEF GotSound
  <2>3. ASSUME NEW i \in 1 .. Len(f.got)
        PROVE  f.got[i] # Missing /\ f.got[i] = FilterIn(new, Parts[f.type][i])
    <3>1. Parts[f.type][i] \in Types BY <2>1, <2>2, PartsTyped DEF GotSound
    <3>2. f.got[i] # Missing /\ f.got[i] = FilterIn(tab, Parts[f.type][i])
      BY <2>1 DEF GotSound
    <3> QED BY <3>1, <3>2, FilterStays
  <2> QED BY <2>1, <2>3 DEF GotSound
<1> QED BY <1>1 DEF FrameSound

LEMMA AnswerStays ==
  ASSUME NEW tab, NEW new, Grows(tab, new), NEW c \in Caches, NEW t \in Types, NEW r,
         Answers(tab, c, t, r)
  PROVE  Answers(new, c, t, r)
<1>1. "info" \in Caches /\ t \in Keys BY DEF Caches, Keys
<1>2. CASE c = "info" BY <1>1, <1>2 DEF Answers, Grows
<1>3. CASE c = "filter" BY <1>3, FilterStays DEF Answers
<1> QED BY <1>2, <1>3 DEF Answers

LEMMA NextPartTyped ==
  ASSUME NEW tab, NEW f, FrameSound(tab, f), f.cache = "filter", Len(f.got) < Len(Parts[f.type])
  PROVE  NextPart(f) \in Types /\ NextPart(f) \in Range(Parts[f.type])
         /\ Len(f.got) \in Nat /\ f.type \in Types
<1>1. f.type \in Types /\ f.got \in Seq(Range(f.got)) BY DEF FrameSound, GotSound
<1>2. Len(f.got) \in Nat BY <1>1, LenProperties
<1>3. /\ DOMAIN Parts[f.type] = 1 .. Len(Parts[f.type]) /\ Len(Parts[f.type]) \in Nat
      /\ \A i \in 1 .. Len(Parts[f.type]) : Parts[f.type][i] \in Types
  BY <1>1, PartsTyped
<1>4. Len(f.got) + 1 \in 1 .. Len(Parts[f.type]) BY <1>2, <1>3
<1> QED BY <1>1, <1>2, <1>3, <1>4 DEF NextPart, Range

\* A filter that waits for another has parts left.
LEMMA AwaitsPart ==
  ASSUME NEW tab, NEW f, FrameSound(tab, f), AwaitsFilter(f)
  PROVE  f.cache = "filter" /\ Len(f.got) < Len(Parts[f.type])
<1>1. f.cache = "filter" /\ f.pc \in {"field", "element"} BY DEF AwaitsFilter
<1>2. CASE f.pc = "field" BY <1>1, <1>2 DEF FrameSound
<1>3. CASE f.pc = "element"
  <2>1. f.type \in Types /\ f.got = << >> /\ Kind[f.type] = "list"
    BY <1>1, <1>3 DEF FrameSound
  <2>2. Len(f.got) = 0 BY <2>1, EmptySeq
  <2>3. Len(Parts[f.type]) = 1 BY <2>1, TypesAssumption
  <2> QED BY <1>1, <2>2, <2>3
<1> QED BY <1>1, <1>2, <1>3

\* A list waits for the filter of its element.
LEMMA ElementPart ==
  ASSUME NEW tab, NEW f, FrameSound(tab, f), f.cache = "filter", f.pc = "element"
  PROVE  f.type \in Types /\ Kind[f.type] = "list" /\ NextPart(f) = Head(Parts[f.type])
<1>1. f.type \in Types /\ f.got = << >> /\ Kind[f.type] = "list" BY DEF FrameSound
<1>2. Len(f.got) = 0 BY <1>1, EmptySeq
<1>3. NextPart(f) = Parts[f.type][1] BY <1>2 DEF NextPart
<1>4. Parts[f.type] \in Seq(Types) BY <1>1, TypesAssumption
<1>5. Head(Parts[f.type]) = Parts[f.type][1] BY <1>4
<1> QED BY <1>1, <1>3, <1>5

LEMMA ToldStays ==
  ASSUME NEW tab, NEW new, Grows(tab, new), NEW f, FrameSound(tab, f), NEW r, Told(tab, f, r)
  PROVE  Told(new, f, r)
<1>1. "info" \in Caches /\ "filter" \in Caches BY DEF Caches
<1>2. AwaitsInfo(f) => f.type \in Types BY DEF AwaitsInfo, FrameSound
<1>3. AwaitsFilter(f) => NextPart(f) \in Types BY NextPartTyped, AwaitsPart
<1>4. AwaitsInfo(f) => Answers(new, "info", f.type, r) BY <1>1, <1>2, AnswerStays DEF Told
<1>5. AwaitsFilter(f) => Answers(new, "filter", NextPart(f), r)
  BY <1>1, <1>3, AnswerStays DEF Told
<1> QED BY <1>4, <1>5 DEF Told

LEMMA ChainStays ==
  ASSUME NEW tab, NEW new, Grows(tab, new), NEW s, NEW r, Chained(tab, s, r)
  PROVE  Chained(new, s, r)
BY FrameStays, ToldStays DEF Chained

LEMMA FitsStays ==
  ASSUME NEW tab, NEW new, Grows(tab, new), NEW c \in Caches, NEW t \in Types, NEW v,
         Fits(tab, c, t, v)
  PROVE  Fits(new, c, t, v)
<1>1. "info" \in Caches /\ t \in Keys BY DEF Caches, Keys
<1>2. CASE c = "direct" BY <1>1, <1>2 DEF Fits, Grows
<1>3. CASE c = "filter"
  <2>1. \A i \in DOMAIN Parts[t] : FilterIn(new, Parts[t][i]) = FilterIn(tab, Parts[t][i])
    BY <1>3, FilterStays, PartsTyped DEF Fits
  <2> QED BY <1>3, <2>1 DEF Fits
<1> QED BY <1>2, <1>3 DEF Fits

Stored(tab, new, c, t, v) ==
  new = [tab EXCEPT ![c][t] = IF @ = Missing THEN v ELSE @]

\* A store under a key changes at most an empty entry, to a complete one.
LEMMA Storing ==
  ASSUME NEW tab, NEW new, IsTable(tab), Whole(tab), NEW c \in Caches, NEW t \in Keys,
         NEW v, v # Missing, t \in Types => Fits(tab, c, t, v), Stored(tab, new, c, t, v)
  PROVE  /\ IsTable(new) /\ Grows(tab, new) /\ Whole(new)
         /\ new[c][t] # Missing /\ new[c][t] = IF tab[c][t] = Missing THEN v ELSE tab[c][t]
<1>1. /\ IsTable(new) /\ new[c][t] = IF tab[c][t] = Missing THEN v ELSE tab[c][t]
      /\ \A d \in Caches, x \in Keys : d # c \/ x # t => new[d][x] = tab[d][x]
  BY DEF Stored, IsTable
<1>2. Grows(tab, new) BY <1>1 DEF Grows
<1>3. ASSUME NEW d \in Caches, NEW x \in Types, new[d][x] # Missing
      PROVE  Fits(new, d, x, new[d][x])
  <2>1. x \in Keys BY DEF Keys
  <2>2. CASE tab[d][x] # Missing
    <3>1. new[d][x] = tab[d][x] BY <1>2, <2>1, <2>2 DEF Grows
    <3>2. Fits(tab, d, x, new[d][x]) BY <2>2, <3>1 DEF Whole
    <3> QED BY <1>2, <3>2, FitsStays
  <2>3. CASE tab[d][x] = Missing
    <3>1. d = c /\ x = t /\ new[d][x] = v BY <1>1, <1>3, <2>1, <2>3
    <3> QED BY <1>2, <3>1, FitsStays
  <2> QED BY <2>2, <2>3
<1> QED BY <1>1, <1>2, <1>3 DEF Whole
-----------------------------------------------------------------------------
(* The frames of a caller.                                                 *)

LEMMA StackOf == ASSUME NEW S, NEW s \in Seq(S) PROVE IsStack(s)
<1>1. Len(s) \in Nat /\ s \in [1 .. Len(s) -> S] BY LenProperties
<1>2. DOMAIN s = 1 .. Len(s) /\ s = [i \in 1 .. Len(s) |-> s[i]] BY <1>1
<1>3. \A i \in 1 .. Len(s) : s[i] \in Range(s) BY <1>2 DEF Range
<1>4. s \in [1 .. Len(s) -> Range(s)] BY <1>2, <1>3
<1> QED BY <1>1, <1>4, SeqDef DEF IsStack

LEMMA Shortened ==
  ASSUME NEW s, IsStack(s), s # << >>, NEW k, k = Len(s)
  PROVE  /\ k \in Nat \ {0} /\ IsStack(Front(s)) /\ Len(Front(s)) = k - 1
         /\ Last(s) = s[k] /\ \A j \in 1 .. k - 1 : Front(s)[j] = s[j]
<1>1. k \in Nat \ {0} /\ \A j \in 1 .. k : s[j] \in Range(s)
  BY EmptySeq, LenProperties, ElementOfSeq DEF IsStack
<1>2. /\ Front(s) \in Seq(Range(s)) /\ Len(Front(s)) = k - 1
      /\ \A j \in 1 .. k - 1 : Front(s)[j] = s[j]
  BY <1>1, SubSeqProperties DEF Front, IsStack
<1> QED BY <1>1, <1>2, StackOf DEF Last

LEMMA Lengthened ==
  ASSUME NEW s, IsStack(s), NEW f, NEW k, k = Len(s) + 1
  PROVE  /\ k \in Nat \ {0} /\ IsStack(Append(s, f)) /\ Len(Append(s, f)) = k
         /\ Append(s, f)[k] = f /\ \A j \in 1 .. k - 1 : Append(s, f)[j] = s[j]
<1> DEFINE S == Range(s) \cup {f}
<1>1. s \in [1 .. Len(s) -> Range(s)] /\ Len(s) \in Nat BY LenProperties DEF IsStack
<1>2. s \in [1 .. Len(s) -> S] BY <1>1
<1>3. s \in Seq(S) BY <1>1, <1>2, SeqDef
<1>4. f \in S OBVIOUS
<1> HIDE DEF S
<1>5. /\ Append(s, f) \in Seq(S) /\ Len(Append(s, f)) = k /\ Append(s, f)[k] = f
      /\ \A j \in 1 .. k - 1 : Append(s, f)[j] = s[j]
  BY <1>1, <1>3, <1>4, AppendProperties
<1>6. IsStack(Append(s, f)) BY <1>5, StackOf
<1>7. k \in Nat \ {0} BY <1>1
<1> QED BY <1>5, <1>6, <1>7

\* g is f further on.
Continues(f, g) == g.cache = f.cache /\ g.type = f.type

LEMMA InnermostFrame ==
  ASSUME NEW tab, NEW s, NEW r, Chained(tab, s, r), s # << >>, NEW f, f = Last(s)
  PROVE  FrameSound(tab, f) /\ Told(tab, f, r)
<1> PICK k : k = Len(s) OBVIOUS
<1>1. k \in Nat \ {0} /\ f = s[k] BY Shortened DEF Chained
<1> QED BY <1>1 DEF Chained

LEMMA GoesOnAs ==
  ASSUME NEW tab, NEW s, NEW r, Chained(tab, s, r), s # << >>, NEW f, f = Last(s),
         NEW g, FrameSound(tab, g), Continues(f, g), NEW r2, Told(tab, g, r2)
  PROVE  Chained(tab, Append(Front(s), g), r2)
<1> PICK k : k = Len(s) OBVIOUS
<1> PICK t : t = Append(Front(s), g) OBVIOUS
<1>1. /\ k \in Nat \ {0} /\ f = s[k] /\ IsStack(Front(s)) /\ Len(Front(s)) = k - 1
      /\ \A j \in 1 .. k - 1 : Front(s)[j] = s[j]
  BY Shortened DEF Chained
<1>2. /\ IsStack(t) /\ Len(t) = k /\ t[k] = g
      /\ \A j \in 1 .. k - 1 : t[j] = s[j]
  <2>1. k = Len(Front(s)) + 1 BY <1>1
  <2>2. /\ IsStack(t) /\ Len(t) = k /\ t[k] = g
        /\ \A j \in 1 .. k - 1 : t[j] = Front(s)[j]
    BY <1>1, <2>1, Lengthened
  <2> QED BY <1>1, <2>2
<1>3. ASSUME NEW i \in 1 .. k
      PROVE  /\ FrameSound(tab, t[i])
             /\ i < k => Serves(t[i], t[i + 1])
             /\ i = k => Told(tab, t[i], r2)
  <2>1. CASE i = k BY <1>1, <1>2, <2>1
  <2>2. CASE i = k - 1
    <3>1. t[i] = s[i] /\ t[i + 1] = g /\ FrameSound(tab, s[i]) /\ Serves(s[i], f)
      BY <1>1, <1>2, <1>3, <2>2 DEF Chained
    <3>2. Serves(s[i], g) BY <3>1 DEF Serves, Continues
    <3> QED BY <1>1, <2>2, <3>1, <3>2
  <2>3. CASE i < k - 1
    <3>1. t[i] = s[i] /\ t[i + 1] = s[i + 1] BY <1>1, <1>2, <1>3, <2>3
    <3> QED BY <1>1, <2>3, <3>1 DEF Chained
  <2> QED BY <1>1, <2>1, <2>2, <2>3
<1> QED BY <1>2, <1>3 DEF Chained

LEMMA TellsCaller ==
  ASSUME NEW tab, NEW s, NEW r, Chained(tab, s, r), s # << >>, NEW f, f = Last(s),
         NEW v, Answers(tab, f.cache, f.type, v)
  PROVE  Chained(tab, Front(s), v)
<1> PICK k : k = Len(s) OBVIOUS
<1>1. /\ k \in Nat \ {0} /\ f = s[k] /\ IsStack(Front(s)) /\ Len(Front(s)) = k - 1
      /\ \A j \in 1 .. k - 1 : Front(s)[j] = s[j]
  BY Shortened DEF Chained
<1>2. ASSUME NEW i \in 1 .. k - 1
      PROVE  /\ FrameSound(tab, s[i])
             /\ i < k - 1 => Serves(s[i], s[i + 1])
             /\ i = k - 1 => Told(tab, s[i], v)
  <2>1. FrameSound(tab, s[i]) /\ Serves(s[i], s[i + 1]) BY <1>1 DEF Chained
  <2>2. ASSUME i = k - 1 PROVE Told(tab, s[i], v)
    <3>1. Serves(s[i], f) BY <1>1, <2>1, <2>2
    <3>2. AwaitsInfo(s[i]) => Answers(tab, "info", s[i].type, v)
      BY <3>1 DEF Serves
    <3>3. AwaitsFilter(s[i]) => Answers(tab, "filter", NextPart(s[i]), v)
      BY <3>1 DEF Serves, Answers, FilterIn
    <3> QED BY <3>2, <3>3 DEF Told
  <2> QED BY <2>1, <2>2
<1>3. \A i \in 1 .. k - 1 : Front(s)[i] = s[i] /\ (i < k - 1 => Front(s)[i + 1] = s[i + 1])
  BY <1>1
<1> QED BY <1>1, <1>2, <1>3 DEF Chained

\* A caller goes on with g, which calls h.
LEMMA CallsFor ==
  ASSUME NEW tab, NEW s, NEW r, Chained(tab, s, r), s # << >>, NEW f, f = Last(s),
         NEW g, FrameSound(tab, g), Continues(f, g),
         NEW h, FrameSound(tab, h), Serves(g, h), ~ AwaitsInfo(h), ~ AwaitsFilter(h)
  PROVE  Chained(tab, Append(Append(Front(s), g), h), r)
<1> PICK k : k = Len(s) OBVIOUS
<1> PICK t : t = Append(Front(s), g) OBVIOUS
<1> PICK u : u = Append(t, h) OBVIOUS
<1>1. /\ k \in Nat \ {0} /\ f = s[k] /\ IsStack(Front(s)) /\ Len(Front(s)) = k - 1
      /\ \A j \in 1 .. k - 1 : Front(s)[j] = s[j]
  BY Shortened DEF Chained
<1>2. IsStack(t) /\ Len(t) = k /\ t[k] = g /\ \A j \in 1 .. k - 1 : t[j] = s[j]
  <2>1. k = Len(Front(s)) + 1 BY <1>1
  <2>2. /\ IsStack(t) /\ Len(t) = k /\ t[k] = g
        /\ \A j \in 1 .. k - 1 : t[j] = Front(s)[j]
    BY <1>1, <2>1, Lengthened
  <2> QED BY <1>1, <2>2
<1>3. IsStack(u) /\ Len(u) = k + 1 /\ u[k + 1] = h /\ \A j \in 1 .. k : u[j] = t[j]
  <2> PICK m : m = Len(t) + 1 OBVIOUS
  <2>1. /\ IsStack(u) /\ Len(u) = m /\ u[m] = h /\ \A j \in 1 .. m - 1 : u[j] = t[j]
    BY <1>2, Lengthened
  <2>2. m = k + 1 /\ m - 1 = k BY <1>1, <1>2
  <2> QED BY <2>1, <2>2
<1>4. Told(tab, h, r) BY DEF Told
<1>5. ASSUME NEW i \in 1 .. k + 1
      PROVE  /\ FrameSound(tab, u[i])
             /\ i < k + 1 => Serves(u[i], u[i + 1])
             /\ i = k + 1 => Told(tab, u[i], r)
  <2>1. CASE i = k + 1 BY <1>1, <1>3, <1>4, <2>1
  <2>2. CASE i = k BY <1>1, <1>2, <1>3, <2>2
  <2>3. CASE i = k - 1
    <3>1. u[i] = s[i] /\ u[i + 1] = g /\ FrameSound(tab, s[i]) /\ Serves(s[i], f)
      BY <1>1, <1>2, <1>3, <1>5, <2>3 DEF Chained
    <3>2. Serves(s[i], g) BY <3>1 DEF Serves, Continues
    <3> QED BY <1>1, <2>3, <3>1, <3>2
  <2>4. CASE i < k - 1
    <3>1. u[i] = s[i] /\ u[i + 1] = s[i + 1] BY <1>1, <1>2, <1>3, <1>5, <2>4
    <3> QED BY <1>1, <2>4, <3>1 DEF Chained
  <2> QED BY <1>1, <2>1, <2>2, <2>3, <2>4
<1> QED BY <1>3, <1>5 DEF Chained

LEMMA OneFrame ==
  ASSUME NEW tab, NEW f, FrameSound(tab, f), ~ AwaitsInfo(f), ~ AwaitsFilter(f), NEW r
  PROVE  Chained(tab, <<f>>, r)
<1>1. <<f>> \in Seq({f}) /\ Len(<<f>>) = 1 /\ <<f>>[1] = f OBVIOUS
<1>2. IsStack(<<f>>) BY <1>1, StackOf
<1> QED BY <1>1, <1>2 DEF Chained, Told

LEMMA NoFrames == ASSUME NEW tab, NEW r PROVE Chained(tab, << >>, r)
<1>1. << >> \in Seq({}) /\ Len(<< >>) = 0 BY EmptySeq
<1>2. IsStack(<< >>) BY <1>1, StackOf
<1> QED BY <1>1, <1>2 DEF Chained
-----------------------------------------------------------------------------
(* What a step of a caller does with its frames and the tables.            *)

LEMMA OthersKeep ==
  ASSUME IInv, IsTable(table'), Whole(table'), HandedStored', Grows(table, table'),
         NEW p \in Callers, DOMAIN stack' = Callers, DOMAIN ret' = Callers,
         \A q \in Callers : q # p => stack'[q] = stack[q] /\ ret'[q] = ret[q],
         Chained(table', stack'[p], ret'[p])
  PROVE  IInv'
<1>1. ASSUME NEW q \in Callers PROVE Chained(table', stack'[q], ret'[q])
  BY ChainStays DEF IInv, Chains
<1> QED BY <1>1 DEF IInv, Chains

LEMMA TableKept ==
  ASSUME IInv, UNCHANGED <<table, handed>>
  PROVE  IsTable(table') /\ Whole(table') /\ HandedStored' /\ Grows(table, table')
BY DEF IInv, HandedStored, Grows

LEMMA TopSound ==
  ASSUME IInv, NEW p \in Callers, Busy(p), NEW f, f = Top(p)
  PROVE  /\ FrameSound(table, f) /\ Told(table, f, ret[p])
         /\ Chained(table, stack[p], ret[p]) /\ stack[p] # << >> /\ f = Last(stack[p])
         /\ DOMAIN stack = Callers /\ DOMAIN ret = Callers
<1>1. Chained(table, stack[p], ret[p]) /\ stack[p] # << >> /\ f = Last(stack[p])
  BY DEF IInv, Chains, Busy, Top
<1>2. FrameSound(table, f) /\ Told(table, f, ret[p]) BY <1>1, InnermostFrame
<1> QED BY <1>1, <1>2 DEF IInv, Chains

LEMMA Becoming ==
  ASSUME IInv, NEW p \in Callers, Busy(p), NEW f, f = Top(p), NEW g, FrameSound(table, g),
         Continues(f, g), ~ AwaitsInfo(g), ~ AwaitsFilter(g), Become(p, g)
  PROVE  IInv'
<1>1. Chained(table, stack[p], ret[p]) /\ stack[p] # << >> /\ f = Last(stack[p])
      /\ DOMAIN stack = Callers /\ DOMAIN ret = Callers
  BY TopSound
<1>2. /\ stack' = [stack EXCEPT ![p] = Append(Front(@), g)] /\ ret' = ret
      /\ UNCHANGED <<table, handed>>
  BY DEF Become
<1>3. Told(table, g, ret[p]) BY DEF Told
<1>4. Chained(table, Append(Front(stack[p]), g), ret[p]) BY <1>1, <1>3, GoesOnAs
<1>5. /\ DOMAIN stack' = Callers /\ DOMAIN ret' = Callers
      /\ \A q \in Callers : q # p => stack'[q] = stack[q] /\ ret'[q] = ret[q]
      /\ Chained(table', stack'[p], ret'[p])
  BY <1>1, <1>2, <1>4
<1> QED BY <1>2, <1>5, TableKept, OthersKeep

LEMMA Calling ==
  ASSUME IInv, NEW p \in Callers, Busy(p), NEW f, f = Top(p), NEW g, FrameSound(table, g),
         Continues(f, g), NEW h, FrameSound(table, h), Serves(g, h),
         ~ AwaitsInfo(h), ~ AwaitsFilter(h), Call(p, g, h)
  PROVE  IInv'
<1>1. Chained(table, stack[p], ret[p]) /\ stack[p] # << >> /\ f = Last(stack[p])
      /\ DOMAIN stack = Callers /\ DOMAIN ret = Callers
  BY TopSound
<1>2. ret' = ret /\ UNCHANGED <<table, handed>> BY DEF Call, Overflow
<1>3. CASE stack' = stack
  BY <1>1, <1>2, <1>3, TableKept, OthersKeep
<1>4. CASE stack' = [stack EXCEPT ![p] = Append(Append(Front(@), g), h)]
  <2>1. Chained(table, Append(Append(Front(stack[p]), g), h), ret[p]) BY <1>1, CallsFor
  <2>2. /\ DOMAIN stack' = Callers /\ DOMAIN ret' = Callers
        /\ \A q \in Callers : q # p => stack'[q] = stack[q] /\ ret'[q] = ret[q]
        /\ Chained(table', stack'[p], ret'[p])
    BY <1>1, <1>2, <1>4, <2>1
  <2> QED BY <1>2, <2>2, TableKept, OthersKeep
<1> QED BY <1>3, <1>4 DEF Call, Overflow

LEMMA Overflowing ==
  ASSUME IInv, NEW p \in Callers, Busy(p), Overflow
  PROVE  IInv'
<1>1. stack' = stack /\ ret' = ret /\ UNCHANGED <<table, handed>> BY DEF Overflow
<1>2. Chained(table, stack[p], ret[p]) /\ DOMAIN stack = Callers /\ DOMAIN ret = Callers
  BY TopSound
<1> QED BY <1>1, <1>2, TableKept, OthersKeep

LEMMA Leaving ==
  ASSUME IInv, IsTable(table'), Whole(table'), HandedStored', Grows(table, table'),
         NEW p \in Callers, Busy(p), NEW f, f = Top(p), NEW v, Leave(p, v),
         Answers(table', f.cache, f.type, v)
  PROVE  IInv'
<1>1. Chained(table, stack[p], ret[p]) /\ stack[p] # << >> /\ f = Last(stack[p])
      /\ DOMAIN stack = Callers /\ DOMAIN ret = Callers
  BY TopSound
<1>2. stack' = [stack EXCEPT ![p] = Front(@)] /\ ret' = [ret EXCEPT ![p] = v] BY DEF Leave
<1>3. Chained(table', stack[p], ret[p]) BY <1>1, ChainStays
<1>4. Chained(table', Front(stack[p]), v) BY <1>1, <1>3, TellsCaller
<1>5. /\ DOMAIN stack' = Callers /\ DOMAIN ret' = Callers
      /\ \A q \in Callers : q # p => stack'[q] = stack[q] /\ ret'[q] = ret[q]
      /\ Chained(table', stack'[p], ret'[p])
  BY <1>1, <1>2, <1>4
<1> QED BY <1>5, OthersKeep

LEMMA Returning ==
  ASSUME IInv, NEW p \in Callers, Busy(p), NEW f, f = Top(p), NEW v, Return(p, v),
         Answers(table, f.cache, f.type, v)
  PROVE  IInv'
<1>1. Leave(p, v) /\ UNCHANGED <<table, handed>> BY DEF Return
<1>2. Answers(table', f.cache, f.type, v) BY <1>1
<1> QED BY <1>1, <1>2, TableKept, Leaving

\* A caller is answered the entry that is now stored.
LEMMA Answering ==
  ASSUME IInv, IsTable(table'), Whole(table'), Grows(table, table'),
         NEW p \in Callers, Busy(p), NEW f, f = Top(p), f.cache \in Caches, NEW v, Answer(p, v),
         v = table'[f.cache][f.type], v # Missing
  PROVE  IInv'
<1>1. FrameSound(table, f) BY TopSound
<1>2. Leave(p, v) /\ handed' = handed \cup {<<f.cache, f.type, v>>} BY DEF Answer
<1>3. f.type \in Keys BY <1>1 DEF FrameSound, Keys
<1>4. HandedStored'
  <2>1. ASSUME NEW h \in handed
        PROVE  /\ h[1] \in Caches /\ h[2] \in Keys
               /\ h[3] # Missing /\ h[3] = table'[h[1]][h[2]]
    BY DEF IInv, HandedStored, Grows
  <2> QED BY <1>2, <1>3, <2>1 DEF HandedStored
<1>5. Answers(table', f.cache, f.type, v)
  <2>1. ASSUME f.cache = "filter" PROVE v = FilterIn(table', f.type)
    <3>1. f.type \in Types BY <1>1, <2>1 DEF FrameSound
    <3>2. Fits(table', f.cache, f.type, v) BY <3>1 DEF Whole
    <3>3. IsStruct(f.type) BY <2>1, <3>2 DEF Fits
    <3>4. Inside[f.type] = f.type
      <4>1. Kind[f.type] # "list" BY <3>3 DEF IsStruct
      <4> QED BY <3>1, <4>1, InsideTyped
    <3> QED BY <2>1, <3>3, <3>4 DEF FilterIn
  <2> QED BY <2>1 DEF Answers
<1> QED BY <1>2, <1>4, <1>5, Leaving

LEMMA Publishing ==
  ASSUME IInv, NEW p \in Callers, Busy(p), NEW f, f = Top(p), f.cache \in Caches,
         NEW v, v # Missing, f.type \in Types => Fits(table, f.cache, f.type, v), Publish(p, v)
  PROVE  IInv'
<1>1. f.type \in Keys
  <2>1. FrameSound(table, f) BY TopSound
  <2> QED BY <2>1 DEF FrameSound, Keys
<1>2. Stored(table, table', f.cache, f.type, v) /\ Answer(p, table'[f.cache][f.type])
  BY DEF Publish, Stored
<1>3. /\ IsTable(table') /\ Grows(table, table') /\ Whole(table')
      /\ table'[f.cache][f.type] # Missing
  BY <1>1, <1>2, Storing DEF IInv
<1> PICK w : w = table'[f.cache][f.type] OBVIOUS
<1> QED BY <1>2, <1>3, Answering
-----------------------------------------------------------------------------
(* Each operation preserves the invariant.                                 *)

\* A frame of a computation, with its fields.
LEMMA AtFrame ==
  ASSUME IInv, NEW p \in Callers, NEW c, NEW pc, At(p, c, pc), NEW f, f = Top(p)
  PROVE  /\ Busy(p) /\ f.cache \in c /\ f.pc = pc /\ FrameSound(table, f) /\ Told(table, f, ret[p])
         /\ f.cache # "zone" => f.type \in Types
         /\ f.cache = "zone" => f.type = Offset /\ f.type \notin Types
<1>1. Busy(p) /\ f.cache \in c /\ f.pc = pc BY DEF At
<1>2. FrameSound(table, f) /\ Told(table, f, ret[p]) BY <1>1, TopSound
<1>3. Offset \notin Types BY TypesAssumption
<1> QED BY <1>1, <1>2, <1>3 DEF FrameSound

LEMMA NothingGot ==
  ASSUME NEW tab, NEW f, f.got = << >>, f.type \in Types
  PROVE  GotSound(tab, f)
<1>1. << >> \in Seq(Range(<< >>)) /\ Len(<< >>) = 0 BY EmptySeq
<1>2. Len(Parts[f.type]) \in Nat BY PartsTyped
<1> QED BY <1>1, <1>2 DEF GotSound

LEMMA FreshFrame ==
  ASSUME NEW tab, NEW c \in Caches \cup {"unmarshal", "marshal", "recycle"},
         NEW t \in IF c = "zone" THEN {Offset} ELSE Types, c = "eligible" => IsStruct(t), NEW f,
         f.cache = c, f.type = t, f.pc \in {"load", "begin"}, f.todo = << >>, f.got = << >>,
         DOMAIN f = {"cache", "type", "pc", "todo", "seen", "got"}
  PROVE  FrameSound(tab, f) /\ f.cache = c /\ f.type = t /\ ~ AwaitsInfo(f) /\ ~ AwaitsFilter(f)
<1>1. << >> \in Seq(Levels) BY EmptySeq
<1>2. c = "filter" => GotSound(tab, f) BY NothingGot
<1>3. IsStack(f.got) BY EmptySeq, StackOf
<1> QED BY <1>1, <1>2, <1>3 DEF FrameSound, AwaitsInfo, AwaitsFilter

LEMMA NewFrame ==
  ASSUME NEW tab, NEW c \in Caches \cup {"recycle"},
         NEW t \in IF c = "zone" THEN {Offset} ELSE Types, c = "eligible" => IsStruct(t),
         NEW f, f = Frame(c, t)
  PROVE  FrameSound(tab, f) /\ f.cache = c /\ f.type = t /\ ~ AwaitsInfo(f) /\ ~ AwaitsFilter(f)
<1>1. /\ f.cache = c /\ f.type = t /\ f.pc \in {"load", "begin"} /\ f.todo = << >> /\ f.got = << >>
      /\ DOMAIN f = {"cache", "type", "pc", "todo", "seen", "got"}
  BY DEF Frame
<1> QED BY <1>1, FreshFrame

LEMMA NewFilter ==
  ASSUME NEW tab, NEW t \in Types, NEW f, f = Frame("filter", t)
  PROVE  FrameSound(tab, f) /\ f.cache = "filter" /\ f.type = t
         /\ ~ AwaitsInfo(f) /\ ~ AwaitsFilter(f)
<1>1. /\ f.cache = "filter" /\ f.type = t /\ f.pc \in {"load", "begin"}
      /\ f.todo = << >> /\ f.got = << >>
      /\ DOMAIN f = {"cache", "type", "pc", "todo", "seen", "got"}
  BY DEF Frame
<1>2. GotSound(tab, f) BY <1>1, NothingGot
<1>3. << >> \in Seq(Levels) BY EmptySeq
<1> QED BY <1>1, <1>2, <1>3 DEF FrameSound, AwaitsInfo, AwaitsFilter, Caches

LEMMA HitOwned == ASSUME IInv, NEW p \in Callers, Hit(p) PROVE IInv'
<1> PICK f : f = Top(p) OBVIOUS
<1> PICK v : v = table[f.cache][f.type] OBVIOUS
<1>1. Busy(p) /\ f.cache \in Caches BY AtFrame DEF Hit
<1>2. v # Missing /\ Answer(p, v) /\ table' = table BY DEF Hit, Entry
<1>3. IsTable(table') /\ Whole(table') /\ Grows(table, table')
  BY <1>2 DEF IInv, Grows
<1> QED BY <1>1, <1>2, <1>3, Answering

LEMMA FailedAnswers ==
  ASSUME NEW tab, NEW c, NEW t PROVE Answers(tab, c, t, Failed)
BY DEF Answers

LEMMA LookupOwned ==
  ASSUME IInv, NEW p \in Callers, LookupBuild(p) \/ LookupStore(p) PROVE IInv'
<1> PICK f : f = Top(p) OBVIOUS
<1>1. CASE LookupBuild(p)
  <2>1. Busy(p) /\ f.cache = "info" /\ FrameSound(table, f)
    BY <1>1, AtFrame DEF LookupBuild, Miss
  <2>2. CASE Kind[f.type] = "badtag"
    <3>1. Return(p, Failed) BY <1>1, <2>2 DEF LookupBuild
    <3> QED BY <2>1, <3>1, FailedAnswers, Returning
  <2>3. CASE Kind[f.type] # "badtag"
    <3> PICK g : g = [f EXCEPT !.pc = "store"] OBVIOUS
    <3>1. Become(p, g) BY <1>1, <2>3 DEF LookupBuild
    <3>2. FrameSound(table, g) /\ Continues(f, g) /\ ~ AwaitsInfo(g) /\ ~ AwaitsFilter(g)
      BY <2>1, <2>3 DEF FrameSound, Continues, AwaitsInfo, AwaitsFilter
    <3> QED BY <2>1, <3>1, <3>2, Becoming
  <2> QED BY <2>2, <2>3
<1>2. CASE LookupStore(p)
  <2> PICK v : v = [by |-> Me(p)] OBVIOUS
  <2>1. Busy(p) /\ f.cache = "info" /\ f.pc = "store" /\ FrameSound(table, f) /\ Publish(p, v)
    BY <1>2, AtFrame DEF LookupStore
  <2>2. v # Missing BY DEF Missing
  <2>3. Fits(table, f.cache, f.type, v) BY <2>1 DEF FrameSound, Fits
  <2>4. f.cache \in Caches BY <2>1 DEF Caches
  <2> QED BY <2>1, <2>2, <2>3, <2>4, Publishing
<1> QED BY <1>1, <1>2

LEMMA DirectOwned ==
  ASSUME IInv, NEW p \in Callers, DirectInfo(p) \/ DirectStore(p) PROVE IInv'
<1> PICK f : f = Top(p) OBVIOUS
<1>1. CASE DirectInfo(p)
  <2> PICK g : g = [f EXCEPT !.pc = "info"] OBVIOUS
  <2> PICK h : h = Frame("info", f.type) OBVIOUS
  <2>1. Busy(p) /\ f.cache = "direct" /\ FrameSound(table, f) /\ f.type \in Types
    BY <1>1, AtFrame DEF DirectInfo, Miss
  <2>2. Call(p, g, h) BY <1>1 DEF DirectInfo
  <2>3. FrameSound(table, g) /\ Continues(f, g) /\ g.type = f.type /\ ~ AwaitsFilter(g)
    BY <2>1 DEF FrameSound, Continues, AwaitsFilter
  <2>4. FrameSound(table, h) /\ h.cache = "info" /\ h.type = f.type
        /\ ~ AwaitsInfo(h) /\ ~ AwaitsFilter(h)
    BY <2>1, NewFrame DEF Caches
  <2>5. Serves(g, h) BY <2>3, <2>4 DEF Serves
  <2> QED BY <2>1, <2>2, <2>3, <2>4, <2>5, Calling
<1>2. CASE DirectStore(p)
  <2>1. Busy(p) /\ f.cache = "direct" /\ f.pc = "info" /\ f.type \in Types
        /\ Told(table, f, ret[p])
    BY <1>2, AtFrame DEF DirectStore
  <2>2. CASE ret[p] = Failed
    <3>1. Return(p, Failed) BY <1>2, <2>2 DEF DirectStore
    <3> QED BY <2>1, <3>1, FailedAnswers, Returning
  <2>3. CASE ret[p] # Failed
    <3> PICK v : v = [by |-> Me(p), info |-> ret[p]] OBVIOUS
    <3>1. Publish(p, v) BY <1>2, <2>3 DEF DirectStore
    <3>2. v # Missing BY DEF Missing
    <3>3. ret[p] # Missing /\ ret[p] = table["info"][f.type]
      BY <2>1, <2>3 DEF Told, AwaitsInfo, Answers
    <3>4. Fits(table, f.cache, f.type, v) BY <2>1, <3>3 DEF Fits
    <3>5. f.cache \in Caches BY <2>1 DEF Caches
    <3> QED BY <2>1, <3>1, <3>2, <3>4, <3>5, Publishing
  <2> QED BY <2>2, <2>3
<1> QED BY <1>1, <1>2

\* The level that the walk is in, and what is left of it.
LEMMA LevelTyped ==
  ASSUME NEW T \in Seq(Levels), T # << >>
  PROVE  /\ Last(T) \in Levels /\ Front(T) \in Seq(Levels)
         /\ \A l \in Levels : Append(Front(T), l) \in Seq(Levels)
<1>1. Len(T) \in Nat \ {0} BY EmptySeq, LenProperties
<1>2. Last(T) \in Levels BY <1>1, ElementOfSeq DEF Last
<1>3. Front(T) \in Seq(Levels) BY <1>1, SubSeqProperties DEF Front
<1> QED BY <1>2, <1>3, AppendProperties

\* What a visit makes of the levels: rest when the part is done with, into when
\* its own parts are next.
LEMMA VisitTyped ==
  ASSUME NEW T \in Seq(Levels), T # << >>, NEW l, l = Last(T), l.left # << >>,
         NEW rest, rest = Append(Front(T), [l EXCEPT !.left = Tail(@)]),
         NEW into, into = Append(rest, Level(Head(l.left)))
  PROVE  /\ l \in Levels /\ Head(l.left) \in Types /\ Tail(l.left) \in Seq(Types)
         /\ Level(Head(l.left)) \in Levels /\ rest \in Seq(Levels) /\ into \in Seq(Levels)
<1>1. l \in Levels /\ l.left \in Seq(Types) BY LevelTyped DEF Levels
<1>2. Head(l.left) \in Types /\ Tail(l.left) \in Seq(Types) BY <1>1, HeadTailProperties
<1>3. [l EXCEPT !.left = Tail(@)] \in Levels BY <1>1, <1>2 DEF Levels
<1>4. rest \in Seq(Levels) BY <1>3, LevelTyped
<1>5. Parts[Head(l.left)] \in Seq(Types) BY <1>2, PartsTyped
<1>6. Level(Head(l.left)) \in Levels BY <1>2, <1>5 DEF Level, Levels
<1> QED BY <1>1, <1>2, <1>4, <1>6, AppendProperties

LEMMA EligibleOwned ==
  ASSUME IInv, NEW p \in Callers,
         EligibleMiss(p) \/ WalkVisit(p) \/ WalkFields(p) \/ WalkReturn(p) \/ EligibleStore(p)
  PROVE  IInv'
<1> PICK f : f = Top(p) OBVIOUS
<1>1. /\ Busy(p) /\ f.cache = "eligible" /\ f.type \in Types /\ FrameSound(table, f)
      /\ f.cache \in Caches /\ IsStruct(f.type) /\ f.todo \in Seq(Levels)
  <2>1. \E pc : At(p, {"eligible"}, pc)
    BY DEF EligibleMiss, WalkVisit, WalkFields, WalkReturn, EligibleStore, Miss, Walking
  <2>2. Busy(p) /\ f.cache \in {"eligible"} /\ f.type \in Types /\ FrameSound(table, f)
    BY <2>1, AtFrame
  <2> QED BY <2>2 DEF Caches, FrameSound
\* A frame of the walk that goes on, with what is left to visit.
<1>2. ASSUME NEW g, Become(p, g), DOMAIN g = DOMAIN f, g.cache = f.cache, g.type = f.type,
             g.todo \in Seq(Levels), g.pc \notin {"fields", "load"}
      PROVE  IInv'
  <2>1. FrameSound(table, g) BY <1>1, <1>2 DEF FrameSound
  <2>2. Continues(f, g) /\ ~ AwaitsInfo(g) /\ ~ AwaitsFilter(g)
    BY <1>1, <1>2 DEF Continues, AwaitsInfo, AwaitsFilter
  <2> QED BY <1>1, <1>2, <2>1, <2>2, Becoming
\* One that looks a struct up.
<1>3. ASSUME NEW g, NEW t \in Types, Call(p, g, Frame("info", t)), DOMAIN g = DOMAIN f,
             g.cache = f.cache, g.type = f.type, g.pc = "fields", g.todo \in Seq(Levels),
             g.todo # << >>
      PROVE  IInv'
  <2> PICK h : h = Frame("info", t) OBVIOUS
  <2>1. FrameSound(table, g) /\ Continues(f, g) /\ ~ AwaitsInfo(g) /\ ~ AwaitsFilter(g)
    BY <1>1, <1>3 DEF FrameSound, Continues, AwaitsInfo, AwaitsFilter
  <2>2. FrameSound(table, h) /\ ~ AwaitsInfo(h) /\ ~ AwaitsFilter(h)
    BY <1>3, NewFrame DEF Caches
  <2>3. Serves(g, h) BY <2>1 DEF Serves
  <2> QED BY <1>1, <1>3, <2>1, <2>2, <2>3, Calling
<1>4. CASE EligibleMiss(p)
  <2> PICK T : T = <<Level(f.type)>> OBVIOUS
  <2> PICK g : g = [f EXCEPT !.pc = "fields", !.seen = {f.type}, !.todo = T] OBVIOUS
  <2>1. Call(p, g, Frame("info", f.type)) BY <1>4 DEF EligibleMiss
  <2>2. DOMAIN g = DOMAIN f /\ g.cache = f.cache /\ g.type = f.type /\ g.pc = "fields"
        /\ g.todo = T
    BY <1>1 DEF FrameSound
  <2>3. T \in Seq(Levels) /\ T # << >>
    <3>1. Parts[f.type] \in Seq(Types) BY <1>1, PartsTyped
    <3>2. Level(f.type) \in Levels BY <1>1, <3>1 DEF Level, Levels
    <3> QED BY <3>2
  <2> QED BY <1>1, <1>3, <2>1, <2>2, <2>3
<1>5. CASE WalkVisit(p)
  <2> PICK l : l = Last(f.todo) OBVIOUS
  <2> PICK t : t = Head(l.left) OBVIOUS
  <2> PICK rest : rest = Append(Front(f.todo), [l EXCEPT !.left = Tail(@)]) OBVIOUS
  <2> PICK into : into = Append(rest, Level(t)) OBVIOUS
  <2>1. f.todo # << >> /\ l.left # << >> /\ f.pc = "walk"
    BY <1>5 DEF WalkVisit, Walking, At
  <2>2. t \in Types /\ rest \in Seq(Levels) /\ into \in Seq(Levels) BY <1>1, <2>1, VisitTyped
  <2>3. into # << >>
    <3>1. Len(into) = Len(rest) + 1 /\ Len(rest) \in Nat
      BY <1>1, <2>1, <2>2, VisitTyped, AppendProperties, LenProperties
    <3> QED BY <3>1, EmptySeq
  <2>4. \/ Overflow
        \/ Become(p, [f EXCEPT !.pc = "found"])
        \/ Call(p, [f EXCEPT !.pc = "fields", !.seen = @ \cup {t}, !.todo = into], Frame("info", t))
        \/ \E T \in {rest, into} : Become(p, [f EXCEPT !.todo = T])
    BY <1>5 DEF WalkVisit
  <2>5. CASE Become(p, [f EXCEPT !.pc = "found"])
    <3> PICK g : g = [f EXCEPT !.pc = "found"] OBVIOUS
    <3>1. DOMAIN g = DOMAIN f /\ g.cache = f.cache /\ g.type = f.type /\ g.pc = "found"
          /\ g.todo = f.todo
      BY <1>1 DEF FrameSound
    <3> QED BY <1>1, <1>2, <2>5, <3>1
  <2>6. CASE Call(p, [f EXCEPT !.pc = "fields", !.seen = @ \cup {t}, !.todo = into],
                  Frame("info", t))
    <3> PICK g : g = [f EXCEPT !.pc = "fields", !.seen = @ \cup {t}, !.todo = into] OBVIOUS
    <3>1. DOMAIN g = DOMAIN f /\ g.cache = f.cache /\ g.type = f.type /\ g.pc = "fields"
          /\ g.todo = into
      BY <1>1 DEF FrameSound
    <3> QED BY <1>3, <2>2, <2>3, <2>6, <3>1
  <2>7. ASSUME NEW T \in {rest, into}, Become(p, [f EXCEPT !.todo = T]) PROVE IInv'
    <3> PICK g : g = [f EXCEPT !.todo = T] OBVIOUS
    <3>1. DOMAIN g = DOMAIN f /\ g.cache = f.cache /\ g.type = f.type /\ g.pc = f.pc
          /\ g.todo = T
      BY <1>1 DEF FrameSound
    <3> QED BY <1>2, <2>1, <2>2, <2>7, <3>1
  <2> QED BY <1>1, <2>4, <2>5, <2>6, <2>7, Overflowing
<1>6. CASE WalkFields(p)
  <2>1. CASE ret[p] = Failed
    <3>1. Return(p, Failed) BY <1>6, <2>1 DEF WalkFields
    <3> QED BY <1>1, <3>1, FailedAnswers, Returning
  <2>2. CASE ret[p] # Failed
    <3> PICK g : g = [f EXCEPT !.pc = "walk"] OBVIOUS
    <3>1. Become(p, g) BY <1>6, <2>2 DEF WalkFields
    <3>2. DOMAIN g = DOMAIN f /\ g.cache = f.cache /\ g.type = f.type /\ g.pc = "walk"
          /\ g.todo = f.todo
      BY <1>1 DEF FrameSound
    <3> QED BY <1>1, <1>2, <3>1, <3>2
  <2> QED BY <2>1, <2>2
<1>7. CASE WalkReturn(p)
  <2> PICK T : T = Front(f.todo) OBVIOUS
  <2> PICK g : g = [f EXCEPT !.todo = T] OBVIOUS
  <2>1. Become(p, g) /\ f.pc = "walk" /\ f.todo # << >>
    BY <1>1, <1>7 DEF WalkReturn, Walking, At, FrameSound
  <2>2. DOMAIN g = DOMAIN f /\ g.cache = f.cache /\ g.type = f.type /\ g.pc = "walk"
        /\ g.todo = T
    BY <1>1, <2>1 DEF FrameSound
  <2>3. T \in Seq(Levels) BY <1>1, <2>1, LevelTyped
  <2> QED BY <1>2, <2>1, <2>2, <2>3
<1>8. CASE EligibleStore(p)
  <2>1. \E b \in BOOLEAN : Publish(p, Verdict(b)) BY <1>8 DEF EligibleStore
  <2> PICK v : Publish(p, v) /\ \E b \in BOOLEAN : v = Verdict(b) BY <2>1
  <2>2. v # Missing BY DEF Missing, Verdict
  <2>3. Fits(table, f.cache, f.type, v) BY <1>1 DEF Fits
  <2> QED BY <1>1, <2>2, <2>3, Publishing
<1> QED BY <1>4, <1>5, <1>6, <1>7, <1>8

LEMMA SpecialOwned ==
  ASSUME IInv, NEW p \in Callers,
         SpecialMiss(p) \/ SpecialStore(p) \/ ZoneMiss(p) \/ ZoneStore(p)
  PROVE  IInv'
<1> PICK f : f = Top(p) OBVIOUS
<1>1. /\ Busy(p) /\ f.cache \in {"special", "zone"} /\ FrameSound(table, f) /\ f.cache \in Caches
      /\ SpecialStore(p) => f.cache = "special"
      /\ ZoneStore(p) => f.cache = "zone" /\ f.type \notin Types
  BY AtFrame DEF SpecialMiss, SpecialStore, ZoneMiss, ZoneStore, Miss, Caches
<1>2. CASE SpecialMiss(p) \/ ZoneMiss(p)
  <2> PICK g : g = [f EXCEPT !.pc = "store"] OBVIOUS
  <2>1. Become(p, g) BY <1>2 DEF SpecialMiss, ZoneMiss
  <2>2. FrameSound(table, g) /\ Continues(f, g) /\ ~ AwaitsInfo(g) /\ ~ AwaitsFilter(g)
    BY <1>1 DEF FrameSound, Continues, AwaitsInfo, AwaitsFilter
  <2> QED BY <1>1, <2>1, <2>2, Becoming
<1>3. CASE SpecialStore(p)
  <2> PICK v : v = [kind |-> Kind[f.type]] OBVIOUS
  <2>1. Publish(p, v) /\ v # Missing BY <1>3 DEF SpecialStore, Missing
  <2>2. Fits(table, f.cache, f.type, v) BY <1>1, <1>3 DEF Fits
  <2> QED BY <1>1, <2>1, <2>2, Publishing
<1>4. CASE ZoneStore(p)
  <2> PICK v : v = [by |-> Me(p)] OBVIOUS
  <2>1. Publish(p, v) /\ v # Missing BY <1>4 DEF ZoneStore, Missing
  <2> QED BY <1>1, <1>4, <2>1, Publishing
<1> QED BY <1>2, <1>3, <1>4

LEMMA FilterMissOwned == ASSUME IInv, NEW p \in Callers, FilterMiss(p) PROVE IInv'
<1> PICK f : f = Top(p) OBVIOUS
<1> PICK t : t = f.type OBVIOUS
<1>1. Busy(p) /\ f.cache = "filter" /\ f.pc = "load" /\ t \in Types /\ FrameSound(table, f)
  BY AtFrame DEF FilterMiss, Miss
<1>2. f.got = << >> BY <1>1 DEF FrameSound
<1>3. CASE Kind[t] = "list"
  <2> PICK u : u = Head(Parts[t]) OBVIOUS
  <2> PICK g : g = [f EXCEPT !.pc = "element"] OBVIOUS
  <2> PICK h : h = Frame("filter", u) OBVIOUS
  <2>1. Call(p, g, h)
    <3>1. ~ IsStruct(t) BY <1>3 DEF IsStruct
    <3> QED BY <1>3, <3>1 DEF FilterMiss
  <2>2. u \in Types BY <1>1, <1>3, InsideTyped
  <2>3. /\ g.cache = f.cache /\ g.type = t /\ g.pc = "element" /\ g.got = f.got /\ g.todo = f.todo
        /\ DOMAIN g = DOMAIN f
    BY <1>1 DEF FrameSound
  <2>4. GotSound(table, g) BY <1>1, <1>2, <2>3, NothingGot
  <2>5. FrameSound(table, g) BY <1>1, <1>2, <1>3, <2>3, <2>4 DEF FrameSound
  <2>6. FrameSound(table, h) /\ h.cache = "filter" /\ h.type = u
        /\ ~ AwaitsInfo(h) /\ ~ AwaitsFilter(h)
    BY <2>2, NewFilter
  <2>7. NextPart(g) = u BY <1>1, <2>3, <2>5, ElementPart
  <2>8. Continues(f, g) /\ Serves(g, h)
    BY <2>3, <2>6, <2>7 DEF Continues, Serves, AwaitsInfo
  <2> QED BY <1>1, <2>1, <2>5, <2>6, <2>8, Calling
<1>4. CASE IsStruct(t)
  <2> PICK g : g = [f EXCEPT !.pc = "info"] OBVIOUS
  <2> PICK h : h = Frame("info", t) OBVIOUS
  <2>1. Call(p, g, h)
    <3>1. Kind[t] # "list" BY <1>4 DEF IsStruct
    <3> QED BY <1>4, <3>1 DEF FilterMiss
  <2>2. /\ g.cache = f.cache /\ g.type = t /\ g.pc = "info" /\ g.got = f.got /\ g.todo = f.todo
        /\ DOMAIN g = DOMAIN f
    BY <1>1 DEF FrameSound
  <2>3. GotSound(table, g) BY <1>1, <2>2 DEF FrameSound, GotSound
  <2>4. FrameSound(table, g) BY <1>1, <1>2, <1>4, <2>2, <2>3 DEF FrameSound
  <2>5. FrameSound(table, h) /\ h.cache = "info" /\ h.type = t /\ ~ AwaitsInfo(h) /\ ~ AwaitsFilter(h)
    BY <1>1, NewFrame DEF Caches
  <2>6. Continues(f, g) /\ Serves(g, h)
    BY <2>2, <2>5 DEF Continues, Serves, AwaitsFilter
  <2> QED BY <1>1, <2>1, <2>4, <2>5, <2>6, Calling
<1>5. CASE Kind[t] # "list" /\ ~ IsStruct(t)
  <2>1. Return(p, NoFilter) BY <1>5 DEF FilterMiss
  <2>2. FilterIn(table, t) = NoFilter BY <1>1, <1>5, InsideTyped DEF FilterIn
  <2>3. NoFilter # Missing BY DEF NoFilter, Missing
  <2>4. Answers(table, f.cache, f.type, NoFilter) BY <1>1, <2>2, <2>3 DEF Answers
  <2> QED BY <1>1, <2>1, <2>4, Returning
<1> QED BY <1>3, <1>4, <1>5

\* A list has the filter of its element.
LEMMA FilterElementOwned == ASSUME IInv, NEW p \in Callers, FilterElement(p) PROVE IInv'
<1> PICK f : f = Top(p) OBVIOUS
<1> PICK r : r = ret[p] OBVIOUS
<1>1. Busy(p) /\ f.cache = "filter" /\ f.pc = "element" /\ FrameSound(table, f)
      /\ Told(table, f, r)
  BY AtFrame DEF FilterElement
<1>2. Return(p, r) BY DEF FilterElement
<1>3. Answers(table, "filter", NextPart(f), r) BY <1>1 DEF Told, AwaitsFilter
<1>4. Inside[NextPart(f)] = Inside[f.type] BY <1>1, ElementPart, InsideTyped
<1>5. Answers(table, f.cache, f.type, r) BY <1>1, <1>3, <1>4 DEF Answers, FilterIn
<1> QED BY <1>1, <1>2, <1>5, Returning

\* The part that canRecycleDocumentFor looks into next.
LEMMA NextExported ==
  ASSUME NEW t \in Types, NEW got, IsStack(got), Len(got) < Len(Exported[t])
  PROVE  Exported[t][Len(got) + 1] \in Types /\ Exported[t][Len(got) + 1] \in Range(Exported[t])
<1>1. Exported[t] \in Seq(Types) BY TypesAssumption
<1>2. DOMAIN Exported[t] = 1 .. Len(Exported[t]) /\ Len(Exported[t]) \in Nat
  BY <1>1, LenProperties
<1>3. Len(got) \in Nat BY LenProperties DEF IsStack
<1>4. Len(got) + 1 \in 1 .. Len(Exported[t]) BY <1>2, <1>3
<1> QED BY <1>1, <1>2, <1>4, ElementOfSeq DEF Range

LEMMA RecycleOwned == ASSUME IInv, NEW p \in Callers, Recycle(p) PROVE IInv'
<1> PICK f : f = Top(p) OBVIOUS
<1> PICK t : t = f.type OBVIOUS
<1> PICK got : got = IF f.pc = "load" THEN << >> ELSE Append(f.got, ret[p]) OBVIOUS
<1>1. Busy(p) /\ f.cache = "recycle" /\ t \in Types /\ FrameSound(table, f)
  <2>1. PICK pc \in {"load", "field"} : At(p, {"recycle"}, pc) BY DEF Recycle
  <2>2. Busy(p) /\ f.cache \in {"recycle"} /\ FrameSound(table, f)
        /\ (f.cache # "zone" => f.type \in Types)
    BY <2>1, AtFrame
  <2> QED BY <2>2
<1>4. IsStack(got)
  <2>1. IsStack(<< >>) BY EmptySeq, StackOf
  <2>2. IsStack(f.got) BY <1>1 DEF FrameSound
  <2> PICK r : r = ret[p] OBVIOUS
  <2>3. IsStack(Append(f.got, r)) BY <2>2, Lengthened
  <2> QED BY <2>1, <2>3
<1>2. ASSUME NEW v, Return(p, v) PROVE IInv'
  <2>1. Answers(table, f.cache, f.type, v) BY <1>1 DEF Answers
  <2> QED BY <1>1, <1>2, <2>1, Returning
<1>3. CASE /\ Composed(t) /\ Len(got) < Len(Exported[t])
           /\ Call(p, [f EXCEPT !.pc = "field", !.got = got],
                   Frame("recycle", Exported[t][Len(got) + 1]))
  <2> PICK u : u = Exported[t][Len(got) + 1] OBVIOUS
  <2> PICK g : g = [f EXCEPT !.pc = "field", !.got = got] OBVIOUS
  <2> PICK h : h = Frame("recycle", u) OBVIOUS
  <2>1. /\ g.cache = f.cache /\ g.type = t /\ g.todo = f.todo /\ g.got = got
        /\ DOMAIN g = DOMAIN f
    BY <1>1 DEF FrameSound
  <2>2. FrameSound(table, g) /\ Continues(f, g) BY <1>1, <1>4, <2>1 DEF FrameSound, Continues
  <2>3. u \in Types BY <1>1, <1>3, <1>4, NextExported
  <2>4. FrameSound(table, h) /\ ~ AwaitsInfo(h) /\ ~ AwaitsFilter(h)
    <3>1. "recycle" \in Caches \cup {"recycle"} /\ u \in IF "recycle" = "zone" THEN {Offset} ELSE Types
      BY <2>3
    <3> QED BY <3>1, NewFrame
  <2>5. Serves(g, h) BY <1>1, <2>1 DEF Serves, AwaitsInfo, AwaitsFilter
  <2> QED BY <1>1, <1>3, <2>2, <2>4, <2>5, Calling
<1> QED BY <1>2, <1>3 DEF Recycle

\* The parts a filter has got, and the one it is told.
LEMMA OnePartMore ==
  ASSUME NEW tab, NEW f, FrameSound(tab, f), f.cache = "filter", NEW r, Told(tab, f, r),
         r # Failed, NEW next,
         \/ f.pc = "info" /\ next = f.got
         \/ f.pc = "field" /\ next = Append(f.got, r)
  PROVE  /\ next \in Seq(Range(next)) /\ Len(next) \in Nat /\ Len(next) <= Len(Parts[f.type])
         /\ \A i \in 1 .. Len(next) : next[i] # Missing /\ next[i] = FilterIn(tab, Parts[f.type][i])
<1>1. /\ GotSound(tab, f) /\ f.type \in Types /\ Len(f.got) \in Nat /\ Len(Parts[f.type]) \in Nat
      /\ IsStack(f.got)
  BY PartsTyped, LenProperties DEF FrameSound, GotSound, IsStack
<1>2. CASE f.pc = "info" /\ next = f.got BY <1>1, <1>2 DEF GotSound
<1>3. CASE f.pc = "field" /\ next = Append(f.got, r)
  <2> PICK k : k = Len(f.got) + 1 OBVIOUS
  <2>1. k <= Len(Parts[f.type]) /\ k - 1 = Len(f.got) BY <1>1, <1>3 DEF FrameSound
  <2>2. r # Missing /\ r = FilterIn(tab, Parts[f.type][k])
    BY <1>3 DEF Told, AwaitsFilter, Answers, NextPart
  <2>3. /\ k \in Nat \ {0} /\ IsStack(next) /\ Len(next) = k /\ next[k] = r
        /\ \A j \in 1 .. k - 1 : next[j] = f.got[j]
    BY <1>1, <1>3, Lengthened
  <2>4. ASSUME NEW i \in 1 .. k
        PROVE  next[i] # Missing /\ next[i] = FilterIn(tab, Parts[f.type][i])
    <3>1. CASE i = k BY <2>2, <2>3, <3>1
    <3>2. CASE i # k
      <4>1. i \in 1 .. Len(f.got) /\ i \in 1 .. k - 1 BY <2>1, <2>3, <2>4, <3>2
      <4> QED BY <1>1, <2>3, <4>1 DEF GotSound
    <3> QED BY <3>1, <3>2
  <2> QED BY <2>1, <2>3, <2>4 DEF IsStack
<1> QED BY <1>2, <1>3

LEMMA FilterFieldsOwned == ASSUME IInv, NEW p \in Callers, FilterFields(p) PROVE IInv'
<1> PICK f : f = Top(p) OBVIOUS
<1> PICK t : t = f.type OBVIOUS
<1> PICK next : next = IF f.pc = "info" THEN f.got ELSE Append(f.got, ret[p]) OBVIOUS
<1>1. /\ Busy(p) /\ f.cache = "filter" /\ f.pc \in {"info", "field"} /\ t \in Types
      /\ FrameSound(table, f) /\ Told(table, f, ret[p])
  <2>1. \E pc \in {"info", "field"} : At(p, {"filter"}, pc) BY DEF FilterFields
  <2> PICK pc \in {"info", "field"} : At(p, {"filter"}, pc) BY <2>1
  <2>2. /\ Busy(p) /\ f.cache \in {"filter"} /\ f.pc = pc /\ FrameSound(table, f)
        /\ Told(table, f, ret[p])
        /\ f.cache # "zone" => f.type \in Types
    BY AtFrame
  <2> QED BY <2>2
<1>2. CASE ret[p] = Failed
  <2>1. Return(p, Failed) BY <1>2 DEF FilterFields
  <2> QED BY <1>1, <2>1, FailedAnswers, Returning
<1>3. CASE ret[p] # Failed
  <2>1. /\ next \in Seq(Range(next)) /\ Len(next) \in Nat /\ Len(next) <= Len(Parts[t])
        /\ \A i \in 1 .. Len(next) : next[i] # Missing /\ next[i] = FilterIn(table, Parts[t][i])
    <3> PICK r : r = ret[p] OBVIOUS
    <3>1. (f.pc = "info" /\ next = f.got) \/ (f.pc = "field" /\ next = Append(f.got, r))
      BY <1>1
    <3>2. FrameSound(table, f) /\ f.cache = "filter" /\ Told(table, f, r) /\ r # Failed
      BY <1>1, <1>3
    <3>3. /\ next \in Seq(Range(next)) /\ Len(next) \in Nat /\ Len(next) <= Len(Parts[f.type])
          /\ \A i \in 1 .. Len(next) :
               next[i] # Missing /\ next[i] = FilterIn(table, Parts[f.type][i])
      BY ONLY <3>1, <3>2, OnePartMore
    <3> QED BY <3>3
  <2>2. IsStruct(t) /\ Kind[t] # "badtag"
    <3>1. CASE f.pc = "field" BY <1>1, <3>1 DEF FrameSound
    <3>2. CASE f.pc = "info"
      <4>1. table["info"][t] # Missing
        BY <1>1, <1>3, <3>2 DEF Told, AwaitsInfo, Answers
      <4>2. Fits(table, "info", t, table["info"][t]) BY <1>1, <4>1 DEF IInv, Whole, Caches
      <4> QED BY <1>1, <3>2, <4>2 DEF Fits, FrameSound
    <3> QED BY <1>1, <3>1, <3>2
  <2>3. CASE Len(next) < Len(Parts[t])
    <3> PICK u : u = Parts[t][Len(next) + 1] OBVIOUS
    <3> PICK g : g = [f EXCEPT !.pc = "field", !.got = next] OBVIOUS
    <3> PICK h : h = Frame("filter", u) OBVIOUS
    <3>1. Call(p, g, h) BY <1>3, <2>3 DEF FilterFields
    <3>2. /\ g.cache = f.cache /\ g.type = t /\ g.pc = "field" /\ g.got = next /\ g.todo = f.todo
          /\ DOMAIN g = DOMAIN f
      BY <1>1 DEF FrameSound
    <3>3. GotSound(table, g) BY <2>1, <3>2 DEF GotSound
    <3>4. FrameSound(table, g) BY <1>1, <2>2, <2>3, <3>2, <3>3 DEF FrameSound
    <3>5. u \in Types BY <1>1, <2>1, <2>3, PartsTyped
    <3>6. FrameSound(table, h) /\ h.cache = "filter" /\ h.type = u
          /\ ~ AwaitsInfo(h) /\ ~ AwaitsFilter(h)
      BY <3>5, NewFilter
    <3>7. Continues(f, g) /\ Serves(g, h)
      BY <3>2, <3>6 DEF Continues, Serves, AwaitsInfo, NextPart
    <3> QED BY <1>1, <3>1, <3>4, <3>6, <3>7, Calling
  <2>4. CASE ~ Len(next) < Len(Parts[t])
    <3> PICK v : v = [by |-> Me(p), children |-> next] OBVIOUS
    <3>1. Publish(p, v) /\ v # Missing /\ v.children = next
      BY <1>3, <2>4 DEF FilterFields, Missing
    <3>2. DOMAIN Parts[t] = 1 .. Len(next) BY <1>1, <2>1, <2>4, PartsTyped
    <3>3. next = [i \in 1 .. Len(next) |-> next[i]]
      BY <2>1, LenProperties
    <3>4. next = [i \in DOMAIN Parts[t] |-> FilterIn(table, Parts[t][i])]
      BY <2>1, <3>2, <3>3
    <3>5. \A i \in DOMAIN Parts[t] : FilterIn(table, Parts[t][i]) # Missing
      BY <2>1, <3>2
    <3>6. Fits(table, f.cache, t, v) BY <1>1, <2>2, <3>1, <3>4, <3>5 DEF Fits
    <3>7. f.cache \in Caches BY <1>1 DEF Caches
    <3> QED BY <1>1, <3>1, <3>6, <3>7, Publishing
  <2> QED BY <2>3, <2>4
<1> QED BY <1>2, <1>3

LEMMA BeginOwned ==
  ASSUME IInv, NEW p \in Callers, NEW op \in {"unmarshal", "marshal"}, NEW root \in Roots,
         Begin(p, op, root)
  PROVE  IInv'
<1> PICK g : g = [Frame(op, root) EXCEPT !.pc = "begin"] OBVIOUS
<1> PICK r : r = ret[p] OBVIOUS
<1>1. root \in Types BY TypesAssumption
<1>2. /\ g.cache = op /\ g.type = root /\ g.pc \in {"load", "begin"} /\ g.todo = << >> /\ g.got = << >>
      /\ DOMAIN g = {"cache", "type", "pc", "todo", "seen", "got"}
  BY DEF Frame
<1>3. root \in IF op = "zone" THEN {Offset} ELSE Types BY <1>1
<1>4. FrameSound(table, g) /\ ~ AwaitsInfo(g) /\ ~ AwaitsFilter(g)
  BY <1>2, <1>3, FreshFrame
<1>5. Chained(table, <<g>>, r) BY <1>4, OneFrame
<1>6. /\ stack' = [stack EXCEPT ![p] = <<g>>] /\ ret' = ret /\ UNCHANGED <<table, handed>>
      /\ DOMAIN stack = Callers /\ DOMAIN ret = Callers
  BY DEF Begin, IInv, Chains
<1>7. /\ DOMAIN stack' = Callers /\ DOMAIN ret' = Callers
      /\ \A q \in Callers : q # p => stack'[q] = stack[q] /\ ret'[q] = ret[q]
      /\ Chained(table', stack'[p], ret'[p])
  BY <1>5, <1>6
<1> QED BY <1>6, <1>7, TableKept, OthersKeep

LEMMA EndOwned == ASSUME IInv, NEW p \in Callers, NEW outcome, End(p, outcome) PROVE IInv'
<1> PICK r : r = ret[p] OBVIOUS
<1>1. /\ stack' = [stack EXCEPT ![p] = << >>] /\ ret' = ret /\ UNCHANGED <<table, handed>>
      /\ DOMAIN stack = Callers /\ DOMAIN ret = Callers
  BY DEF End, IInv, Chains
<1>2. Chained(table, << >>, r) BY NoFrames
<1>3. /\ DOMAIN stack' = Callers /\ DOMAIN ret' = Callers
      /\ \A q \in Callers : q # p => stack'[q] = stack[q] /\ ret'[q] = ret[q]
      /\ Chained(table', stack'[p], ret'[p])
  BY <1>1, <1>2
<1> QED BY <1>1, <1>3, TableKept, OthersKeep

\* A call asks for an entry.
LEMMA AskOwned ==
  ASSUME IInv, NEW p \in Callers, Busy(p), NEW f, f = Top(p), f.cache \in {"unmarshal", "marshal"},
         NEW pc, NEW c \in Caches \cup {"recycle"},
         NEW t \in IF c = "zone" THEN {Offset} ELSE Types, c = "eligible" => IsStruct(t),
         Call(p, [f EXCEPT !.pc = pc], Frame(c, t))
  PROVE  IInv'
<1> PICK g : g = [f EXCEPT !.pc = pc] OBVIOUS
<1> PICK h : h = Frame(c, t) OBVIOUS
<1>1. FrameSound(table, f) BY TopSound
<1>2. /\ g.cache = f.cache /\ g.type = f.type /\ g.got = f.got /\ g.todo = f.todo
      /\ DOMAIN g = DOMAIN f
  BY <1>1 DEF FrameSound
<1>3. FrameSound(table, g) BY <1>1, <1>2 DEF FrameSound
<1>4. FrameSound(table, h) /\ ~ AwaitsInfo(h) /\ ~ AwaitsFilter(h) BY NewFrame
<1>5. Continues(f, g) /\ Serves(g, h)
  BY <1>2 DEF Continues, Serves, AwaitsInfo, AwaitsFilter
<1> QED BY <1>3, <1>4, <1>5, Calling

LEMMA UnmarshalOwned == ASSUME IInv, NEW p \in Callers, Unmarshal(p) PROVE IInv'
<1> PICK f : f = Top(p) OBVIOUS
<1>1. Busy(p) /\ f.cache = "unmarshal" /\ f.type \in Types
  <2>1. \E pc : At(p, {"unmarshal"}, pc) BY DEF Unmarshal
  <2>2. Busy(p) /\ f.cache \in {"unmarshal"} /\ FrameSound(table, f) BY <2>1, AtFrame
  <2> QED BY <2>2 DEF FrameSound
<1>2. \/ \E outcome : End(p, outcome)
      \/ \E pc, c \in {"eligible", "filter", "direct", "recycle"} :
           /\ Call(p, [f EXCEPT !.pc = pc], Frame(c, f.type))
           /\ c = "eligible" => IsStruct(f.type)
      \/ \E pc : Call(p, [f EXCEPT !.pc = pc], Frame("zone", Offset))
  BY DEF Unmarshal
<1>3. ASSUME NEW pc, NEW c \in {"eligible", "filter", "direct", "recycle"},
             Call(p, [f EXCEPT !.pc = pc], Frame(c, f.type)), c = "eligible" => IsStruct(f.type)
      PROVE  IInv'
  <2>1. c \in Caches \cup {"recycle"} /\ f.type \in IF c = "zone" THEN {Offset} ELSE Types BY <1>1 DEF Caches
  <2> QED BY <1>1, <1>3, <2>1, AskOwned
<1>4. ASSUME NEW pc, Call(p, [f EXCEPT !.pc = pc], Frame("zone", Offset)) PROVE IInv'
  <2>1. "zone" \in Caches /\ Offset \in IF "zone" = "zone" THEN {Offset} ELSE Types BY DEF Caches
  <2> QED BY <1>1, <1>4, <2>1, AskOwned
<1> QED BY <1>2, <1>3, <1>4, EndOwned

LEMMA MarshalOwned == ASSUME IInv, NEW p \in Callers, Marshal(p) PROVE IInv'
<1> PICK f : f = Top(p) OBVIOUS
<1>1. Busy(p) /\ f.cache = "marshal" /\ f.type \in Types
  <2>1. \E pc : At(p, {"marshal"}, pc) BY DEF Marshal
  <2>2. Busy(p) /\ f.cache \in {"marshal"} /\ FrameSound(table, f) BY <2>1, AtFrame
  <2> QED BY <2>2 DEF FrameSound
<1>2. \/ \E outcome : End(p, outcome)
      \/ \E pc, c \in {"special", "info"} : Call(p, [f EXCEPT !.pc = pc], Frame(c, f.type))
  BY DEF Marshal
<1>3. ASSUME NEW pc, NEW c \in {"special", "info"},
             Call(p, [f EXCEPT !.pc = pc], Frame(c, f.type))
      PROVE  IInv'
  <2>1. c \in Caches /\ f.type \in IF c = "zone" THEN {Offset} ELSE Types BY <1>1 DEF Caches
  <2> QED BY <1>1, <1>3, <2>1, AskOwned
<1> QED BY <1>2, <1>3, EndOwned

LEMMA InitSound == Init => IInv
<1> SUFFICES ASSUME Init PROVE IInv
  OBVIOUS
<1>1. IsTable(table) /\ \A c \in Caches, t \in Keys : table[c][t] = Missing
  BY DEF Init, IsTable, Keys
<1>2. Whole(table) BY <1>1 DEF Whole, Keys
<1>3. Chains
  <2>1. ASSUME NEW p \in Callers PROVE Chained(table, stack[p], ret[p])
    BY NoFrames DEF Init
  <2> QED BY <2>1 DEF Init, Chains
<1> QED BY <1>1, <1>2, <1>3 DEF IInv, HandedStored, Init

LEMMA Inductive == ASSUME IInv, [Next]_vars PROVE IInv'
<1>1. CASE UNCHANGED vars BY <1>1 DEF vars, IInv, HandedStored, Chains
<1>2. ASSUME NEW p \in Callers, Step(p) PROVE IInv'
  BY <1>2, HitOwned, LookupOwned, DirectOwned, EligibleOwned, FilterMissOwned, FilterElementOwned,
     FilterFieldsOwned, RecycleOwned, SpecialOwned, UnmarshalOwned, MarshalOwned DEF Step
<1>3. ASSUME NEW p \in Callers, NEW root \in Roots,
             Begin(p, "unmarshal", root) \/ Begin(p, "marshal", root)
      PROVE  IInv'
  BY <1>3, BeginOwned
<1> QED BY <1>1, <1>2, <1>3 DEF Next

LEMMA AlwaysSound == Spec => []IInv
<1>1. Init => IInv BY InitSound
<1>2. IInv /\ [Next]_vars => IInv' BY Inductive
<1> QED BY <1>1, <1>2, PTL DEF Spec
-----------------------------------------------------------------------------
(* What follows from it.                                                   *)

\* However callers race on a type or an offset, all of them are answered the
\* one object that is stored (reflectcache.go:80, unmarshal_direct.go:74, 160,
\* unmarshal.go:160, marshal.go:1243, datetime_parse.go:384).
THEOREM OneObjectEach == Spec => []OneObject
<1>1. IInv => OneObject BY DEF IInv, HandedStored, OneObject, Entry
<1> QED BY <1>1, AlwaysSound, PTL

\* No entry is visible before it is complete.
THEOREM WholeEntries == Spec => []StoredWhole
<1>1. ASSUME IInv PROVE StoredWhole
  <2>1. ASSUME NEW c \in {"info", "filter", "direct", "special"}, NEW t \in Types, table[c][t] # Missing
        PROVE  Fits(table, c, t, table[c][t])
    BY <1>1, <2>1 DEF IInv, Whole, Caches
  <2>2. \A t \in Types : FilterOf(t) = FilterIn(table, t) BY DEF FilterOf, FilterIn, Entry
  <2>3. ASSUME NEW t \in Types, Entry("filter", t) # Missing
        PROVE  Entry("filter", t).children = [i \in DOMAIN Parts[t] |-> FilterOf(Parts[t][i])]
    <3>1. Entry("filter", t).children = [i \in DOMAIN Parts[t] |-> FilterIn(table, Parts[t][i])]
      BY <2>1, <2>3 DEF Fits, Entry
    <3>2. \A i \in DOMAIN Parts[t] : FilterOf(Parts[t][i]) = FilterIn(table, Parts[t][i])
      BY <2>2, PartsTyped
    <3> QED BY <3>1, <3>2
  <2>4. ASSUME NEW t \in Types, Entry("direct", t) # Missing
        PROVE  Entry("direct", t).info = Entry("info", t) /\ Entry("info", t) # Missing
    BY <2>1, <2>4 DEF Fits, Entry
  <2>5. ASSUME NEW t \in Types, Entry("special", t) # Missing
        PROVE  Entry("special", t) = [kind |-> Kind[t]]
    BY <2>1, <2>5 DEF Fits, Entry
  <2>6. ASSUME NEW t \in Types, Kind[t] = "badtag"
        PROVE  /\ Entry("info", t) = Missing /\ Entry("direct", t) = Missing
               /\ Entry("filter", t) = Missing
    BY <2>1, <2>4, <2>6 DEF Fits, Entry
  <2> QED BY <2>3, <2>4, <2>5, <2>6 DEF StoredWhole
<1> QED BY <1>1, AlwaysSound, PTL

LEMMA PublishGrows ==
  ASSUME IInv, NEW p \in Callers, NEW v, Publish(p, v)
  PROVE  Grows(table, table')
<1>1. IsTable(table) BY DEF IInv
<1>2. Stored(table, table', Top(p).cache, Top(p).type, v) BY DEF Publish, Stored
<1> QED BY <1>1, <1>2 DEF Stored, Grows, IsTable

\* Each step stores one entry at most.
LEMMA StoresOne ==
  ASSUME NEW p \in Callers, Step(p)
  PROVE  UNCHANGED table \/ \E v : Publish(p, v)
<1>1. CASE \/ Hit(p) \/ LookupBuild(p) \/ DirectInfo(p) \/ EligibleMiss(p)
           \/ FilterMiss(p) \/ FilterElement(p) \/ SpecialMiss(p) \/ ZoneMiss(p)
  BY <1>1 DEF Hit, LookupBuild, DirectInfo, EligibleMiss, FilterMiss, FilterElement, SpecialMiss,
              ZoneMiss, Become, Call, Overflow, Return
<1>2. CASE WalkVisit(p) \/ Recycle(p)
  BY <1>2 DEF WalkVisit, Recycle, Become, Call, Overflow, Return
<1>3. CASE WalkFields(p) \/ WalkReturn(p) BY <1>3 DEF WalkFields, WalkReturn, Become, Return
<1>4. CASE LookupStore(p) \/ DirectStore(p) \/ EligibleStore(p) \/ SpecialStore(p) \/ ZoneStore(p)
  BY <1>4 DEF LookupStore, DirectStore, EligibleStore, SpecialStore, ZoneStore, Return
<1>5. CASE FilterFields(p) BY <1>5 DEF FilterFields, Return, Call, Overflow
<1>6. CASE Unmarshal(p) \/ Marshal(p) BY <1>6 DEF Unmarshal, Marshal, Call, Overflow, End
<1> QED BY <1>1, <1>2, <1>3, <1>4, <1>5, <1>6 DEF Step

\* What is stored is never replaced, whoever holds it.
THEOREM NeverReplaced == Spec => Published
<1>1. ASSUME IInv, [Next]_vars PROVE Grows(table, table')
  <2>1. CASE UNCHANGED table BY <2>1 DEF Grows
  <2>2. ASSUME NEW p \in Callers, Step(p) PROVE Grows(table, table')
    BY <1>1, <2>1, <2>2, StoresOne, PublishGrows
  <2>3. ASSUME NEW p \in Callers, NEW root \in Roots,
               Begin(p, "unmarshal", root) \/ Begin(p, "marshal", root)
        PROVE  Grows(table, table')
    BY <2>1, <2>3 DEF Begin
  <2>4. CASE UNCHANGED vars BY <2>1, <2>4 DEF vars
  <2> QED BY <1>1, <2>2, <2>3, <2>4 DEF Next
<1>2. ASSUME IInv, [Next]_vars
      PROVE  \A c \in Caches, t \in Types \cup {Offset} :
               Entry(c, t) # Missing => Entry(c, t)' = Entry(c, t)
  BY <1>1, <1>2 DEF Grows, Keys, Entry
<1>3. IInv /\ [Next]_vars =>
        [\A c \in Caches, t \in Types \cup {Offset} :
           Entry(c, t) # Missing => Entry(c, t)' = Entry(c, t)]_vars
  BY <1>2
<1> QED BY <1>3, AlwaysSound, PTL DEF Spec, Published

-----------------------------------------------------------------------------
(* What the answers mean: a refused tag, or a map, below a type.            *)

Refused(t) == \E x \in Reach[t] : Kind[x] = "badtag"

\* What a frame for this entry answers, an error included.
Says(cache, type, r) ==
  /\ cache \in {"info", "direct"} => (r = Failed <=> Kind[type] = "badtag")
  /\ cache = "filter" => (r = Failed <=> Refused(type))
  /\ cache = "eligible" => \/ r = Failed /\ Refused(type)
                           \/ r = Verdict(TRUE) /\ ~ HoldsMap(type) /\ ~ Refused(type)
                           \/ r = Verdict(FALSE) /\ HoldsMap(type)

\* The parts that calls of the walk have yet to look into, the struct whose
\* metadata it waits for, and the structs it has entered before.
Left(T)    == UNION {Range(l.left) : l \in Range(T)}
Current(f) == IF f.pc = "fields" THEN {Last(f.todo).of} ELSE {}
Entered(f) == f.seen \ Current(f)
Ahead(f)   == Left(f.todo) \cup Current(f)

\* The walk of f is through with D: what D refers to is in it or still ahead.
Through(f, D) ==
  /\ \A x \in D : Kind[x] \notin {"map", "badtag"}
  /\ {x \in D : IsStruct(x)} = Entered(f)
  /\ f.type \in D \cup Ahead(f)
  /\ \A x \in D : Composed(x) => Range(Parts[x]) \subseteq D \cup Ahead(f)

\* Where the innermost frame and those below it are with their types.
Sound(f) ==
  /\ f.cache = "eligible" /\ f.pc \in {"walk", "fields"} =>
       /\ Left(f.todo) \subseteq Reach[f.type]
       /\ \E D \in SUBSET Types : Through(f, D)
       /\ f.pc = "fields" =>
            LET t == Last(f.todo).of
            IN  Last(f.todo) = Level(t) /\ IsStruct(t) /\ t \in f.seen /\ t \in Reach[f.type]
  /\ f.cache = "eligible" /\ f.pc = "found" => HoldsMap(f.type)
  /\ f.cache = "unmarshal" =>
       /\ f.pc \in {"eligible", "direct", "direct zoned"} => IsStruct(f.type)
       /\ f.pc \in {"direct", "direct zoned"} => ~ HoldsMap(f.type) /\ ~ Refused(f.type)
       /\ f.pc \in {"filter", "filter zoned", "recycle"} => ~ IsStruct(f.type) \/ HoldsMap(f.type)
       /\ f.pc \in {"filter zoned", "recycle"} => ~ Refused(f.type)
  /\ f.cache = "marshal" /\ f.pc = "info" => IsStruct(f.type)

\* The entry a frame waits for.
Wants(f) ==
  CASE f.cache \in {"direct", "filter", "marshal"} /\ f.pc = "info" -> <<"info", f.type>>
    [] f.cache = "eligible" /\ f.pc = "fields"  -> <<"info", Last(f.todo).of>>
    [] f.cache = "filter" /\ f.pc \in {"field", "element"} -> <<"filter", NextPart(f)>>
    [] f.cache = "unmarshal" /\ f.pc \in {"eligible", "direct", "filter"} -> <<f.pc, f.type>>
    [] OTHER -> <<"special", f.type>>

\* g is to answer what f waits for.
Provides(f, g) == LET w == Wants(f) IN
  w[1] # "special" => /\ g.cache = w[1]
                      /\ g.type = w[2]

Informed(s, r) ==
  \A i \in 1 .. Len(s) : /\ Sound(s[i])
                         /\ i < Len(s) => Provides(s[i], s[i + 1])
                         /\ i = Len(s) => Says(Wants(s[i])[1], Wants(s[i])[2], r)

\* How a call ends is determined by its type.
Expected(op, t) ==
  IF op = "marshal" THEN IF Kind[t] = "struct" THEN "text" ELSE "error"
  ELSE IF Refused(t) THEN "error"
  ELSE IF IsStruct(t) /\ ~ HoldsMap(t) THEN "direct" ELSE "filter"

EntriesRight  == \A c \in Caches, t \in Types : table[c][t] # Missing =>
                   /\ table[c][t] # Failed
                   /\ c # "filter" => Says(c, t, table[c][t])
CallersRight  == \A p \in Callers : Informed(stack[p], ret[p])
OutcomesRight == \A x \in outcomes :
                   \E op \in {"marshal", "unmarshal"}, t \in Types : x = <<op, t, Expected(op, t)>>

RightInv == EntriesRight /\ CallersRight /\ OutcomesRight
-----------------------------------------------------------------------------
(* What a type leads to.                                                   *)

ClosedBy(next, s) == \A y \in s : next[y] \subseteq s

LEMMA ReachedItself ==
  ASSUME NEW next, NEW t \in Types
  PROVE  t \in Reached(next)[t] /\ Reached(next)[t] \in SUBSET Types
BY DEF Reached

LEMMA ReachedLeast ==
  ASSUME NEW next, NEW t \in Types, NEW D \in SUBSET Types, t \in D, ClosedBy(next, D)
  PROVE  Reached(next)[t] \subseteq D
BY DEF Reached, ClosedBy

LEMMA ReachedClosed ==
  ASSUME NEW next \in [Types -> SUBSET Types], NEW t \in Types
  PROVE  ClosedBy(next, Reached(next)[t])
<1>1. ASSUME NEW x \in Reached(next)[t], NEW y \in next[x] PROVE y \in Reached(next)[t]
  <2>1. x \in Types BY ReachedItself
  <2>2. y \in Types BY <2>1
  <2>3. ASSUME NEW s \in SUBSET Types, t \in s, \A z \in s : next[z] \subseteq s PROVE y \in s
    <3>1. x \in s BY <2>3, ReachedLeast DEF ClosedBy
    <3> QED BY <2>3, <3>1
  <2> QED BY <2>2, <2>3 DEF Reached
<1> QED BY <1>1 DEF ClosedBy

LEMMA ReachedFurther ==
  ASSUME NEW next \in [Types -> SUBSET Types], NEW t \in Types, NEW x \in Reached(next)[t]
  PROVE  x \in Types /\ Reached(next)[x] \subseteq Reached(next)[t]
<1>1. x \in Types /\ Reached(next)[t] \in SUBSET Types BY ReachedItself
<1> QED BY <1>1, ReachedClosed, ReachedLeast

LEMMA StepsTyped ==
  /\ ByPart \in [Types -> SUBSET Types]
  /\ ByExported \in [Types -> SUBSET Types]
  /\ ByElement \in [Types -> SUBSET Types]
<1>1. ASSUME NEW q \in Seq(Types) PROVE Range(q) \in SUBSET Types
  <2>1. DOMAIN q = 1 .. Len(q) /\ \A i \in 1 .. Len(q) : q[i] \in Types
    BY LenProperties, ElementOfSeq
  <2> QED BY <2>1 DEF Range
<1>2. \A t \in Types : Parts[t] \in Seq(Types) /\ Exported[t] \in Seq(Types)
  BY TypesAssumption
<1> QED BY <1>1, <1>2 DEF ByPart, ByExported, ByElement

\* Sets that the parts of their types are in.
Closed(s) == \A t \in s : Composed(t) => Range(Parts[t]) \subseteq s

LEMMA ClosedByPart ==
  ASSUME NEW D \in SUBSET Types
  PROVE  Closed(D) <=> ClosedBy(ByPart, D)
BY DEF Closed, ClosedBy, ByPart

LEMMA ReachesItself ==
  ASSUME NEW t \in Types
  PROVE  t \in Reach[t] /\ Reach[t] \in SUBSET Types
BY ReachedItself DEF Reach

LEMMA ReachLeast ==
  ASSUME NEW t \in Types, NEW D \in SUBSET Types, t \in D, Closed(D)
  PROVE  Reach[t] \subseteq D
BY ReachedLeast, ClosedByPart DEF Reach

LEMMA ReachClosed == ASSUME NEW t \in Types PROVE Closed(Reach[t])
BY ReachesItself, ReachedClosed, StepsTyped, ClosedByPart DEF Reach

LEMMA ReachFurther ==
  ASSUME NEW t \in Types, NEW x \in Reach[t]
  PROVE  x \in Types /\ Reach[x] \subseteq Reach[t]
BY ReachedFurther, StepsTyped DEF Reach

\* A refused tag in a part is one in the type.
LEMMA RefusedPart ==
  ASSUME NEW t \in Types, Composed(t), NEW x \in Range(Parts[t]), Refused(x)
  PROVE  Refused(t)
<1>1. x \in Reach[t] BY ReachesItself, ReachClosed DEF Closed
<1> QED BY <1>1, ReachFurther DEF Refused

\* A type that is neither a list nor a struct leads to itself only.
LEMMA RefusedAlone ==
  ASSUME NEW t \in Types, ~ IsStruct(t), Kind[t] # "list"
  PROVE  ~ Refused(t)
<1>1. Closed({t}) BY DEF Closed, Composed
<1>2. Reach[t] \subseteq {t} BY <1>1, ReachLeast
<1> QED BY <1>2 DEF Refused, IsStruct

LEMMA RefusedList ==
  ASSUME NEW t \in Types, Kind[t] = "list"
  PROVE  Head(Parts[t]) \in Types /\ (Refused(t) <=> Refused(Head(Parts[t])))
<1> PICK x : x = Head(Parts[t]) OBVIOUS
<1>1. x \in Types BY InsideTyped
<1>2. Range(Parts[t]) = {x}
  <2>1. DOMAIN Parts[t] = {1} /\ x = Parts[t][1] BY PartsTyped, TypesAssumption
  <2> QED BY <2>1 DEF Range
<1>3. Refused(x) => Refused(t) BY <1>2, RefusedPart DEF Composed
<1>4. Refused(t) => Refused(x)
  <2>1. {t} \cup Reach[x] \in SUBSET Types BY <1>1, ReachesItself
  <2>2. Closed({t} \cup Reach[x]) BY <1>1, <1>2, ReachClosed, ReachesItself DEF Closed, Composed
  <2>3. Reach[t] \subseteq {t} \cup Reach[x] BY <2>1, <2>2, ReachLeast
  <2> QED BY <2>3 DEF Refused
<1> QED BY <1>1, <1>3, <1>4

\* A type whose filter is stored leads to no refused tag.
LEMMA FilterClean ==
  ASSUME NEW tab, Whole(tab), NEW t \in Types, FilterIn(tab, t) # Missing
  PROVE  ~ Refused(t)
<1> DEFINE D == {x \in Types : FilterIn(tab, x) # Missing}
<1>1. ASSUME NEW x \in D, IsStruct(x)
      PROVE  /\ Kind[x] # "badtag"
             /\ \A i \in DOMAIN Parts[x] : FilterIn(tab, Parts[x][i]) # Missing
  <2>1. x \in Types /\ Inside[x] = x BY <1>1, InsideTyped DEF IsStruct
  <2>2. tab["filter"][x] # Missing BY <1>1, <2>1 DEF FilterIn
  <2>3. Fits(tab, "filter", x, tab["filter"][x]) BY <2>1, <2>2 DEF Whole, Caches
  <2> QED BY <2>3 DEF Fits
<1>2. ASSUME NEW x \in D, Kind[x] = "list", NEW y \in Range(Parts[x]) PROVE y \in D
  <2>1. DOMAIN Parts[x] = {1} BY <1>2, PartsTyped, TypesAssumption
  <2>2. y = Head(Parts[x]) BY <2>1 DEF Range
  <2>3. y \in Types /\ Inside[x] = Inside[y] BY <1>2, <2>2, InsideTyped
  <2> QED BY <2>3 DEF FilterIn
<1>3. ASSUME NEW x \in D, IsStruct(x), NEW y \in Range(Parts[x]) PROVE y \in D
  <2>1. PICK i \in DOMAIN Parts[x] : y = Parts[x][i] BY DEF Range
  <2>2. y \in Types BY <2>1, PartsTyped
  <2> QED BY <1>1, <1>3, <2>1, <2>2
<1>4. Closed(D) BY <1>2, <1>3 DEF Closed, Composed
<1>5. Reach[t] \subseteq D BY <1>4, ReachLeast
<1> QED BY <1>1, <1>5 DEF Refused, IsStruct
-----------------------------------------------------------------------------
(* The frames of a caller, once more.                                      *)

LEMMA ProvidesAs ==
  ASSUME NEW e, NEW f, NEW g, Provides(e, f), Continues(f, g) PROVE Provides(e, g)
<1> PICK w : w = Wants(e) OBVIOUS
<1> QED BY DEF Provides, Continues

LEMMA ProvidesAnswer ==
  ASSUME NEW e, NEW f, Provides(e, f), NEW v, Says(f.cache, f.type, v)
  PROVE  Says(Wants(e)[1], Wants(e)[2], v)
<1> PICK w : w = Wants(e) OBVIOUS
<1> QED BY DEF Provides, Says

LEMMA InformedTop ==
  ASSUME NEW s, IsStack(s), s # << >>, NEW r, Informed(s, r), NEW f, f = Last(s)
  PROVE  Sound(f) /\ Says(Wants(f)[1], Wants(f)[2], r)
<1> PICK k : k = Len(s) OBVIOUS
<1>1. k \in Nat \ {0} /\ f = s[k] BY Shortened
<1> QED BY <1>1 DEF Informed

LEMMA InformedGoesOn ==
  ASSUME NEW s, IsStack(s), s # << >>, NEW r, Informed(s, r), NEW f, f = Last(s),
         NEW g, Sound(g), Continues(f, g), NEW r2, Says(Wants(g)[1], Wants(g)[2], r2)
  PROVE  Informed(Append(Front(s), g), r2)
<1> PICK k : k = Len(s) OBVIOUS
<1> PICK t : t = Append(Front(s), g) OBVIOUS
<1>1. /\ k \in Nat \ {0} /\ f = s[k] /\ IsStack(Front(s)) /\ Len(Front(s)) = k - 1
      /\ \A j \in 1 .. k - 1 : Front(s)[j] = s[j]
  BY Shortened
<1>2. Len(t) = k /\ t[k] = g /\ \A j \in 1 .. k - 1 : t[j] = s[j]
  <2>1. k = Len(Front(s)) + 1 BY <1>1
  <2>2. Len(t) = k /\ t[k] = g /\ \A j \in 1 .. k - 1 : t[j] = Front(s)[j]
    BY <1>1, <2>1, Lengthened
  <2> QED BY <1>1, <2>2
<1>3. ASSUME NEW i \in 1 .. k
      PROVE  /\ Sound(t[i])
             /\ i < k => Provides(t[i], t[i + 1])
             /\ i = k => Says(Wants(t[i])[1], Wants(t[i])[2], r2)
  <2>1. CASE i = k BY <1>1, <1>2, <2>1
  <2>2. CASE i = k - 1
    <3>1. t[i] = s[i] /\ t[i + 1] = g /\ Sound(s[i]) /\ Provides(s[i], f)
      BY <1>1, <1>2, <1>3, <2>2 DEF Informed
    <3>2. Provides(s[i], g) BY <3>1, ProvidesAs
    <3> QED BY <1>1, <2>2, <3>1, <3>2
  <2>3. CASE i < k - 1
    <3>1. t[i] = s[i] /\ t[i + 1] = s[i + 1] BY <1>1, <1>2, <1>3, <2>3
    <3> QED BY <1>1, <2>3, <3>1 DEF Informed
  <2> QED BY <1>1, <2>1, <2>2, <2>3
<1> QED BY <1>2, <1>3 DEF Informed

LEMMA InformsCaller ==
  ASSUME NEW s, IsStack(s), s # << >>, NEW r, Informed(s, r), NEW f, f = Last(s),
         NEW v, Says(f.cache, f.type, v)
  PROVE  Informed(Front(s), v)
<1> PICK k : k = Len(s) OBVIOUS
<1>1. /\ k \in Nat \ {0} /\ f = s[k] /\ Len(Front(s)) = k - 1
      /\ \A j \in 1 .. k - 1 : Front(s)[j] = s[j]
  BY Shortened
<1>2. ASSUME NEW i \in 1 .. k - 1
      PROVE  /\ Sound(s[i])
             /\ i < k - 1 => Provides(s[i], s[i + 1])
             /\ i = k - 1 => Says(Wants(s[i])[1], Wants(s[i])[2], v)
  <2>1. Sound(s[i]) /\ Provides(s[i], s[i + 1]) BY <1>1 DEF Informed
  <2>2. ASSUME i = k - 1 PROVE Says(Wants(s[i])[1], Wants(s[i])[2], v)
    <3>1. Provides(s[i], f) BY <1>1, <2>1, <2>2
    <3> QED BY <3>1, ProvidesAnswer
  <2> QED BY <2>1, <2>2
<1>3. \A i \in 1 .. k - 1 : Front(s)[i] = s[i] /\ (i < k - 1 => Front(s)[i + 1] = s[i + 1])
  BY <1>1
<1> QED BY <1>1, <1>2, <1>3 DEF Informed

\* A frame that waits for nothing takes any answer.
LEMMA Indifferent ==
  ASSUME NEW f, Wants(f)[1] = "special", NEW r PROVE Says(Wants(f)[1], Wants(f)[2], r)
BY DEF Says

LEMMA InformedCall ==
  ASSUME NEW s, IsStack(s), s # << >>, NEW r, Informed(s, r), NEW f, f = Last(s),
         NEW g, Sound(g), Continues(f, g),
         NEW h, Sound(h), Provides(g, h), Wants(h)[1] = "special"
  PROVE  Informed(Append(Append(Front(s), g), h), r)
<1> PICK k : k = Len(s) OBVIOUS
<1> PICK t : t = Append(Front(s), g) OBVIOUS
<1> PICK u : u = Append(t, h) OBVIOUS
<1>1. /\ k \in Nat \ {0} /\ f = s[k] /\ IsStack(Front(s)) /\ Len(Front(s)) = k - 1
      /\ \A j \in 1 .. k - 1 : Front(s)[j] = s[j]
  BY Shortened
<1>2. IsStack(t) /\ Len(t) = k /\ t[k] = g /\ \A j \in 1 .. k - 1 : t[j] = s[j]
  <2>1. k = Len(Front(s)) + 1 BY <1>1
  <2>2. /\ IsStack(t) /\ Len(t) = k /\ t[k] = g
        /\ \A j \in 1 .. k - 1 : t[j] = Front(s)[j]
    BY <1>1, <2>1, Lengthened
  <2> QED BY <1>1, <2>2
<1>3. Len(u) = k + 1 /\ u[k + 1] = h /\ \A j \in 1 .. k : u[j] = t[j]
  <2> PICK m : m = Len(t) + 1 OBVIOUS
  <2>1. Len(u) = m /\ u[m] = h /\ \A j \in 1 .. m - 1 : u[j] = t[j] BY <1>2, Lengthened
  <2>2. m = k + 1 /\ m - 1 = k BY <1>1, <1>2
  <2> QED BY <2>1, <2>2
<1>4. Says(Wants(h)[1], Wants(h)[2], r) BY Indifferent
<1>5. ASSUME NEW i \in 1 .. k + 1
      PROVE  /\ Sound(u[i])
             /\ i < k + 1 => Provides(u[i], u[i + 1])
             /\ i = k + 1 => Says(Wants(u[i])[1], Wants(u[i])[2], r)
  <2>1. CASE i = k + 1 BY <1>1, <1>3, <1>4, <2>1
  <2>2. CASE i = k BY <1>1, <1>2, <1>3, <2>2
  <2>3. CASE i = k - 1
    <3>1. u[i] = s[i] /\ u[i + 1] = g /\ Sound(s[i]) /\ Provides(s[i], f)
      BY <1>1, <1>2, <1>3, <1>5, <2>3 DEF Informed
    <3>2. Provides(s[i], g) BY <3>1, ProvidesAs
    <3> QED BY <1>1, <2>3, <3>1, <3>2
  <2>4. CASE i < k - 1
    <3>1. u[i] = s[i] /\ u[i + 1] = s[i + 1] BY <1>1, <1>2, <1>3, <1>5, <2>4
    <3> QED BY <1>1, <2>4, <3>1 DEF Informed
  <2> QED BY <1>1, <2>1, <2>2, <2>3, <2>4
<1> QED BY <1>3, <1>5 DEF Informed
-----------------------------------------------------------------------------
(* What a step does to it.                                                 *)

LEMMA OneInformed ==
  ASSUME CallersRight, NEW p \in Callers, DOMAIN stack = Callers, DOMAIN ret = Callers,
         \A q \in Callers : q # p => stack'[q] = stack[q] /\ ret'[q] = ret[q],
         Informed(stack'[p], ret'[p])
  PROVE  CallersRight'
BY DEF CallersRight

LEMMA RightTop ==
  ASSUME IInv, RightInv, NEW p \in Callers, Busy(p), NEW f, f = Top(p)
  PROVE  /\ Sound(f) /\ Says(Wants(f)[1], Wants(f)[2], ret[p])
         /\ Informed(stack[p], ret[p]) /\ IsStack(stack[p])
         /\ stack[p] # << >> /\ f = Last(stack[p])
         /\ DOMAIN stack = Callers /\ DOMAIN ret = Callers
<1>1. /\ IsStack(stack[p]) /\ stack[p] # << >> /\ f = Last(stack[p])
      /\ DOMAIN stack = Callers /\ DOMAIN ret = Callers
  BY TopSound DEF Chained
<1>2. Informed(stack[p], ret[p]) BY DEF RightInv, CallersRight
<1> QED BY <1>1, <1>2, InformedTop

LEMMA SameEntries ==
  ASSUME RightInv, UNCHANGED <<table, outcomes>> PROVE EntriesRight' /\ OutcomesRight'
BY DEF RightInv, EntriesRight, OutcomesRight

LEMMA BecomingRight ==
  ASSUME IInv, RightInv, NEW p \in Callers, Busy(p), NEW f, f = Top(p), NEW g, Sound(g),
         Continues(f, g), Wants(g)[1] = "special", Become(p, g)
  PROVE  RightInv'
<1>1. /\ Informed(stack[p], ret[p]) /\ IsStack(stack[p])
      /\ stack[p] # << >> /\ f = Last(stack[p])
      /\ DOMAIN stack = Callers /\ DOMAIN ret = Callers
  BY RightTop
<1>2. /\ stack' = [stack EXCEPT ![p] = Append(Front(@), g)] /\ ret' = ret
      /\ UNCHANGED <<table, outcomes>>
  BY DEF Become
<1>3. Says(Wants(g)[1], Wants(g)[2], ret[p]) BY Indifferent
<1>4. Informed(Append(Front(stack[p]), g), ret[p]) BY <1>1, <1>3, InformedGoesOn
<1>5. CallersRight' BY <1>1, <1>2, <1>4, OneInformed DEF RightInv
<1> QED BY <1>2, <1>5, SameEntries DEF RightInv

LEMMA CallingRight ==
  ASSUME IInv, RightInv, NEW p \in Callers, Busy(p), NEW f, f = Top(p), NEW g, Sound(g),
         Continues(f, g), NEW h, Sound(h), Provides(g, h), Wants(h)[1] = "special",
         Call(p, g, h)
  PROVE  RightInv'
<1>1. /\ Informed(stack[p], ret[p]) /\ IsStack(stack[p])
      /\ stack[p] # << >> /\ f = Last(stack[p])
      /\ DOMAIN stack = Callers /\ DOMAIN ret = Callers
  BY RightTop
<1>2. ret' = ret /\ UNCHANGED <<table, outcomes>> BY DEF Call, Overflow
<1>3. CASE stack' = stack
  BY <1>1, <1>2, <1>3, OneInformed, SameEntries DEF RightInv
<1>4. CASE stack' = [stack EXCEPT ![p] = Append(Append(Front(@), g), h)]
  <2>1. Informed(Append(Append(Front(stack[p]), g), h), ret[p]) BY <1>1, InformedCall
  <2>2. CallersRight' BY <1>1, <1>2, <1>4, <2>1, OneInformed DEF RightInv
  <2> QED BY <1>2, <2>2, SameEntries DEF RightInv
<1> QED BY <1>3, <1>4 DEF Call, Overflow

LEMMA OverflowRight == ASSUME RightInv, Overflow PROVE RightInv'
BY DEF Overflow, RightInv, EntriesRight, CallersRight, OutcomesRight

LEMMA LeavingRight ==
  ASSUME IInv, RightInv, EntriesRight', NEW p \in Callers, Busy(p), NEW f, f = Top(p),
         NEW v, Leave(p, v), Says(f.cache, f.type, v)
  PROVE  RightInv'
<1>1. /\ Informed(stack[p], ret[p]) /\ IsStack(stack[p])
      /\ stack[p] # << >> /\ f = Last(stack[p])
      /\ DOMAIN stack = Callers /\ DOMAIN ret = Callers
  BY RightTop
<1>2. /\ stack' = [stack EXCEPT ![p] = Front(@)] /\ ret' = [ret EXCEPT ![p] = v]
      /\ outcomes' = outcomes
  BY DEF Leave
<1>3. Informed(Front(stack[p]), v) BY <1>1, InformsCaller
<1>4. CallersRight' BY <1>1, <1>2, <1>3, OneInformed DEF RightInv
<1>5. OutcomesRight' BY <1>2 DEF RightInv, OutcomesRight
<1> QED BY <1>4, <1>5 DEF RightInv

LEMMA ReturningRight ==
  ASSUME IInv, RightInv, NEW p \in Callers, Busy(p), NEW f, f = Top(p), NEW v, Return(p, v),
         Says(f.cache, f.type, v)
  PROVE  RightInv'
<1>1. Leave(p, v) /\ table' = table BY DEF Return
<1>2. EntriesRight' BY <1>1 DEF RightInv, EntriesRight
<1> QED BY <1>1, <1>2, LeavingRight

\* A stored entry answers rightly.
LEMMA EntrySays ==
  ASSUME NEW tab, IsTable(tab), Whole(tab), NEW f, f.cache \in Caches,
         f.type \in IF f.cache = "zone" THEN {Offset} ELSE Types,
         NEW v, v = tab[f.cache][f.type], v # Missing,
         f.type \in Types => v # Failed /\ (f.cache # "filter" => Says(f.cache, f.type, v))
  PROVE  Says(f.cache, f.type, v)
<1>1. CASE f.cache = "zone" BY <1>1 DEF Says
<1>2. CASE f.cache = "filter"
  <2>1. f.type \in Types /\ v # Failed BY <1>2
  <2>2. Fits(tab, f.cache, f.type, v) BY <2>1 DEF Whole
  <2>3. IsStruct(f.type) BY <1>2, <2>2 DEF Fits
  <2>4. Inside[f.type] = f.type BY <2>1, <2>3, InsideTyped DEF IsStruct
  <2>5. FilterIn(tab, f.type) # Missing BY <1>2, <2>3, <2>4 DEF FilterIn
  <2>6. ~ Refused(f.type) BY <2>1, <2>5, FilterClean
  <2> QED BY <1>2, <2>1, <2>6 DEF Says
<1>3. CASE f.cache \notin {"zone", "filter"} BY <1>3
<1> QED BY <1>1, <1>2, <1>3

LEMMA AnsweringRight ==
  ASSUME IInv, IInv', RightInv, EntriesRight', NEW p \in Callers, Busy(p), NEW f, f = Top(p),
         f.cache \in Caches, NEW v, Answer(p, v), v = table'[f.cache][f.type], v # Missing
  PROVE  RightInv'
<1>1. f.type \in IF f.cache = "zone" THEN {Offset} ELSE Types
  <2>1. FrameSound(table, f) BY TopSound
  <2> QED BY <2>1 DEF FrameSound
<1>2. IsTable(table') /\ Whole(table') BY DEF IInv
<1>3. f.type \in Types => v # Failed /\ (f.cache # "filter" => Says(f.cache, f.type, v))
  BY DEF EntriesRight
<1>4. Says(f.cache, f.type, v) BY <1>1, <1>2, <1>3, EntrySays
<1>5. Leave(p, v) BY DEF Answer
<1> QED BY <1>4, <1>5, LeavingRight

LEMMA PublishingRight ==
  ASSUME IInv, IInv', RightInv, NEW p \in Callers, Busy(p), NEW f, f = Top(p), f.cache \in Caches,
         NEW v, v # Missing, v # Failed,
         f.type \in Types /\ f.cache # "filter" => Says(f.cache, f.type, v), Publish(p, v)
  PROVE  RightInv'
<1>1. f.type \in Keys
  <2>1. FrameSound(table, f) BY TopSound
  <2> QED BY <2>1 DEF FrameSound, Keys
<1>2. Stored(table, table', f.cache, f.type, v) /\ Answer(p, table'[f.cache][f.type])
  BY DEF Publish, Stored
<1>3. IsTable(table) BY DEF IInv
<1>4. /\ table'[f.cache][f.type] = IF table[f.cache][f.type] = Missing THEN v
                                   ELSE table[f.cache][f.type]
      /\ \A d \in Caches, x \in Keys : d # f.cache \/ x # f.type => table'[d][x] = table[d][x]
  BY <1>1, <1>2, <1>3 DEF Stored, IsTable
<1>5. EntriesRight'
  <2>1. ASSUME NEW d \in Caches, NEW x \in Types, table'[d][x] # Missing
        PROVE  table'[d][x] # Failed /\ (d # "filter" => Says(d, x, table'[d][x]))
    <3>1. x \in Keys BY DEF Keys
    <3>2. CASE table'[d][x] = table[d][x]
      BY <2>1, <3>2 DEF RightInv, EntriesRight
    <3>3. CASE d = f.cache /\ x = f.type /\ table'[d][x] = v BY <3>3
    <3> QED BY <1>4, <3>1, <3>2, <3>3
  <2> QED BY <2>1 DEF EntriesRight
<1>6. table'[f.cache][f.type] # Missing BY <1>4
<1> PICK w : w = table'[f.cache][f.type] OBVIOUS
<1> QED BY <1>2, <1>5, <1>6, AnsweringRight
-----------------------------------------------------------------------------
(* Each operation preserves it.                                            *)

LEMMA FreshSound ==
  ASSUME NEW c \in Caches \cup {"recycle"}, NEW t, NEW f, f = Frame(c, t)
  PROVE  Sound(f) /\ Wants(f)[1] = "special" /\ f.cache = c /\ f.type = t
<1>1. f.cache = c /\ f.type = t /\ f.pc = "load" BY DEF Frame
<1>2. c # "unmarshal" /\ c # "marshal" BY DEF Caches
<1>3. Sound(f) BY <1>1, <1>2 DEF Sound
<1>4. Wants(f) = <<"special", f.type>> BY <1>1, <1>2 DEF Wants
<1> QED BY <1>1, <1>3, <1>4

LEMMA HitRight == ASSUME IInv, IInv', RightInv, NEW p \in Callers, Hit(p) PROVE RightInv'
<1> PICK f : f = Top(p) OBVIOUS
<1> PICK v : v = table[f.cache][f.type] OBVIOUS
<1>1. Busy(p) /\ f.cache \in Caches BY AtFrame DEF Hit
<1>2. v # Missing /\ Answer(p, v) /\ table' = table BY DEF Hit, Entry
<1>3. EntriesRight' BY <1>2 DEF RightInv, EntriesRight
<1>4. v = table'[f.cache][f.type] BY <1>2
<1> QED BY <1>1, <1>2, <1>3, <1>4, AnsweringRight

LEMMA LookupRight ==
  ASSUME IInv, IInv', RightInv, NEW p \in Callers, LookupBuild(p) \/ LookupStore(p)
  PROVE  RightInv'
<1> PICK f : f = Top(p) OBVIOUS
<1>1. CASE LookupBuild(p)
  <2>1. Busy(p) /\ f.cache = "info" BY <1>1, AtFrame DEF LookupBuild, Miss
  <2>2. CASE Kind[f.type] = "badtag"
    <3>1. Return(p, Failed) BY <1>1, <2>2 DEF LookupBuild
    <3>2. Says(f.cache, f.type, Failed) BY <2>1, <2>2 DEF Says
    <3> QED BY <2>1, <3>1, <3>2, ReturningRight
  <2>3. CASE Kind[f.type] # "badtag"
    <3> PICK g : g = [f EXCEPT !.pc = "store"] OBVIOUS
    <3>1. Become(p, g) BY <1>1, <2>3 DEF LookupBuild
    <3>2. g.cache = "info" /\ g.type = f.type
      <4>1. FrameSound(table, f) BY <2>1, TopSound
      <4> QED BY <2>1, <4>1 DEF FrameSound
    <3>3. Sound(g) /\ Continues(f, g) BY <2>1, <3>2 DEF Sound, Continues
    <3>4. Wants(g) = <<"special", g.type>> BY <3>2 DEF Wants
    <3> QED BY <2>1, <3>1, <3>3, <3>4, BecomingRight
  <2> QED BY <2>2, <2>3
<1>2. CASE LookupStore(p)
  <2> PICK v : v = [by |-> Me(p)] OBVIOUS
  <2>1. Busy(p) /\ f.cache = "info" /\ f.pc = "store" /\ FrameSound(table, f) /\ Publish(p, v)
    BY <1>2, AtFrame DEF LookupStore
  <2>2. v # Missing /\ v # Failed BY DEF Missing, Failed
  <2>3. Says(f.cache, f.type, v) BY <2>1, <2>2 DEF FrameSound, Says
  <2>4. f.cache \in Caches BY <2>1 DEF Caches
  <2> QED BY <2>1, <2>2, <2>3, <2>4, PublishingRight
<1> QED BY <1>1, <1>2

LEMMA DirectRight ==
  ASSUME IInv, IInv', RightInv, NEW p \in Callers, DirectInfo(p) \/ DirectStore(p)
  PROVE  RightInv'
<1> PICK f : f = Top(p) OBVIOUS
<1>1. CASE DirectInfo(p)
  <2> PICK g : g = [f EXCEPT !.pc = "info"] OBVIOUS
  <2> PICK h : h = Frame("info", f.type) OBVIOUS
  <2>1. Busy(p) /\ f.cache = "direct" /\ FrameSound(table, f)
    BY <1>1, AtFrame DEF DirectInfo, Miss
  <2>2. Call(p, g, h) BY <1>1 DEF DirectInfo
  <2>3. g.cache = "direct" /\ g.type = f.type /\ g.pc = "info" BY <2>1 DEF FrameSound
  <2>4. Sound(g) /\ Continues(f, g) BY <2>1, <2>3 DEF Sound, Continues
  <2>5. Sound(h) /\ Wants(h)[1] = "special" /\ h.cache = "info" /\ h.type = f.type
    BY FreshSound DEF Caches
  <2>6. Wants(g) = <<"info", g.type>> BY <2>3 DEF Wants
  <2>7. Provides(g, h) BY <2>3, <2>5, <2>6 DEF Provides
  <2> QED BY <2>1, <2>2, <2>4, <2>5, <2>7, CallingRight
<1>2. CASE DirectStore(p)
  <2>1. Busy(p) /\ f.cache = "direct" /\ f.pc = "info" BY <1>2, AtFrame DEF DirectStore
  <2>2. ret[p] = Failed <=> Kind[f.type] = "badtag"
    <3>1. Wants(f) = <<"info", f.type>> BY <2>1 DEF Wants
    <3>2. Says(Wants(f)[1], Wants(f)[2], ret[p]) BY <2>1, RightTop
    <3> QED BY <3>1, <3>2 DEF Says
  <2>3. CASE ret[p] = Failed
    <3>1. Return(p, Failed) BY <1>2, <2>3 DEF DirectStore
    <3>2. Says(f.cache, f.type, Failed) BY <2>1, <2>2, <2>3 DEF Says
    <3> QED BY <2>1, <3>1, <3>2, ReturningRight
  <2>4. CASE ret[p] # Failed
    <3> PICK v : v = [by |-> Me(p), info |-> ret[p]] OBVIOUS
    <3>1. Publish(p, v) BY <1>2, <2>4 DEF DirectStore
    <3>2. v # Missing /\ v # Failed BY DEF Missing, Failed
    <3>3. Says(f.cache, f.type, v) BY <2>1, <2>2, <2>4, <3>2 DEF Says
    <3>4. f.cache \in Caches BY <2>1 DEF Caches
    <3> QED BY <2>1, <3>1, <3>2, <3>3, <3>4, PublishingRight
  <2> QED BY <2>3, <2>4
<1> QED BY <1>1, <1>2

LEMMA SpecialRight ==
  ASSUME IInv, IInv', RightInv, NEW p \in Callers,
         SpecialMiss(p) \/ SpecialStore(p) \/ ZoneMiss(p) \/ ZoneStore(p)
  PROVE  RightInv'
<1> PICK f : f = Top(p) OBVIOUS
<1>1. Busy(p) /\ f.cache \in {"special", "zone"} /\ FrameSound(table, f) /\ f.cache \in Caches
  BY AtFrame DEF SpecialMiss, SpecialStore, ZoneMiss, ZoneStore, Miss, Caches
<1>2. CASE SpecialMiss(p) \/ ZoneMiss(p)
  <2> PICK g : g = [f EXCEPT !.pc = "store"] OBVIOUS
  <2>1. Become(p, g) BY <1>2 DEF SpecialMiss, ZoneMiss
  <2>2. g.cache = f.cache /\ g.type = f.type BY <1>1 DEF FrameSound
  <2>3. Sound(g) /\ Continues(f, g) BY <1>1, <2>2 DEF Sound, Continues
  <2>4. Wants(g) = <<"special", g.type>> BY <1>1, <2>2 DEF Wants
  <2> QED BY <1>1, <2>1, <2>3, <2>4, BecomingRight
<1>3. CASE SpecialStore(p) \/ ZoneStore(p)
  <2>1. PICK v : Publish(p, v) /\ (v = [kind |-> Kind[f.type]] \/ v = [by |-> Me(p)])
    BY <1>3 DEF SpecialStore, ZoneStore
  <2>2. v # Missing /\ v # Failed
    <3>1. CASE v = [kind |-> Kind[f.type]] BY <3>1 DEF Missing, Failed
    <3>2. CASE v = [by |-> Me(p)] BY <3>2 DEF Missing, Failed
    <3> QED BY <2>1, <3>1, <3>2
  <2>3. Says(f.cache, f.type, v) BY <1>1 DEF Says
  <2> QED BY <1>1, <2>1, <2>2, <2>3, PublishingRight
<1> QED BY <1>2, <1>3

LEMMA FilterMissRight ==
  ASSUME IInv, IInv', RightInv, NEW p \in Callers, FilterMiss(p) PROVE RightInv'
<1> PICK f : f = Top(p) OBVIOUS
<1> PICK t : t = f.type OBVIOUS
<1>1. Busy(p) /\ f.cache = "filter" /\ f.pc = "load" /\ t \in Types /\ FrameSound(table, f)
  BY AtFrame DEF FilterMiss, Miss
<1>2. CASE Kind[t] = "list"
  <2> PICK u : u = Head(Parts[t]) OBVIOUS
  <2> PICK g : g = [f EXCEPT !.pc = "element"] OBVIOUS
  <2> PICK h : h = Frame("filter", u) OBVIOUS
  <2>1. Call(p, g, h)
    <3>1. ~ IsStruct(t) BY <1>2 DEF IsStruct
    <3> QED BY <1>2, <3>1 DEF FilterMiss
  <2>2. g.cache = "filter" /\ g.type = t /\ g.pc = "element" /\ g.got = f.got
    BY <1>1 DEF FrameSound
  <2>3. Sound(g) /\ Continues(f, g) BY <1>1, <2>2 DEF Sound, Continues
  <2>4. Sound(h) /\ Wants(h)[1] = "special" /\ h.cache = "filter" /\ h.type = u
    BY FreshSound DEF Caches
  <2>5. NextPart(g) = u
    <3>1. f.got = << >> BY <1>1 DEF FrameSound
    <3>2. Len(g.got) = 0 BY <2>2, <3>1, EmptySeq
    <3>3. NextPart(g) = Parts[t][1] BY <2>2, <3>2 DEF NextPart
    <3>4. Parts[t] \in Seq(Types) BY <1>1, TypesAssumption
    <3>5. u = Parts[t][1] BY <3>4
    <3> QED BY <3>3, <3>5
  <2>6. Wants(g) = <<"filter", u>> BY <2>2, <2>5 DEF Wants
  <2>7. Provides(g, h) BY <2>4, <2>6 DEF Provides
  <2> QED BY <1>1, <2>1, <2>3, <2>4, <2>7, CallingRight
<1>3. CASE IsStruct(t)
  <2> PICK g : g = [f EXCEPT !.pc = "info"] OBVIOUS
  <2> PICK h : h = Frame("info", t) OBVIOUS
  <2>1. Call(p, g, h)
    <3>1. Kind[t] # "list" BY <1>3 DEF IsStruct
    <3> QED BY <1>3, <3>1 DEF FilterMiss
  <2>2. g.cache = "filter" /\ g.type = t /\ g.pc = "info" BY <1>1 DEF FrameSound
  <2>3. Sound(g) /\ Continues(f, g) BY <1>1, <2>2 DEF Sound, Continues
  <2>4. Sound(h) /\ Wants(h)[1] = "special" /\ h.cache = "info" /\ h.type = t
    BY FreshSound DEF Caches
  <2>5. Wants(g) = <<"info", g.type>> BY <2>2 DEF Wants
  <2>6. Provides(g, h) BY <2>2, <2>4, <2>5 DEF Provides
  <2> QED BY <1>1, <2>1, <2>3, <2>4, <2>6, CallingRight
<1>4. CASE Kind[t] # "list" /\ ~ IsStruct(t)
  <2>1. Return(p, NoFilter) BY <1>4 DEF FilterMiss
  <2>2. NoFilter # Failed BY DEF NoFilter, Failed
  <2>3. Says(f.cache, f.type, NoFilter) BY <1>1, <1>4, <2>2, RefusedAlone DEF Says
  <2> QED BY <1>1, <2>1, <2>3, ReturningRight
<1> QED BY <1>2, <1>3, <1>4

LEMMA FilterElementRight ==
  ASSUME IInv, RightInv, NEW p \in Callers, FilterElement(p) PROVE RightInv'
<1> PICK f : f = Top(p) OBVIOUS
<1> PICK r : r = ret[p] OBVIOUS
<1>1. Busy(p) /\ f.cache = "filter" /\ f.pc = "element" /\ FrameSound(table, f)
  BY AtFrame DEF FilterElement
<1>2. Return(p, r) BY DEF FilterElement
<1>3. Wants(f) = <<"filter", NextPart(f)>> BY <1>1 DEF Wants
<1>4. r = Failed <=> Refused(NextPart(f))
  <2>1. Says(Wants(f)[1], Wants(f)[2], r) BY <1>1, RightTop
  <2> QED BY <1>3, <2>1 DEF Says
<1>5. Refused(NextPart(f)) <=> Refused(f.type) BY <1>1, ElementPart, RefusedList
<1>6. Says(f.cache, f.type, r) BY <1>1, <1>4, <1>5 DEF Says
<1> QED BY <1>1, <1>2, <1>6, ReturningRight

LEMMA RecycleRight ==
  ASSUME IInv, RightInv, NEW p \in Callers, Recycle(p) PROVE RightInv'
<1> PICK f : f = Top(p) OBVIOUS
<1>1. Busy(p) /\ f.cache = "recycle" /\ FrameSound(table, f)
  <2>1. PICK pc \in {"load", "field"} : At(p, {"recycle"}, pc) BY DEF Recycle
  <2>2. Busy(p) /\ f.cache \in {"recycle"} /\ FrameSound(table, f) BY <2>1, AtFrame
  <2> QED BY <2>2
<1>2. ASSUME NEW v, Return(p, v) PROVE RightInv'
  <2>1. Says(f.cache, f.type, v) BY <1>1 DEF Says
  <2> QED BY <1>1, <1>2, <2>1, ReturningRight
<1>3. ASSUME NEW got, NEW u, Call(p, [f EXCEPT !.pc = "field", !.got = got], Frame("recycle", u))
      PROVE  RightInv'
  <2> PICK g : g = [f EXCEPT !.pc = "field", !.got = got] OBVIOUS
  <2> PICK h : h = Frame("recycle", u) OBVIOUS
  <2>1. g.cache = "recycle" /\ g.type = f.type BY <1>1 DEF FrameSound
  <2>2. Sound(g) /\ Continues(f, g) BY <1>1, <2>1 DEF Sound, Continues
  <2>3. Sound(h) /\ Wants(h)[1] = "special" BY FreshSound
  <2>4. Wants(g)[1] = "special" BY <2>1 DEF Wants
  <2>5. Provides(g, h) BY <2>4 DEF Provides
  <2> QED BY <1>1, <1>3, <2>2, <2>3, <2>5, CallingRight
<1> QED BY <1>2, <1>3 DEF Recycle

LEMMA FilterFieldsRight ==
  ASSUME IInv, IInv', RightInv, NEW p \in Callers, FilterFields(p) PROVE RightInv'
<1> PICK f : f = Top(p) OBVIOUS
<1> PICK t : t = f.type OBVIOUS
<1> PICK next : next = IF f.pc = "info" THEN f.got ELSE Append(f.got, ret[p]) OBVIOUS
<1>1. /\ Busy(p) /\ f.cache = "filter" /\ f.pc \in {"info", "field"} /\ t \in Types
      /\ FrameSound(table, f) /\ IsStruct(t)
  <2>1. PICK pc \in {"info", "field"} : At(p, {"filter"}, pc) BY DEF FilterFields
  <2>2. /\ Busy(p) /\ f.cache \in {"filter"} /\ f.pc = pc /\ FrameSound(table, f)
        /\ f.cache # "zone" => f.type \in Types
    BY <2>1, AtFrame
  <2> QED BY <2>2 DEF FrameSound
<1>2. CASE ret[p] = Failed
  <2>1. Return(p, Failed) BY <1>2 DEF FilterFields
  <2>2. Says(Wants(f)[1], Wants(f)[2], Failed) BY <1>1, <1>2, RightTop
  <2>3. Refused(t)
    <3>1. CASE f.pc = "info"
      <4>1. Wants(f) = <<"info", t>> BY <1>1, <3>1 DEF Wants
      <4>2. Kind[t] = "badtag" BY <2>2, <4>1 DEF Says
      <4> QED BY <1>1, <4>2, ReachesItself DEF Refused
    <3>2. CASE f.pc = "field"
      <4>1. Wants(f) = <<"filter", NextPart(f)>> BY <1>1, <3>2 DEF Wants
      <4>2. Refused(NextPart(f)) BY <2>2, <4>1 DEF Says
      <4>3. Len(f.got) < Len(Parts[t]) BY <1>1, <3>2 DEF FrameSound
      <4>4. NextPart(f) \in Range(Parts[t]) BY <1>1, <4>3, NextPartTyped
      <4> QED BY <1>1, <4>2, <4>4, RefusedPart DEF Composed
    <3> QED BY <1>1, <3>1, <3>2
  <2>4. Says(f.cache, f.type, Failed) BY <1>1, <2>3 DEF Says
  <2> QED BY <1>1, <2>1, <2>4, ReturningRight
<1>3. CASE ret[p] # Failed /\ Len(next) < Len(Parts[t])
  <2> PICK g : g = [f EXCEPT !.pc = "field", !.got = next] OBVIOUS
  <2> PICK u : u = Parts[t][Len(next) + 1] OBVIOUS
  <2> PICK h : h = Frame("filter", u) OBVIOUS
  <2>1. Call(p, g, h) BY <1>3 DEF FilterFields
  <2>2. g.cache = "filter" /\ g.type = t /\ g.pc = "field" /\ g.got = next
    BY <1>1 DEF FrameSound
  <2>3. Sound(g) /\ Continues(f, g) BY <1>1, <2>2 DEF Sound, Continues
  <2>4. Sound(h) /\ Wants(h)[1] = "special" /\ h.cache = "filter" /\ h.type = u
    BY FreshSound DEF Caches
  <2>5. Wants(g) = <<"filter", u>> BY <2>2 DEF Wants, NextPart
  <2>6. Provides(g, h) BY <2>4, <2>5 DEF Provides
  <2> QED BY <1>1, <2>1, <2>3, <2>4, <2>6, CallingRight
<1>4. CASE ret[p] # Failed /\ ~ Len(next) < Len(Parts[t])
  <2> PICK v : v = [by |-> Me(p), children |-> next] OBVIOUS
  <2>1. Publish(p, v) BY <1>4 DEF FilterFields
  <2>2. v # Missing /\ v # Failed BY DEF Missing, Failed
  <2>3. f.cache \in Caches BY <1>1 DEF Caches
  <2> QED BY <1>1, <2>1, <2>2, <2>3, PublishingRight
<1> QED BY <1>2, <1>3, <1>4

\* What is left to look into when a call is added, or taken away.
LEMMA LeftAdded ==
  ASSUME NEW T \in Seq(Levels), NEW l \in Levels
  PROVE  Append(T, l) \in Seq(Levels) /\ Left(Append(T, l)) = Left(T) \cup Range(l.left)
<1> PICK k : k = Len(T) OBVIOUS
<1> PICK U : U = Append(T, l) OBVIOUS
<1>1. k \in Nat /\ DOMAIN T = 1 .. k BY LenProperties
<1>2. U \in Seq(Levels) /\ Len(U) = k + 1 /\ U[k + 1] = l /\ \A i \in 1 .. k : U[i] = T[i]
  BY AppendProperties
<1>3. DOMAIN U = 1 .. k + 1 BY <1>2, LenProperties
<1>4. Range(U) = Range(T) \cup {l}
  <2>1. ASSUME NEW i \in 1 .. k + 1 PROVE U[i] \in Range(T) \cup {l}
    <3>1. CASE i = k + 1 BY <1>2, <3>1
    <3>2. CASE i # k + 1
      <4>1. i \in 1 .. k BY <1>1, <3>2
      <4> QED BY <1>1, <1>2, <4>1 DEF Range
    <3> QED BY <3>1, <3>2
  <2>2. ASSUME NEW i \in 1 .. k PROVE T[i] \in Range(U)
    <3>1. i \in 1 .. k + 1 BY <1>1
    <3> QED BY <1>2, <1>3, <3>1 DEF Range
  <2>3. l \in Range(U)
    <3>1. k + 1 \in 1 .. k + 1 BY <1>1
    <3> QED BY <1>2, <1>3, <3>1 DEF Range
  <2> QED BY <1>1, <1>3, <2>1, <2>2, <2>3 DEF Range
<1> QED BY <1>2, <1>4 DEF Left

LEMMA LeftLast ==
  ASSUME NEW T \in Seq(Levels), T # << >>
  PROVE  /\ Last(T) \in Levels /\ Front(T) \in Seq(Levels)
         /\ Left(T) = Left(Front(T)) \cup Range(Last(T).left)
<1>1. Last(T) \in Levels /\ Front(T) \in Seq(Levels) BY LevelTyped
<1>2. T = Append(Front(T), Last(T))
  <2> PICK k : k = Len(T) OBVIOUS
  <2> PICK U : U = Append(Front(T), Last(T)) OBVIOUS
  <2>1. /\ k \in Nat \ {0} /\ Len(Front(T)) = k - 1 /\ Last(T) = T[k]
        /\ \A j \in 1 .. k - 1 : Front(T)[j] = T[j]
    BY StackOf, Shortened
  <2>2. /\ U \in Seq(Levels) /\ Len(U) = (k - 1) + 1 /\ U[(k - 1) + 1] = Last(T)
        /\ \A i \in 1 .. k - 1 : U[i] = Front(T)[i]
    BY <1>1, <2>1, AppendProperties
  <2>3. (k - 1) + 1 = k BY <2>1
  <2>4. \A i \in 1 .. k : U[i] = T[i]
    <3>1. \A i \in 1 .. k : i = k \/ i \in 1 .. k - 1 BY <2>1
    <3> QED BY <2>1, <2>2, <2>3, <3>1
  <2> QED BY <2>2, <2>3, <2>4, SeqEqual
<1>3. Left(Append(Front(T), Last(T))) = Left(Front(T)) \cup Range(Last(T).left)
  BY <1>1, LeftAdded
<1> QED BY <1>1, <1>2, <1>3

\* What a visit leaves: all but the part when it is done with it, and the
\* part's own when it goes into it.
Visited(T, t, rest, into) ==
  /\ Left(T) = {t} \cup Left(rest)
  /\ Left(into) = Left(rest) \cup Range(Parts[t]) /\ Last(into) = Level(t)

LEMMA LeftVisited ==
  ASSUME NEW T \in Seq(Levels), T # << >>, NEW l, l = Last(T), l.left # << >>,
         NEW t, t = Head(l.left),
         NEW rest, rest = Append(Front(T), [l EXCEPT !.left = Tail(@)]),
         NEW into, into = Append(rest, Level(t))
  PROVE  Visited(T, t, rest, into)
<1> PICK m : m = [l EXCEPT !.left = Tail(@)] OBVIOUS
<1>1. /\ l \in Levels /\ t \in Types /\ Tail(l.left) \in Seq(Types)
      /\ Level(t) \in Levels /\ rest \in Seq(Levels) /\ into \in Seq(Levels)
  BY VisitTyped
<1>2. m \in Levels /\ m.left = Tail(l.left) BY <1>1 DEF Levels
<1>3. Range(l.left) = {t} \cup Range(m.left)
  <2> PICK q : q = l.left OBVIOUS
  <2> PICK k : k = Len(q) OBVIOUS
  <2> PICK u : u = Tail(q) OBVIOUS
  <2>1. q \in Seq(Types) /\ q # << >> BY <1>1 DEF Levels
  <2>2. /\ k \in Nat \ {0} /\ DOMAIN q = 1 .. k /\ t = q[1] /\ u \in Seq(Types)
        /\ Len(u) = k - 1 /\ \A i \in 1 .. k - 1 : u[i] = q[i + 1]
    BY <2>1, EmptySeq, LenProperties, HeadTailProperties
  <2>3. DOMAIN u = 1 .. k - 1 BY <2>2, LenProperties
  <2>4. ASSUME NEW i \in 1 .. k PROVE q[i] \in {q[1]} \cup Range(u)
    <3>1. CASE i = 1 BY <3>1
    <3>2. CASE i # 1
      <4>1. i - 1 \in 1 .. k - 1 /\ (i - 1) + 1 = i BY <2>2, <3>2
      <4>2. u[i - 1] = q[i] BY <2>2, <4>1
      <4> QED BY <2>3, <4>1, <4>2 DEF Range
    <3> QED BY <3>1, <3>2
  <2>5. ASSUME NEW i \in 1 .. k - 1 PROVE u[i] \in Range(q)
    <3>1. i + 1 \in 1 .. k BY <2>2
    <3> QED BY <2>2, <3>1 DEF Range
  <2>6. q[1] \in Range(q)
    <3>1. 1 \in 1 .. k BY <2>2
    <3> QED BY <2>2, <3>1 DEF Range
  <2>8. \A y \in Range(q) : y \in {q[1]} \cup Range(u) BY <2>2, <2>4 DEF Range
  <2>9. \A y \in Range(u) : y \in Range(q) BY <2>3, <2>5 DEF Range
  <2>7. Range(q) = {q[1]} \cup Range(u) BY <2>6, <2>8, <2>9
  <2> QED BY <1>2, <2>2, <2>7
<1>4. Left(T) = Left(Front(T)) \cup Range(l.left) /\ Front(T) \in Seq(Levels) BY LeftLast
<1>5. Left(rest) = Left(Front(T)) \cup Range(m.left) BY <1>2, <1>4, LeftAdded
<1>6. Left(into) = Left(rest) \cup Range(Level(t).left) BY <1>1, LeftAdded
<1>7. Level(t).left = Parts[t] BY DEF Level
<1>8. Last(into) = Level(t)
  <2> PICK k : k = Len(rest) + 1 OBVIOUS
  <2> PICK x : x = Level(t) OBVIOUS
  <2>1. k \in Nat \ {0} /\ IsStack(Append(rest, x)) /\ Len(Append(rest, x)) = k
        /\ Append(rest, x)[k] = x
    BY <1>1, StackOf, Lengthened
  <2> QED BY <2>1 DEF Last
<1> QED BY <1>3, <1>4, <1>5, <1>6, <1>7, <1>8 DEF Visited

\* The walk goes on behind a type that is no map and no refused struct.
LEMMA ThroughOneMore ==
  ASSUME NEW f, NEW D \in SUBSET Types, Through(f, D),
         NEW t \in Types, Kind[t] \notin {"map", "badtag"},
         NEW g, g.type = f.type, g.pc = "walk", Ahead(f) \subseteq {t} \cup Left(g.todo),
         Composed(t) /\ t \notin D => Range(Parts[t]) \subseteq Left(g.todo),
         g.seen = Entered(f) \cup (IF IsStruct(t) THEN {t} ELSE {})
  PROVE  \E E \in SUBSET Types : Through(g, E)
<1> PICK E : E = D \cup {t} OBVIOUS
<1>1. E \in SUBSET Types OBVIOUS
<1>2. Current(g) = {} /\ Entered(g) = g.seen /\ Ahead(g) = Left(g.todo)
  BY DEF Current, Entered, Ahead
<1>3. \A x \in E : Kind[x] \notin {"map", "badtag"} BY DEF Through
<1>4. {x \in E : IsStruct(x)} = Entered(g)
  <2>1. {x \in D : IsStruct(x)} = Entered(f) BY DEF Through
  <2> QED BY <1>2, <2>1
<1>5. g.type \in E \cup Ahead(g) BY <1>2 DEF Through
<1>6. ASSUME NEW x \in E, Composed(x)
      PROVE  Range(Parts[x]) \subseteq E \cup Ahead(g)
  <2>1. CASE x \in D
    <3>1. Range(Parts[x]) \subseteq D \cup Ahead(f) BY <1>6, <2>1 DEF Through
    <3> QED BY <1>2, <3>1
  <2>2. CASE x \notin D
    <3>1. x = t BY <2>2
    <3> QED BY <1>2, <1>6, <2>2, <3>1
  <2> QED BY <2>1, <2>2
<1>7. Through(g, E) BY <1>3, <1>4, <1>5, <1>6 DEF Through
<1> QED BY <1>1, <1>7

\* A walk that found nothing has been everywhere.
LEMMA ThroughAll ==
  ASSUME NEW f, f.type \in Types, f.todo = << >>, f.pc = "walk", NEW D \in SUBSET Types,
         Through(f, D)
  PROVE  ~ HoldsMap(f.type) /\ ~ Refused(f.type)
<1>1. Ahead(f) = {}
  <2>1. DOMAIN << >> = {} OBVIOUS
  <2>2. Range(<< >>) = {} BY <2>1 DEF Range
  <2> QED BY <2>2 DEF Ahead, Left, Current
<1>2. f.type \in D /\ Closed(D) BY <1>1 DEF Through, Closed
<1>3. Reach[f.type] \subseteq D BY <1>2, ReachLeast
<1> QED BY <1>3 DEF Through, HoldsMap, Refused

LEMMA EligibleRightKept ==
  ASSUME IInv, IInv', RightInv, NEW p \in Callers,
         EligibleMiss(p) \/ WalkVisit(p) \/ WalkFields(p) \/ WalkReturn(p) \/ EligibleStore(p)
  PROVE  RightInv'
<1> PICK f : f = Top(p) OBVIOUS
<1>1. /\ Busy(p) /\ f.cache = "eligible" /\ f.type \in Types /\ FrameSound(table, f)
      /\ f.cache \in Caches /\ IsStruct(f.type) /\ f.todo \in Seq(Levels)
  <2>1. \E pc : At(p, {"eligible"}, pc)
    BY DEF EligibleMiss, WalkVisit, WalkFields, WalkReturn, EligibleStore, Miss, Walking
  <2>2. Busy(p) /\ f.cache \in {"eligible"} /\ f.type \in Types /\ FrameSound(table, f)
    BY <2>1, AtFrame
  <2> QED BY <2>2 DEF Caches, FrameSound
<1>2. Sound(f) /\ Says(Wants(f)[1], Wants(f)[2], ret[p]) BY <1>1, RightTop
\* The walk goes on as g, without a call.
<1>3. ASSUME NEW g, Become(p, g), g.cache = "eligible", g.type = f.type, g.pc \in {"walk", "found"},
             g.pc = "walk" => /\ Left(g.todo) \subseteq Reach[g.type]
                              /\ \E D \in SUBSET Types : Through(g, D),
             g.pc = "found" => HoldsMap(g.type)
      PROVE  RightInv'
  <2>1. Sound(g) BY <1>3 DEF Sound
  <2>2. Continues(f, g) BY <1>1, <1>3 DEF Continues
  <2>3. Wants(g) = <<"special", g.type>> BY <1>3 DEF Wants
  <2> QED BY <1>1, <1>3, <2>1, <2>2, <2>3, BecomingRight
\* It goes on as g and looks t up.
<1>4. ASSUME NEW g, NEW t, Call(p, g, Frame("info", t)), g.cache = "eligible", g.type = f.type,
             g.pc = "fields", Left(g.todo) \subseteq Reach[g.type],
             \E D \in SUBSET Types : Through(g, D),
             Last(g.todo) = Level(t), IsStruct(t), t \in g.seen, t \in Reach[g.type]
      PROVE  RightInv'
  <2> PICK h : h = Frame("info", t) OBVIOUS
  <2>1. Last(g.todo).of = t BY <1>4 DEF Level
  <2>2. Sound(g) BY <1>4, <2>1 DEF Sound
  <2>3. Continues(f, g) BY <1>1, <1>4 DEF Continues
  <2>4. Sound(h) /\ Wants(h)[1] = "special" /\ h.cache = "info" /\ h.type = t
    BY FreshSound DEF Caches
  <2>5. Wants(g) = <<"info", t>> BY <1>4, <2>1 DEF Wants
  <2>6. Provides(g, h) BY <2>4, <2>5 DEF Provides
  <2> QED BY <1>1, <1>4, <2>2, <2>3, <2>4, <2>6, CallingRight
<1>5. f.pc = "walk" => Current(f) = {} /\ Entered(f) = f.seen /\ Ahead(f) = Left(f.todo)
  BY DEF Current, Entered, Ahead
<1>6. CASE EligibleMiss(p)
  <2> PICK t : t = f.type OBVIOUS
  <2> PICK T : T = <<Level(t)>> OBVIOUS
  <2> PICK g : g = [f EXCEPT !.pc = "fields", !.seen = {t}, !.todo = T] OBVIOUS
  <2>1. Call(p, g, Frame("info", t)) BY <1>6 DEF EligibleMiss
  <2>2. g.cache = "eligible" /\ g.type = t /\ g.pc = "fields" /\ g.todo = T /\ g.seen = {t}
    BY <1>1 DEF FrameSound
  <2>3. Last(T) = Level(t)
    <3> PICK x : x = Level(t) OBVIOUS
    <3>1. Len(<<x>>) = 1 /\ <<x>>[1] = x OBVIOUS
    <3> QED BY <3>1 DEF Last
  <2>4. Left(T) = Range(Parts[t])
    <3> PICK x : x = Level(t) OBVIOUS
    <3>1. DOMAIN <<x>> = {1} /\ <<x>>[1] = x OBVIOUS
    <3>2. Range(<<x>>) = {x} BY <3>1 DEF Range
    <3>3. x.left = Parts[t] BY DEF Level
    <3> QED BY <3>2, <3>3 DEF Left
  <2>5. t \in Reach[t] /\ Range(Parts[t]) \subseteq Reach[t]
    BY <1>1, ReachesItself, ReachClosed DEF Closed, Composed
  <2>6. Current(g) = {t}
    <3>1. Level(t).of = t BY DEF Level
    <3> QED BY <2>2, <2>3, <3>1 DEF Current
  <2>7. Through(g, {}) BY <2>2, <2>6 DEF Through, Entered, Ahead
  <2>8. \E D \in SUBSET Types : Through(g, D) BY <2>7
  <2> QED BY <1>1, <1>4, <2>1, <2>2, <2>3, <2>4, <2>5, <2>8
<1>7. CASE WalkVisit(p)
  <2> PICK l : l = Last(f.todo) OBVIOUS
  <2> PICK t : t = Head(l.left) OBVIOUS
  <2> PICK rest : rest = Append(Front(f.todo), [l EXCEPT !.left = Tail(@)]) OBVIOUS
  <2> PICK into : into = Append(rest, Level(t)) OBVIOUS
  <2>1. f.todo # << >> /\ l.left # << >> /\ f.pc = "walk"
    BY <1>7 DEF WalkVisit, Walking, At
  <2>2. /\ t \in Types /\ Left(f.todo) = {t} \cup Left(rest)
        /\ Left(into) = Left(rest) \cup Range(Parts[t]) /\ Last(into) = Level(t)
    <3>1. t \in Types BY <1>1, <2>1, VisitTyped
    <3>2. /\ Left(f.todo) = {t} \cup Left(rest)
          /\ Left(into) = Left(rest) \cup Range(Parts[t]) /\ Last(into) = Level(t)
      <4>1. Visited(f.todo, t, rest, into) BY <1>1, <2>1, LeftVisited
      <4> QED BY <4>1 DEF Visited
    <3> QED BY <3>1, <3>2
  <2>3. PICK D \in SUBSET Types : Through(f, D) BY <1>1, <1>2, <2>1 DEF Sound
  <2>4. Left(f.todo) \subseteq Reach[f.type] BY <1>1, <1>2, <2>1 DEF Sound
  <2>5. t \in Reach[f.type] BY <2>2, <2>4
  <2>6. Composed(t) => Range(Parts[t]) \subseteq Reach[f.type]
    BY <1>1, <2>5, ReachClosed DEF Closed
  <2>7. CASE Overflow BY <2>7, OverflowRight
  <2>8. CASE ~ Overflow /\ Kind[t] = "map"
    <3> PICK g : g = [f EXCEPT !.pc = "found"] OBVIOUS
    <3>1. Become(p, g)
      <4>1. ~ IsStruct(t) /\ Kind[t] # "list" BY <2>8 DEF IsStruct
      <4> QED BY <1>7, <2>8, <4>1 DEF WalkVisit
    <3>2. g.cache = "eligible" /\ g.type = f.type /\ g.pc = "found" BY <1>1 DEF FrameSound
    <3>3. HoldsMap(g.type) BY <2>5, <2>8, <3>2 DEF HoldsMap
    <3> QED BY <1>3, <3>1, <3>2, <3>3
  <2>9. CASE ~ Overflow /\ IsStruct(t) /\ t \notin f.seen
    <3> PICK g : g = [f EXCEPT !.pc = "fields", !.seen = @ \cup {t}, !.todo = into] OBVIOUS
    <3>1. Call(p, g, Frame("info", t))
      <4>1. Kind[t] # "map" /\ Kind[t] # "list" BY <2>9 DEF IsStruct
      <4> QED BY <1>7, <2>9, <4>1 DEF WalkVisit
    <3>2. /\ g.cache = "eligible" /\ g.type = f.type /\ g.pc = "fields" /\ g.todo = into
          /\ g.seen = f.seen \cup {t}
      BY <1>1 DEF FrameSound
    <3>3. Current(g) = {t}
      <4>1. Level(t).of = t BY DEF Level
      <4> QED BY <2>2, <3>2, <4>1 DEF Current
    <3>4. Entered(g) = Entered(f) BY <1>5, <2>1, <2>9, <3>2, <3>3 DEF Entered
    <3>5. Ahead(f) \subseteq Ahead(g) BY <1>5, <2>1, <2>2, <3>2, <3>3 DEF Ahead
    <3>6. Through(g, D) BY <2>3, <3>2, <3>4, <3>5 DEF Through
    <3>7. Left(g.todo) \subseteq Reach[g.type]
      BY <2>2, <2>4, <2>6, <2>9, <3>2 DEF Composed
    <3>8. \E E \in SUBSET Types : Through(g, E) BY <3>6
    <3>9. Last(g.todo) = Level(t) /\ t \in g.seen /\ t \in Reach[g.type] BY <2>2, <2>5, <3>2
    <3> QED BY <1>4, <2>9, <3>1, <3>2, <3>7, <3>8, <3>9
  <2>10. CASE ~ Overflow /\ Kind[t] # "map" /\ ~ (IsStruct(t) /\ t \notin f.seen)
    <3> PICK T : T = IF Kind[t] = "list" THEN into ELSE rest OBVIOUS
    <3> PICK g : g = [f EXCEPT !.todo = T] OBVIOUS
    <3>1. Become(p, g) BY <1>7, <2>10 DEF WalkVisit
    <3>2. /\ g.cache = "eligible" /\ g.type = f.type /\ g.pc = "walk"
          /\ g.todo = T /\ g.seen = f.seen
      BY <1>1, <2>1 DEF FrameSound
    <3>3. IsStruct(t) => t \in D
      <4>1. IsStruct(t) => t \in Entered(f) BY <1>5, <2>1, <2>10
      <4> QED BY <2>3, <4>1 DEF Through
    <3>4. Kind[t] \notin {"map", "badtag"} BY <2>3, <2>10, <3>3 DEF Through, IsStruct
    <3>5. Left(T) \subseteq Reach[f.type] /\ Left(f.todo) \subseteq {t} \cup Left(T)
      BY <2>2, <2>4, <2>6 DEF Composed
    <3>6. Composed(t) /\ t \notin D => Range(Parts[t]) \subseteq Left(T)
      BY <2>2, <3>3 DEF Composed
    <3>7. g.seen = Entered(f) \cup (IF IsStruct(t) THEN {t} ELSE {})
      BY <1>5, <2>1, <2>10, <3>2
    <3>8. \E E \in SUBSET Types : Through(g, E)
      <4>1. Ahead(f) \subseteq {t} \cup Left(g.todo) BY <1>5, <2>1, <3>2, <3>5
      <4>2. Composed(t) /\ t \notin D => Range(Parts[t]) \subseteq Left(g.todo) BY <3>2, <3>6
      <4>3. /\ t \in Types /\ Through(f, D) /\ Kind[t] \notin {"map", "badtag"}
            /\ g.type = f.type /\ g.pc = "walk"
            /\ g.seen = Entered(f) \cup (IF IsStruct(t) THEN {t} ELSE {})
        BY <2>2, <2>3, <3>2, <3>4, <3>7
      <4> QED BY ONLY <4>1, <4>2, <4>3, ThroughOneMore
    <3> QED BY <1>3, <3>1, <3>2, <3>5, <3>8
  <2> QED BY <2>7, <2>8, <2>9, <2>10
<1>8. CASE WalkFields(p)
  <2> PICK t : t = Last(f.todo).of OBVIOUS
  <2>1. f.pc = "fields" /\ f.todo # << >> BY <1>1, <1>8 DEF WalkFields, At, FrameSound
  <2>2. PICK D \in SUBSET Types : Through(f, D) BY <1>1, <1>2, <2>1 DEF Sound
  <2>3. /\ Left(f.todo) \subseteq Reach[f.type] /\ Last(f.todo) = Level(t)
        /\ IsStruct(t) /\ t \in f.seen /\ t \in Reach[f.type]
    BY <1>1, <1>2, <2>1 DEF Sound
  <2>4. t \in Types BY <1>1, <2>3, ReachesItself
  <2>5. ret[p] = Failed <=> Kind[t] = "badtag"
    <3>1. Wants(f) = <<"info", t>> BY <1>1, <2>1 DEF Wants
    <3> QED BY <1>2, <3>1 DEF Says
  <2>6. CASE ret[p] = Failed
    <3>1. Return(p, Failed) BY <1>8, <2>6 DEF WalkFields
    <3>2. Refused(f.type) BY <2>3, <2>5, <2>6 DEF Refused
    <3>3. Says(f.cache, f.type, Failed) BY <1>1, <3>2 DEF Says
    <3> QED BY <1>1, <3>1, <3>3, ReturningRight
  <2>7. CASE ret[p] # Failed
    <3> PICK g : g = [f EXCEPT !.pc = "walk"] OBVIOUS
    <3>1. Become(p, g) BY <1>8, <2>7 DEF WalkFields
    <3>2. /\ g.cache = "eligible" /\ g.type = f.type /\ g.pc = "walk"
          /\ g.todo = f.todo /\ g.seen = f.seen
      BY <1>1 DEF FrameSound
    <3>3. Kind[t] \notin {"map", "badtag"} BY <2>3, <2>5, <2>7 DEF IsStruct
    <3>4. Current(f) = {t} BY <2>1 DEF Current
    <3>5. g.seen = Entered(f) \cup (IF IsStruct(t) THEN {t} ELSE {})
      BY <2>3, <3>2, <3>4 DEF Entered
    <3>6. Ahead(f) \subseteq {t} \cup Left(g.todo) BY <3>2, <3>4 DEF Ahead
    <3>7. Range(Parts[t]) \subseteq Left(g.todo)
      <4>1. Left(f.todo) = Left(Front(f.todo)) \cup Range(Last(f.todo).left)
        BY <1>1, <2>1, LeftLast
      <4>2. Last(f.todo).left = Parts[t] BY <2>3 DEF Level
      <4> QED BY <3>2, <4>1, <4>2
    <3>8. \E E \in SUBSET Types : Through(g, E)
      <4>1. /\ t \in Types /\ Through(f, D) /\ Kind[t] \notin {"map", "badtag"}
            /\ g.type = f.type /\ g.pc = "walk" /\ Ahead(f) \subseteq {t} \cup Left(g.todo)
            /\ g.seen = Entered(f) \cup (IF IsStruct(t) THEN {t} ELSE {})
            /\ Composed(t) /\ t \notin D => Range(Parts[t]) \subseteq Left(g.todo)
        BY <2>2, <2>4, <3>2, <3>3, <3>5, <3>6, <3>7
      <4> QED BY ONLY <4>1, ThroughOneMore
    <3> QED BY <1>3, <2>3, <3>1, <3>2, <3>8
  <2> QED BY <2>6, <2>7
<1>9. CASE WalkReturn(p)
  <2> PICK T : T = Front(f.todo) OBVIOUS
  <2> PICK g : g = [f EXCEPT !.todo = T] OBVIOUS
  <2>1. Become(p, g) /\ f.pc = "walk" /\ f.todo # << >> /\ Last(f.todo).left = << >>
    BY <1>1, <1>9 DEF WalkReturn, Walking, At, FrameSound
  <2>2. /\ g.cache = "eligible" /\ g.type = f.type /\ g.pc = "walk" /\ g.todo = T
        /\ g.seen = f.seen
    BY <1>1, <2>1 DEF FrameSound
  <2>3. Left(f.todo) = Left(T)
    <3>1. DOMAIN << >> = {} OBVIOUS
    <3>2. Range(<< >>) = {} BY <3>1 DEF Range
    <3> QED BY <1>1, <2>1, <3>2, LeftLast
  <2>4. PICK D \in SUBSET Types : Through(f, D) BY <1>1, <1>2, <2>1 DEF Sound
  <2>5. Left(g.todo) \subseteq Reach[g.type] BY <1>1, <1>2, <2>1, <2>2, <2>3 DEF Sound
  <2>6. Entered(g) = Entered(f) /\ Ahead(g) = Ahead(f)
    <3>1. Current(g) = {} BY <2>2 DEF Current
    <3> QED BY <1>5, <2>1, <2>2, <2>3, <3>1 DEF Entered, Ahead
  <2>7. Through(g, D) BY <2>2, <2>4, <2>6 DEF Through
  <2>8. \E E \in SUBSET Types : Through(g, E) BY <2>7
  <2> QED BY <1>3, <2>1, <2>2, <2>5, <2>8
<1>10. CASE EligibleStore(p)
  <2>1. PICK b \in BOOLEAN : /\ Publish(p, Verdict(b))
                             /\ b => f.pc = "walk" /\ f.todo = << >>
                             /\ ~ b => f.pc = "found"
    BY <1>10 DEF EligibleStore, At
  <2> PICK v : v = Verdict(b) OBVIOUS
  <2>2. v # Missing /\ v # Failed BY DEF Missing, Failed, Verdict
  <2>3. Says(f.cache, f.type, v)
    <3>1. CASE b
      <4>1. PICK D \in SUBSET Types : Through(f, D) BY <1>1, <1>2, <2>1, <3>1 DEF Sound
      <4>2. ~ HoldsMap(f.type) /\ ~ Refused(f.type) BY <1>1, <2>1, <3>1, <4>1, ThroughAll
      <4>3. v = Verdict(TRUE) BY <3>1 DEF Verdict
      <4> QED BY <1>1, <4>2, <4>3 DEF Says
    <3>2. CASE ~ b
      <4>1. HoldsMap(f.type) BY <1>1, <1>2, <2>1, <3>2 DEF Sound
      <4>2. v = Verdict(FALSE) BY <3>2 DEF Verdict
      <4> QED BY <1>1, <4>1, <4>2 DEF Says
    <3> QED BY <3>1, <3>2
  <2> QED BY <1>1, <2>1, <2>2, <2>3, PublishingRight
<1> QED BY <1>6, <1>7, <1>8, <1>9, <1>10
-----------------------------------------------------------------------------
(* The calls.                                                              *)

LEMMA BeginRight ==
  ASSUME IInv, RightInv, NEW p \in Callers, NEW op \in {"unmarshal", "marshal"}, NEW root \in Roots,
         Begin(p, op, root)
  PROVE  RightInv'
<1> PICK g : g = [Frame(op, root) EXCEPT !.pc = "begin"] OBVIOUS
<1> PICK r : r = ret[p] OBVIOUS
<1>1. g.cache = op /\ g.type = root /\ g.pc = "begin" BY DEF Frame
<1>2. Sound(g) BY <1>1 DEF Sound
<1>3. Wants(g)[1] = "special" BY <1>1 DEF Wants
<1>4. Informed(<<g>>, r)
  <2>1. Len(<<g>>) = 1 /\ <<g>>[1] = g OBVIOUS
  <2>2. Says(Wants(g)[1], Wants(g)[2], r) BY <1>3, Indifferent
  <2> QED BY <1>2, <2>1, <2>2 DEF Informed
<1>5. /\ stack' = [stack EXCEPT ![p] = <<g>>] /\ ret' = ret /\ UNCHANGED <<table, outcomes>>
      /\ DOMAIN stack = Callers /\ DOMAIN ret = Callers
  BY DEF Begin, IInv, Chains
<1>6. CallersRight' BY <1>4, <1>5, OneInformed DEF RightInv
<1> QED BY <1>5, <1>6, SameEntries DEF RightInv

LEMMA EndRight ==
  ASSUME IInv, RightInv, NEW p \in Callers, Busy(p), NEW f, f = Top(p),
         f.cache \in {"unmarshal", "marshal"}, f.type \in Types,
         NEW outcome, outcome = Expected(f.cache, f.type), End(p, outcome)
  PROVE  RightInv'
<1> PICK r : r = ret[p] OBVIOUS
<1>1. /\ stack' = [stack EXCEPT ![p] = << >>] /\ ret' = ret /\ UNCHANGED table
      /\ outcomes' = outcomes \cup {<<f.cache, f.type, outcome>>}
      /\ DOMAIN stack = Callers /\ DOMAIN ret = Callers
  BY DEF End, IInv, Chains
<1>2. Informed(<< >>, r)
  <2>1. Len(<< >>) = 0 BY EmptySeq
  <2> QED BY <2>1 DEF Informed
<1>3. CallersRight' BY <1>1, <1>2, OneInformed DEF RightInv
<1>4. EntriesRight' BY <1>1 DEF RightInv, EntriesRight
<1>5. OutcomesRight'
  <2>1. ASSUME NEW x \in outcomes
        PROVE  \E op \in {"marshal", "unmarshal"}, t \in Types : x = <<op, t, Expected(op, t)>>
    BY DEF RightInv, OutcomesRight
  <2>2. \E op \in {"marshal", "unmarshal"}, t \in Types :
          <<f.cache, f.type, outcome>> = <<op, t, Expected(op, t)>>
    OBVIOUS
  <2> QED BY <1>1, <2>1, <2>2 DEF OutcomesRight
<1> QED BY <1>3, <1>4, <1>5 DEF RightInv

\* A call asks for an entry and will know what the answer means.
LEMMA AskRight ==
  ASSUME IInv, RightInv, NEW p \in Callers, Busy(p), NEW f, f = Top(p),
         f.cache \in {"unmarshal", "marshal"}, NEW pc, NEW c \in Caches \cup {"recycle"}, NEW t,
         \A g : g.cache = f.cache /\ g.type = f.type /\ g.pc = pc =>
           Sound(g) /\ Wants(g)[1] \in {"special", c} /\ Wants(g)[2] = f.type,
         c # "zone" => t = f.type,
         Call(p, [f EXCEPT !.pc = pc], Frame(c, t))
  PROVE  RightInv'
<1> PICK g : g = [f EXCEPT !.pc = pc] OBVIOUS
<1> PICK h : h = Frame(c, t) OBVIOUS
<1>1. g.cache = f.cache /\ g.type = f.type /\ g.pc = pc
  <2>1. FrameSound(table, f) BY TopSound
  <2> QED BY <2>1 DEF FrameSound
<1>2. Sound(g) /\ Wants(g)[1] \in {"special", c} /\ Wants(g)[2] = f.type BY <1>1
<1>3. Continues(f, g) BY <1>1 DEF Continues
<1>4. Sound(h) /\ Wants(h)[1] = "special" /\ h.cache = c /\ h.type = t BY FreshSound
<1>5. Wants(g)[1] # "zone"
  <2>1. \/ Wants(g)[1] \in {"info", "filter", "special"}
        \/ Wants(g) = <<g.pc, g.type>> /\ g.pc \in {"eligible", "direct", "filter"}
    BY DEF Wants
  <2> QED BY <2>1
<1>6. Provides(g, h) BY <1>2, <1>4, <1>5 DEF Provides
<1> QED BY <1>2, <1>3, <1>4, <1>6, CallingRight

LEMMA UnmarshalRight ==
  ASSUME IInv, RightInv, NEW p \in Callers, Unmarshal(p) PROVE RightInv'
<1> PICK f : f = Top(p) OBVIOUS
<1> PICK t : t = f.type OBVIOUS
<1>1. Busy(p) /\ f.cache = "unmarshal" /\ t \in Types
  <2>1. \E pc : At(p, {"unmarshal"}, pc) BY DEF Unmarshal
  <2>2. Busy(p) /\ f.cache \in {"unmarshal"} /\ FrameSound(table, f) BY <2>1, AtFrame
  <2> QED BY <2>2 DEF FrameSound
<1>2. Sound(f) /\ Says(Wants(f)[1], Wants(f)[2], ret[p]) BY <1>1, RightTop
<1>3. f.pc \in {"eligible", "direct", "filter"} => Says(f.pc, t, ret[p])
  <2>1. f.pc \in {"eligible", "direct", "filter"} => Wants(f) = <<f.pc, t>> BY <1>1 DEF Wants
  <2> QED BY <1>2, <2>1
\* A frame of this call that asks for an entry.
<1>4. ASSUME NEW pc \in {"eligible", "filter", "direct"},
             pc = "eligible" => IsStruct(t),
             pc = "direct" => IsStruct(t) /\ ~ HoldsMap(t) /\ ~ Refused(t),
             pc = "filter" => ~ IsStruct(t) \/ HoldsMap(t),
             Call(p, [f EXCEPT !.pc = pc], Frame(pc, t))
      PROVE  RightInv'
  <2>1. ASSUME NEW g, g.cache = f.cache, g.type = f.type, g.pc = pc
        PROVE  Sound(g) /\ Wants(g)[1] \in {"special", pc} /\ Wants(g)[2] = f.type
    <3>1. Sound(g) BY <1>1, <1>4, <2>1 DEF Sound
    <3>2. Wants(g) = <<pc, f.type>> BY <1>1, <2>1 DEF Wants
    <3> QED BY <3>1, <3>2
  <2>2. pc \in Caches BY DEF Caches
  <2> QED BY <1>1, <1>4, <2>1, <2>2, AskRight
<1>5. CASE At(p, {"unmarshal"}, "begin") /\
           IF IsStruct(t) THEN Call(p, [f EXCEPT !.pc = "eligible"], Frame("eligible", t))
           ELSE Call(p, [f EXCEPT !.pc = "filter"], Frame("filter", t))
  BY <1>4, <1>5
<1>6. CASE /\ At(p, {"unmarshal"}, "eligible")
           /\ CASE ret[p] = Failed -> End(p, "error")
                [] ret[p] = Verdict(TRUE) ->
                     Call(p, [f EXCEPT !.pc = "direct"], Frame("direct", t))
                [] OTHER -> Call(p, [f EXCEPT !.pc = "filter"], Frame("filter", t))
  <2>1. f.pc = "eligible" /\ IsStruct(t) BY <1>1, <1>2, <1>6 DEF At, Sound
  <2>2. Verdict(TRUE) # Failed /\ Verdict(FALSE) # Failed /\ Verdict(TRUE) # Verdict(FALSE)
    BY DEF Verdict, Failed
  <2>3. CASE ret[p] = Failed
    <3>1. Refused(t) BY <1>3, <2>1, <2>2, <2>3 DEF Says
    <3>2. End(p, "error") BY <1>6, <2>2, <2>3
    <3>3. "error" = Expected(f.cache, f.type) BY <1>1, <3>1 DEF Expected
    <3> QED BY <1>1, <3>2, <3>3, EndRight
  <2>4. CASE ret[p] = Verdict(TRUE)
    <3>1. ~ HoldsMap(t) /\ ~ Refused(t) BY <1>3, <2>1, <2>2, <2>4 DEF Says
    <3>2. Call(p, [f EXCEPT !.pc = "direct"], Frame("direct", t)) BY <1>6, <2>2, <2>4
    <3> QED BY <1>4, <2>1, <3>1, <3>2
  <2>5. CASE ret[p] # Failed /\ ret[p] # Verdict(TRUE)
    <3>1. HoldsMap(t) BY <1>3, <2>1, <2>5 DEF Says
    <3>2. Call(p, [f EXCEPT !.pc = "filter"], Frame("filter", t)) BY <1>6, <2>5
    <3> QED BY <1>4, <3>1, <3>2
  <2> QED BY <2>3, <2>4, <2>5
\* A document that was parsed: may its maps be recycled?
<1>9. ASSUME Call(p, [f EXCEPT !.pc = "recycle"], Frame("recycle", t)), ~ Refused(t),
             ~ IsStruct(t) \/ HoldsMap(t)
      PROVE  RightInv'
  <2>1. ASSUME NEW g, g.cache = f.cache, g.type = f.type, g.pc = "recycle"
        PROVE  Sound(g) /\ Wants(g)[1] \in {"special", "recycle"} /\ Wants(g)[2] = f.type
    <3>1. Sound(g) BY <1>1, <1>9, <2>1 DEF Sound
    <3>2. Wants(g) = <<"special", f.type>> BY <1>1, <2>1 DEF Wants
    <3> QED BY <3>1, <3>2
  <2> QED BY <1>1, <1>9, <2>1, AskRight
<1>7. CASE /\ f.pc \in {"direct", "filter"}
           /\ IF ret[p] = Failed THEN End(p, "error")
              ELSE \/ End(p, f.pc)
                   \/ /\ f.pc = "filter"
                      /\ Call(p, [f EXCEPT !.pc = "recycle"], Frame("recycle", t))
                   \/ Call(p, [f EXCEPT !.pc = Zoned[f.pc]], Frame("zone", Offset))
  <2>1. ret[p] = Failed <=> Refused(t)
    <3>1. CASE f.pc = "filter" BY <1>3, <1>7, <3>1 DEF Says
    <3>2. CASE f.pc = "direct"
      <4>1. ~ Refused(t) BY <1>1, <1>2, <3>2 DEF Sound
      <4>2. ret[p] = Failed => Kind[t] = "badtag" BY <1>3, <1>7, <3>2 DEF Says
      <4>3. Kind[t] = "badtag" => Refused(t) BY <1>1, ReachesItself DEF Refused
      <4> QED BY <4>1, <4>2, <4>3
    <3> QED BY <1>7, <3>1, <3>2
  <2>2. CASE ret[p] = Failed
    <3>1. "error" = Expected(f.cache, f.type) BY <1>1, <2>1, <2>2 DEF Expected
    <3> QED BY <1>1, <1>7, <2>2, <3>1, EndRight
  <2>3. CASE ret[p] # Failed /\ End(p, f.pc)
    <3>1. f.pc = Expected(f.cache, f.type)
      <4>1. f.pc = "direct" => IsStruct(t) /\ ~ HoldsMap(t) BY <1>1, <1>2 DEF Sound
      <4>2. f.pc = "filter" => ~ IsStruct(t) \/ HoldsMap(t) BY <1>1, <1>2 DEF Sound
      <4> QED BY <1>1, <1>7, <2>1, <2>3, <4>1, <4>2 DEF Expected
    <3> QED BY <1>1, <2>3, <3>1, EndRight
  <2>4. CASE ret[p] # Failed /\ Call(p, [f EXCEPT !.pc = Zoned[f.pc]], Frame("zone", Offset))
    <3> PICK pc : pc = Zoned[f.pc] OBVIOUS
    <3>1. \/ f.pc = "direct" /\ pc = "direct zoned"
          \/ f.pc = "filter" /\ pc = "filter zoned"
      <4>1. Zoned["direct"] = "direct zoned" /\ Zoned["filter"] = "filter zoned" BY DEF Zoned
      <4> QED BY <1>7, <4>1
    <3>2. ASSUME NEW g, g.cache = f.cache, g.type = f.type, g.pc = pc
          PROVE  Sound(g) /\ Wants(g)[1] \in {"special", "zone"} /\ Wants(g)[2] = f.type
      <4>1. Sound(g) BY <1>1, <1>2, <1>7, <2>1, <2>4, <3>1, <3>2 DEF Sound
      <4>2. Wants(g) = <<"special", f.type>> BY <1>1, <3>1, <3>2 DEF Wants
      <4> QED BY <4>1, <4>2
    <3>3. "zone" \in Caches BY DEF Caches
    <3>4. f.cache \in {"unmarshal", "marshal"} BY <1>1
    <3> QED BY <1>1, <2>4, <3>2, <3>3, <3>4, AskRight
  <2>5. CASE ret[p] # Failed /\ f.pc = "filter"
             /\ Call(p, [f EXCEPT !.pc = "recycle"], Frame("recycle", t))
    <3>1. ~ IsStruct(t) \/ HoldsMap(t) BY <1>1, <1>2, <2>5 DEF Sound
    <3> QED BY <1>9, <2>1, <2>5, <3>1
  <2> QED BY <1>7, <2>2, <2>3, <2>4, <2>5
<1>8. CASE \E pc \in {"direct", "filter"} :
             /\ At(p, {"unmarshal"}, Zoned[pc])
             /\ \/ End(p, pc)
                \/ pc = "filter" /\ Call(p, [f EXCEPT !.pc = "recycle"], Frame("recycle", t))
  <2>1. PICK pc \in {"direct", "filter"} :
               /\ At(p, {"unmarshal"}, Zoned[pc])
               /\ \/ End(p, pc)
                  \/ pc = "filter" /\ Call(p, [f EXCEPT !.pc = "recycle"], Frame("recycle", t))
    BY <1>8
  <2>2. f.pc = Zoned[pc] BY <2>1 DEF At
  <2>3. pc = Expected(f.cache, f.type)
    <3>1. CASE pc = "direct"
      <4>1. f.pc = "direct zoned" BY <2>2, <3>1 DEF Zoned
      <4>2. IsStruct(t) /\ ~ HoldsMap(t) /\ ~ Refused(t) BY <1>1, <1>2, <4>1 DEF Sound
      <4> QED BY <1>1, <3>1, <4>2 DEF Expected
    <3>2. CASE pc = "filter"
      <4>1. f.pc = "filter zoned" BY <2>2, <3>2 DEF Zoned
      <4>2. (~ IsStruct(t) \/ HoldsMap(t)) /\ ~ Refused(t) BY <1>1, <1>2, <4>1 DEF Sound
      <4> QED BY <1>1, <3>2, <4>2 DEF Expected
    <3> QED BY <2>1, <3>1, <3>2
  <2>4. CASE End(p, pc) BY <1>1, <2>3, <2>4, EndRight
  <2>5. CASE pc = "filter" /\ Call(p, [f EXCEPT !.pc = "recycle"], Frame("recycle", t))
    <3>1. f.pc = "filter zoned" BY <2>2, <2>5 DEF Zoned
    <3>2. (~ IsStruct(t) \/ HoldsMap(t)) /\ ~ Refused(t) BY <1>1, <1>2, <3>1 DEF Sound
    <3> QED BY <1>9, <2>5, <3>2
  <2> QED BY <2>1, <2>4, <2>5
<1>10. CASE At(p, {"unmarshal"}, "recycle") /\ End(p, "filter")
  <2>1. f.pc = "recycle" BY <1>10 DEF At
  <2>2. (~ IsStruct(t) \/ HoldsMap(t)) /\ ~ Refused(t) BY <1>1, <1>2, <2>1 DEF Sound
  <2>3. "filter" = Expected(f.cache, f.type) BY <1>1, <2>2 DEF Expected
  <2> QED BY <1>1, <1>10, <2>3, EndRight
<1> QED BY <1>5, <1>6, <1>7, <1>8, <1>10 DEF Unmarshal, At

LEMMA MarshalRight == ASSUME IInv, RightInv, NEW p \in Callers, Marshal(p) PROVE RightInv'
<1> PICK f : f = Top(p) OBVIOUS
<1> PICK t : t = f.type OBVIOUS
<1>1. Busy(p) /\ f.cache = "marshal" /\ t \in Types
  <2>1. \E pc : At(p, {"marshal"}, pc) BY DEF Marshal
  <2>2. Busy(p) /\ f.cache \in {"marshal"} /\ FrameSound(table, f) BY <2>1, AtFrame
  <2> QED BY <2>2 DEF FrameSound
<1>2. Sound(f) /\ Says(Wants(f)[1], Wants(f)[2], ret[p]) BY <1>1, RightTop
<1>3. ASSUME NEW pc \in {"special", "info"}, pc = "info" => IsStruct(t),
             Call(p, [f EXCEPT !.pc = pc], Frame(pc, t))
      PROVE  RightInv'
  <2>1. ASSUME NEW g, g.cache = f.cache, g.type = f.type, g.pc = pc
        PROVE  Sound(g) /\ Wants(g)[1] \in {"special", pc} /\ Wants(g)[2] = f.type
    <3>1. Sound(g) BY <1>1, <1>3, <2>1 DEF Sound
    <3>2. Wants(g) = <<pc, f.type>> BY <1>1, <2>1 DEF Wants
    <3> QED BY <3>1, <3>2
  <2>2. pc \in Caches BY DEF Caches
  <2> QED BY <1>1, <1>3, <2>1, <2>2, AskRight
<1>4. CASE Call(p, [f EXCEPT !.pc = "special"], Frame("special", t)) BY <1>3, <1>4
<1>5. CASE IF IsStruct(t) THEN Call(p, [f EXCEPT !.pc = "info"], Frame("info", t))
           ELSE End(p, "error")
  <2>1. CASE IsStruct(t) BY <1>3, <1>5, <2>1
  <2>2. CASE ~ IsStruct(t)
    <3>1. "error" = Expected(f.cache, f.type) BY <1>1, <2>2 DEF Expected, IsStruct
    <3> QED BY <1>1, <1>5, <2>2, <3>1, EndRight
  <2> QED BY <2>1, <2>2
<1>6. CASE At(p, {"marshal"}, "info") /\ End(p, IF ret[p] = Failed THEN "error" ELSE "text")
  <2>1. f.pc = "info" /\ IsStruct(t) BY <1>1, <1>2, <1>6 DEF At, Sound
  <2>2. ret[p] = Failed <=> Kind[t] = "badtag"
    <3>1. Wants(f) = <<"info", t>> BY <1>1, <2>1 DEF Wants
    <3> QED BY <1>2, <3>1 DEF Says
  <2> PICK outcome : outcome = IF ret[p] = Failed THEN "error" ELSE "text" OBVIOUS
  <2>3. outcome = Expected(f.cache, f.type) BY <1>1, <2>1, <2>2 DEF Expected, IsStruct
  <2> QED BY <1>1, <1>6, <2>3, EndRight
<1> QED BY <1>4, <1>5, <1>6 DEF Marshal

LEMMA InitRight == Init => RightInv
<1> SUFFICES ASSUME Init PROVE RightInv
  OBVIOUS
<1>1. EntriesRight BY DEF Init, EntriesRight
<1>2. CallersRight
  <2>1. \A r : Informed(<< >>, r)
    <3>1. Len(<< >>) = 0 BY EmptySeq
    <3> QED BY <3>1 DEF Informed
  <2> QED BY <2>1 DEF Init, CallersRight
<1> QED BY <1>1, <1>2 DEF Init, OutcomesRight, RightInv

LEMMA RightKept == ASSUME IInv, IInv', RightInv, [Next]_vars PROVE RightInv'
<1>1. CASE UNCHANGED vars
  BY <1>1 DEF vars, RightInv, EntriesRight, CallersRight, OutcomesRight
<1>2. ASSUME NEW p \in Callers, Step(p) PROVE RightInv'
  BY <1>2, HitRight, LookupRight, DirectRight, EligibleRightKept, FilterMissRight,
     FilterElementRight, FilterFieldsRight, RecycleRight, SpecialRight, UnmarshalRight, MarshalRight DEF Step
<1>3. ASSUME NEW p \in Callers, NEW root \in Roots,
             Begin(p, "unmarshal", root) \/ Begin(p, "marshal", root)
      PROVE  RightInv'
  BY <1>3, BeginRight
<1> QED BY <1>1, <1>2, <1>3 DEF Next

LEMMA AlwaysRight == Spec => []RightInv
<1>1. Init => IInv /\ RightInv BY InitSound, InitRight
<1>2. IInv /\ RightInv /\ [Next]_vars => (IInv /\ RightInv)' BY Inductive, RightKept
<1> QED BY <1>1, <1>2, PTL DEF Spec

\* Whatever the types, also those that contain themselves, and however callers
\* race: the verdict that is cached says whether the type has a map anywhere, and
\* how a call ends depends on its type alone, so a first call takes the same way
\* as the later ones (unmarshal_direct.go:137, unmarshal.go:45, marshal.go:167).
THEOREM VerdictRight == Spec => []EligibleRight
<1>1. ASSUME IInv, RightInv PROVE EligibleRight
  <2>1. ASSUME NEW t \in Types, Entry("eligible", t) # Missing
        PROVE  Entry("eligible", t) = Verdict(~HoldsMap(t))
    <3> PICK v : v = Entry("eligible", t) OBVIOUS
    <3>1. v # Failed /\ Says("eligible", t, v)
      <4>1. "eligible" \in Caches /\ "eligible" # "filter" BY DEF Caches
      <4> QED BY <1>1, <2>1, <4>1 DEF RightInv, EntriesRight, Entry
    <3>2. CASE v = Verdict(TRUE) /\ ~ HoldsMap(t) BY <3>2
    <3>3. CASE v = Verdict(FALSE) /\ HoldsMap(t) BY <3>3
    <3> QED BY <3>1, <3>2, <3>3 DEF Says
  <2>2. ASSUME NEW x \in outcomes, NEW y \in outcomes, x[1] = y[1], x[2] = y[2]
        PROVE  x = y
    <3>1. ASSUME NEW z \in outcomes PROVE z = <<z[1], z[2], Expected(z[1], z[2])>>
      BY <1>1 DEF RightInv, OutcomesRight
    <3> QED BY <2>2, <3>1
  <2> QED BY <2>1, <2>2 DEF EligibleRight
<1> QED BY <1>1, AlwaysSound, AlwaysRight, PTL
-----------------------------------------------------------------------------
(* Running out of stack.                                                   *)

\* The call at the bottom of the stack needs a filter.
Filters(t) == ~ IsStruct(t) \/ HoldsMap(t)

\* The types a computation that calls itself goes on with, and all it gets to.
Steps(c)       == IF c = "recycle" THEN ByExported ELSE ByPart
Under(next, t) == UNION {Reached(next)[x] : x \in next[t]}

LEMMA UnderStep ==
  ASSUME NEW next \in [Types -> SUBSET Types], NEW t \in Types, NEW x \in next[t]
  PROVE  x \in Types /\ x \in Under(next, t) /\ x \in Reached(next)[t]
<1>1. x \in Types OBVIOUS
<1>2. x \in Under(next, t) BY <1>1, ReachedItself DEF Under
<1>3. x \in Reached(next)[t] BY ReachedItself, ReachedClosed DEF ClosedBy
<1> QED BY <1>1, <1>2, <1>3

LEMMA UnderFurther ==
  ASSUME NEW next \in [Types -> SUBSET Types], NEW t \in Types, NEW x \in Under(next, t),
         NEW y \in Reached(next)[x]
  PROVE  y \in Under(next, t)
<1>1. PICK z \in next[t] : x \in Reached(next)[z] BY DEF Under
<1>2. z \in Types OBVIOUS
<1>3. y \in Reached(next)[z] BY <1>1, <1>2, ReachedFurther
<1> QED BY <1>3 DEF Under

LEMMA StepsAre == ASSUME NEW c PROVE Steps(c) \in [Types -> SUBSET Types]
BY StepsTyped DEF Steps

\* The parts of a composed type, and the element of a list.
LEMMA PartStep ==
  ASSUME NEW t \in Types, Composed(t), NEW x \in Range(Parts[t])
  PROVE  /\ x \in Types /\ x \in ByPart[t] /\ x \in Reach[t]
         /\ Kind[t] = "list" => x \in ByElement[t] /\ Inside[x] = Inside[t]
<1>1. x \in ByPart[t] BY DEF ByPart
<1>2. x \in Types /\ x \in Reach[t] BY <1>1, StepsTyped, UnderStep DEF Reach
<1>3. ASSUME Kind[t] = "list" PROVE x \in ByElement[t] /\ Inside[x] = Inside[t]
  <2>1. x \in ByElement[t] BY <1>3 DEF ByElement
  <2>2. /\ Parts[t] \in Seq(Types) /\ Len(Parts[t]) = 1 /\ DOMAIN Parts[t] = {1}
        /\ Inside[t] = Inside[Head(Parts[t])]
    BY <1>3, TypesAssumption
  <2>3. x = Parts[t][1] BY <2>2 DEF Range
  <2>4. Head(Parts[t]) = Parts[t][1] BY <2>2
  <2> QED BY <2>1, <2>2, <2>3, <2>4
<1> QED BY <1>1, <1>2, <1>3
-----------------------------------------------------------------------------
(* The levels of directTypeContainsMap.                                    *)

\* y is a list within the list x, with only lists between.
OnList(x, y) == Kind[y] = "list" /\ Inside[y] = Inside[x] /\ y \in Under(ByElement, x)

\* Level i is a list: the levels from there to j are lists, or reach its struct.
Onward(T, i, j) == \/ \E k \in i + 1 .. j : T[k].of = Inside[T[i].of] /\ IsStruct(T[k].of)
                   \/ OnList(T[i].of, T[j].of)

LevelRight(root, l, seen) ==
  /\ l.of \in Reach[root] /\ Composed(l.of) /\ Range(l.left) \subseteq Range(Parts[l.of])
  /\ IsStruct(l.of) => l.of \in seen

\* No struct is entered twice.
Ordered(T, i, j) == /\ IsStruct(T[i].of) => T[j].of # T[i].of
                    /\ Kind[T[i].of] = "list" => Onward(T, i, j)

Levelled(root, T, seen) ==
  \A i \in 1 .. Len(T) : /\ LevelRight(root, T[i], seen)
                         /\ \A j \in i + 1 .. Len(T) : Ordered(T, i, j)

LEMMA LevelledAs ==
  ASSUME NEW root, NEW T, NEW seen, Levelled(root, T, seen), NEW n \in Nat, n <= Len(T),
         Len(T) \in Nat, NEW U, Len(U) = n,
         \A i \in 1 .. n : U[i].of = T[i].of /\ Range(U[i].left) \subseteq Range(T[i].left)
  PROVE  Levelled(root, U, seen)
<1> PICK m \in Nat : m = Len(T) OBVIOUS
<1>1. ASSUME NEW i \in 1 .. n PROVE LevelRight(root, U[i], seen)
  <2>1. i \in 1 .. m BY DEF Levelled
  <2>2. LevelRight(root, T[i], seen) BY <2>1 DEF Levelled
  <2> QED BY <2>2 DEF LevelRight
<1>2. ASSUME NEW i \in 1 .. n, NEW j \in i + 1 .. n PROVE Ordered(U, i, j)
  <2>1. i \in 1 .. m /\ j \in i + 1 .. m /\ j \in 1 .. n OBVIOUS
  <2>2. Ordered(T, i, j) BY <2>1 DEF Levelled
  <2>3. U[i].of = T[i].of /\ U[j].of = T[j].of BY <2>1
  <2>4. Onward(T, i, j) => Onward(U, i, j)
    <3>1. \A k \in i + 1 .. j : k \in 1 .. n BY <2>1
    <3>2. \A k \in i + 1 .. j : U[k].of = T[k].of BY <3>1
    <3> QED BY <2>3, <3>2 DEF Onward
  <2> QED BY <2>2, <2>3, <2>4 DEF Ordered
<1> QED BY <1>1, <1>2 DEF Levelled

LEMMA SeenMore ==
  ASSUME NEW root, NEW T, NEW seen, Levelled(root, T, seen), NEW t
  PROVE  Levelled(root, T, seen \cup {t})
<1>1. ASSUME NEW l, LevelRight(root, l, seen) PROVE LevelRight(root, l, seen \cup {t})
  BY <1>1 DEF LevelRight
<1> QED BY <1>1 DEF Levelled

\* One more call, for a part of the innermost one's type.
LEMMA LevelDeeper ==
  ASSUME NEW root \in Types, NEW T \in Seq(Levels), NEW seen, Levelled(root, T, seen),
         NEW n \in Nat \ {0}, n = Len(T), NEW t \in Range(Parts[T[n].of]), Composed(t),
         IsStruct(t) => t \in seen /\ \A i \in 1 .. n : T[i].of # t,
         NEW U, U = Append(T, Level(t))
  PROVE  Levelled(root, U, seen)
<1>1. /\ T[n] \in Levels /\ T[n].of \in Types /\ T[n].of \in Reach[root] /\ Composed(T[n].of)
  <2>1. n \in 1 .. n OBVIOUS
  <2>2. LevelRight(root, T[n], seen) BY <2>1 DEF Levelled
  <2>3. T[n] \in Levels BY <2>1, ElementOfSeq
  <2> QED BY <2>2, <2>3 DEF LevelRight, Levels
<1>2. /\ t \in Types /\ t \in Reach[T[n].of]
      /\ Kind[T[n].of] = "list" => t \in ByElement[T[n].of] /\ Inside[t] = Inside[T[n].of]
  BY <1>1, PartStep
<1>3. t \in Reach[root] BY <1>1, <1>2, ReachFurther
<1>4. IsStruct(t) => Inside[t] = t BY <1>2, InsideTyped DEF IsStruct
<1>5. Len(U) = n + 1 /\ U[n + 1] = Level(t) /\ \A i \in 1 .. n : U[i] = T[i]
  <2>1. IsStack(T) BY StackOf
  <2> PICK m : m = n + 1 OBVIOUS
  <2>2. Len(U) = m /\ U[m] = Level(t) /\ \A i \in 1 .. m - 1 : U[i] = T[i] BY <2>1, Lengthened
  <2>3. m - 1 = n OBVIOUS
  <2> QED BY <2>2, <2>3
<1>6. Level(t).of = t /\ Level(t).left = Parts[t] BY DEF Level
<1>7. LevelRight(root, U[n + 1], seen) BY <1>3, <1>5, <1>6 DEF LevelRight
<1>8. ASSUME NEW i \in 1 .. n
      PROVE  LevelRight(root, U[i], seen) /\ \A j \in i + 1 .. n : Ordered(U, i, j)
  <2>1. LevelRight(root, T[i], seen) /\ \A j \in i + 1 .. n : Ordered(T, i, j) BY DEF Levelled
  <2>2. ASSUME NEW j \in i + 1 .. n PROVE Ordered(U, i, j)
    <3>1. j \in 1 .. n /\ \A k \in i + 1 .. j : k \in 1 .. n OBVIOUS
    <3>2. U[i] = T[i] /\ U[j] = T[j] /\ \A k \in i + 1 .. j : U[k] = T[k] BY <1>5, <3>1
    <3>3. Ordered(T, i, j) BY <2>1
    <3> QED BY <3>2, <3>3 DEF Ordered, Onward
  <2> QED BY <1>5, <2>1, <2>2
<1>9. ASSUME NEW i \in 1 .. n PROVE Ordered(U, i, n + 1)
  <2>1. U[i] = T[i] /\ U[n + 1].of = t BY <1>5, <1>6
  <2>2. IsStruct(T[i].of) => t # T[i].of OBVIOUS
  <2>3. ASSUME Kind[T[i].of] = "list" PROVE Onward(U, i, n + 1)
    <3> PICK x : x = T[i].of OBVIOUS
    <3>1. x \in Types
      <4>1. T[i] \in Levels BY ElementOfSeq
      <4> QED BY <4>1 DEF Levels
    <3>2. CASE IsStruct(t) /\ t = Inside[x]
      <4>1. n + 1 \in i + 1 .. n + 1 OBVIOUS
      <4>2. U[n + 1].of = Inside[U[i].of] BY <2>1, <3>2
      <4>3. IsStruct(U[n + 1].of) BY <2>1, <3>2
      <4> QED BY <4>1, <4>2, <4>3 DEF Onward
    <3>3. CASE OnList(x, t) BY <2>1, <3>3 DEF Onward
    <3>4. CASE \E k \in i + 1 .. n : T[k].of = Inside[x] /\ IsStruct(T[k].of)
      <4>1. PICK k \in i + 1 .. n : T[k].of = Inside[x] /\ IsStruct(T[k].of) BY <3>4
      <4>2. k \in i + 1 .. n + 1 /\ k \in 1 .. n OBVIOUS
      <4>3. U[k] = T[k] BY <1>5, <4>2
      <4> QED BY <2>1, <4>1, <4>2, <4>3 DEF Onward
    <3>5. CASE i = n
      <4>1. t \in ByElement[x] /\ Inside[t] = Inside[x] BY <1>2, <2>3, <3>5
      <4>2. t \in Under(ByElement, x) BY <3>1, <4>1, StepsTyped, UnderStep
      <4> QED BY <1>4, <3>2, <3>3, <4>1, <4>2 DEF OnList, Composed
    <3>6. CASE i # n /\ OnList(x, T[n].of)
      <4>1. t \in ByElement[T[n].of] /\ Inside[t] = Inside[x] BY <1>2, <3>6 DEF OnList
      <4>2. t \in Reached(ByElement)[T[n].of] BY <1>1, <4>1, StepsTyped, UnderStep
      <4>3. t \in Under(ByElement, x) BY <3>1, <3>6, <4>2, StepsTyped, UnderFurther DEF OnList
      <4> QED BY <1>4, <3>2, <3>3, <4>1, <4>3 DEF OnList, Composed
    <3>7. i # n => Onward(T, i, n)
      <4>1. i # n => n \in i + 1 .. n OBVIOUS
      <4>2. i # n => Ordered(T, i, n) BY <4>1 DEF Levelled
      <4> QED BY <2>3, <4>2 DEF Ordered
    <3> QED BY <3>4, <3>5, <3>6, <3>7 DEF Onward
  <2> QED BY <2>1, <2>2, <2>3 DEF Ordered
<1>10. ASSUME NEW i \in 1 .. n + 1
       PROVE  LevelRight(root, U[i], seen) /\ \A j \in i + 1 .. n + 1 : Ordered(U, i, j)
  <2>1. CASE i = n + 1
    <3>1. i + 1 .. n + 1 = {} BY <2>1
    <3> QED BY <1>7, <2>1, <3>1
  <2>2. CASE i # n + 1
    <3>1. i \in 1 .. n BY <2>2
    <3>2. \A j \in i + 1 .. n + 1 : j \in i + 1 .. n \/ j = n + 1 OBVIOUS
    <3> QED BY <1>8, <1>9, <3>1, <3>2
  <2> QED BY <2>1, <2>2
<1> QED BY <1>5, <1>10 DEF Levelled

\* What the innermost call does with the next part of its type.
VisitKeeps(root, T, seen, t, rest, into) ==
  /\ Levelled(root, rest, seen) /\ Len(into) = Len(T) + 1
  /\ Kind[t] = "list" => Levelled(root, into, seen)
  /\ IsStruct(t) /\ t \notin seen => Levelled(root, into, seen \cup {t})

LEMMA VisitLevelled ==
  ASSUME NEW root \in Types, NEW T \in Seq(Levels), T # << >>, NEW seen, Levelled(root, T, seen),
         NEW l, l = Last(T), l.left # << >>, NEW t, t = Head(l.left),
         NEW rest, rest = Append(Front(T), [l EXCEPT !.left = Tail(@)]),
         NEW into, into = Append(rest, Level(t))
  PROVE  VisitKeeps(root, T, seen, t, rest, into)
<1> PICK n : n = Len(T) OBVIOUS
<1> PICK l2 : l2 = [l EXCEPT !.left = Tail(@)] OBVIOUS
<1>1. rest \in Seq(Levels) /\ l \in Levels /\ t \in Types BY VisitTyped
<1>2. l.left \in Seq(Types) /\ l2.of = l.of /\ l2.left = Tail(l.left) BY <1>1 DEF Levels
<1>3. Range(Tail(l.left)) \subseteq Range(l.left) /\ t \in Range(l.left)
  <2> PICK q \in Seq(Types) : q = l.left BY <1>2
  <2>1. q # << >> /\ Len(q) \in Nat \ {0} BY EmptySeq, LenProperties
  <2>2. /\ DOMAIN q = 1 .. Len(q) /\ Head(q) = q[1] /\ Tail(q) \in Seq(Types)
        /\ Len(Tail(q)) = Len(q) - 1 /\ \A i \in 1 .. Len(Tail(q)) : Tail(q)[i] = q[i + 1]
    BY <2>1, HeadTailProperties
  <2>3. DOMAIN Tail(q) = 1 .. Len(q) - 1 BY <2>2
  <2>4. ASSUME NEW x \in Range(Tail(q)) PROVE x \in Range(q)
    <3>1. PICK i \in 1 .. Len(q) - 1 : x = Tail(q)[i] BY <2>3, <2>4 DEF Range
    <3>2. x = q[i + 1] /\ i + 1 \in DOMAIN q BY <2>1, <2>2, <3>1
    <3> QED BY <3>2 DEF Range
  <2>5. Head(q) \in Range(q)
    <3>1. 1 \in DOMAIN q BY <2>1, <2>2
    <3> QED BY <2>2, <3>1 DEF Range
  <2> QED BY <2>4, <2>5
<1>4. /\ n \in Nat \ {0} /\ l = T[n] /\ Len(rest) = n /\ rest[n] = l2
      /\ \A i \in 1 .. n - 1 : rest[i] = T[i]
  <2>1. IsStack(T) BY StackOf
  <2>2. /\ n \in Nat \ {0} /\ IsStack(Front(T)) /\ Len(Front(T)) = n - 1 /\ Last(T) = T[n]
        /\ \A i \in 1 .. n - 1 : Front(T)[i] = T[i]
    BY <2>1, Shortened
  <2>3. n = Len(Front(T)) + 1 BY <2>2
  <2>4. Len(rest) = n /\ rest[n] = l2 /\ \A i \in 1 .. n - 1 : rest[i] = Front(T)[i]
    BY <2>2, <2>3, Lengthened
  <2> QED BY <2>2, <2>4
<1>5. ASSUME NEW i \in 1 .. n
      PROVE  rest[i].of = T[i].of /\ Range(rest[i].left) \subseteq Range(T[i].left)
  <2>1. CASE i = n BY <1>2, <1>3, <1>4, <2>1
  <2>2. CASE i # n
    <3>1. i \in 1 .. n - 1 BY <1>4, <2>2
    <3> QED BY <1>4, <3>1
  <2> QED BY <2>1, <2>2
<1>6. Levelled(root, rest, seen)
  <2>1. n \in Nat /\ n <= Len(T) /\ Len(T) \in Nat /\ Len(rest) = n BY <1>4
  <2> QED BY <1>5, <2>1, LevelledAs
<1>7. t \in Range(Parts[rest[n].of])
  <2>1. n \in 1 .. n BY <1>4
  <2>2. LevelRight(root, T[n], seen) BY <2>1 DEF Levelled
  <2>3. Range(l.left) \subseteq Range(Parts[l.of]) BY <1>4, <2>2 DEF LevelRight
  <2> QED BY <1>2, <1>3, <1>4, <2>3
<1>8. Len(into) = n + 1
  <2>1. IsStack(rest) BY <1>1, StackOf
  <2>2. Len(into) = Len(rest) + 1 BY <2>1, Lengthened
  <2> QED BY <1>4, <2>2
<1>9. ASSUME Kind[t] = "list" PROVE Levelled(root, into, seen)
  <2>1. Composed(t) /\ ~ IsStruct(t) BY <1>9 DEF Composed, IsStruct
  <2> QED BY <1>1, <1>4, <1>6, <1>7, <2>1, LevelDeeper
<1>10. ASSUME IsStruct(t), t \notin seen PROVE Levelled(root, into, seen \cup {t})
  <2> PICK seen2 : seen2 = seen \cup {t} OBVIOUS
  <2>1. Composed(t) /\ t \in seen2 BY <1>10 DEF Composed
  <2>2. Levelled(root, rest, seen2) BY <1>6, SeenMore
  <2>3. ASSUME NEW i \in 1 .. n PROVE rest[i].of # t
    <3>1. LevelRight(root, rest[i], seen) BY <1>4, <1>6 DEF Levelled
    <3> QED BY <1>10, <3>1 DEF LevelRight
  <2> QED BY <1>1, <1>4, <1>7, <1>10, <2>1, <2>2, <2>3, LevelDeeper
<1> QED BY <1>6, <1>8, <1>9, <1>10 DEF VisitKeeps

\* A call that returns.
LEMMA LevelLeft ==
  ASSUME NEW root, NEW T \in Seq(Levels), T # << >>, NEW seen, Levelled(root, T, seen)
  PROVE  Levelled(root, Front(T), seen)
<1> PICK n : n = Len(T) OBVIOUS
<1>1. IsStack(T) BY StackOf
<1>2. n \in Nat \ {0} /\ Len(Front(T)) = n - 1 /\ \A i \in 1 .. n - 1 : Front(T)[i] = T[i]
  BY <1>1, Shortened
<1> PICK m : m = n - 1 OBVIOUS
<1>3. m \in Nat /\ m <= Len(T) /\ Len(T) \in Nat /\ Len(Front(T)) = m BY <1>2
<1>4. \A i \in 1 .. m : /\ Front(T)[i].of = T[i].of
                        /\ Range(Front(T)[i].left) \subseteq Range(T[i].left)
  BY <1>2
<1> QED BY <1>3, <1>4, LevelledAs

LEMMA LevelFirst ==
  ASSUME NEW root \in Types, IsStruct(root)
  PROVE  <<Level(root)>> \in Seq(Levels) /\ Levelled(root, <<Level(root)>>, {root})
<1> PICK T : T = <<Level(root)>> OBVIOUS
<1>1. Level(root).of = root /\ Level(root).left = Parts[root] BY DEF Level
<1>2. Level(root) \in Levels
  <2>1. Parts[root] \in Seq(Types) BY PartsTyped
  <2> QED BY <2>1 DEF Level, Levels
<1>3. T \in Seq(Levels) /\ Len(T) = 1 /\ T[1] = Level(root) BY <1>2
<1>4. LevelRight(root, Level(root), {root}) BY <1>1, ReachesItself DEF LevelRight, Composed
<1>5. ASSUME NEW i \in 1 .. 1 PROVE LevelRight(root, T[i], {root}) /\ i + 1 .. 1 = {}
  <2>1. i = 1 OBVIOUS
  <2> QED BY <1>3, <1>4, <2>1
<1> QED BY <1>3, <1>5 DEF Levelled

\* Elements that stand for different types are no more than the types.
LEMMA NoMoreThan ==
  ASSUME NEW S, IsFiniteSet(S), NEW n \in Nat, NEW D \in SUBSET (1 .. n), NEW at \in [D -> S],
         \A i, j \in D : i < j => at[i] # at[j]
  PROVE  IsFiniteSet(D) /\ Cardinality(D) <= Cardinality(S)
<1>1. IsFiniteSet(1 .. n)
  <2>1. 1 \in Int /\ n \in Int OBVIOUS
  <2> QED BY <2>1, FS_Interval
<1>2. IsFiniteSet(D) BY <1>1, FS_Subset
<1>3. ASSUME Cardinality(S) < Cardinality(D) PROVE FALSE
  <2>1. PICK i, j \in D : i # j /\ at[i] = at[j] BY <1>2, <1>3, FS_PigeonHole
  <2>2. i < j \/ j < i BY <2>1
  <2> QED BY <2>1, <2>2
<1>4. Cardinality(D) \in Nat /\ Cardinality(S) \in Nat BY <1>2, FS_CardinalityType
<1> QED BY <1>2, <1>3, <1>4

\* A walk that finds no list within itself has room for all its calls: at most
\* one for every struct and two for every list.
LEMMA WalkRoom ==
  ASSUME Roomy, NEW root \in Types, NEW T \in Seq(Levels), NEW seen, Levelled(root, T, seen),
         \A x \in Reach[root] : ~ InElement(x)
  PROVE  Len(T) + 3 <= MaxDepth
<1> PICK n \in Nat : n = Len(T) BY LenProperties
<1> PICK composed : composed = {t \in Types : Composed(t)} OBVIOUS
<1> PICK lists : lists = {t \in Types : Kind[t] = "list"} OBVIOUS
<1> DEFINE Again(i) == \E k \in i + 1 .. n : T[k].of = Inside[T[i].of] /\ IsStruct(T[k].of)
           B == {i \in 1 .. n : Kind[T[i].of] = "list" /\ ~ Again(i)}
           A == (1 .. n) \ B
<1>1. ASSUME NEW i \in 1 .. n
      PROVE  /\ T[i].of \in composed /\ T[i].of \in Reach[root]
             /\ Kind[T[i].of] = "list" \/ IsStruct(T[i].of)
  <2>1. LevelRight(root, T[i], seen) BY DEF Levelled
  <2>2. T[i].of \in Types BY <2>1, ReachesItself DEF LevelRight
  <2> QED BY <2>1, <2>2 DEF LevelRight, Composed
<1>2. ASSUME NEW i \in 1 .. n, NEW j \in 1 .. n, i < j, T[i].of = T[j].of,
             Kind[T[i].of] = "list"
      PROVE  \E k \in i + 1 .. j : T[k].of = Inside[T[i].of] /\ IsStruct(T[k].of)
  <2> PICK x : x = T[i].of OBVIOUS
  <2>1. j \in i + 1 .. n BY <1>2
  <2>2. Onward(T, i, j) BY <1>2, <2>1 DEF Levelled, Ordered
  <2>3. ~ OnList(x, x)
    <3>1. ~ InElement(x) BY <1>1
    <3> QED BY <3>1 DEF OnList, Under, InElement, ReachElement
  <2> QED BY <1>2, <2>2, <2>3 DEF Onward
<1>3. ASSUME NEW i \in A, NEW j \in A, i < j PROVE T[i].of # T[j].of
  <2>1. i \in 1 .. n /\ j \in 1 .. n /\ j \in i + 1 .. n BY <1>3
  <2>2. Ordered(T, i, j) BY <2>1 DEF Levelled
  <2>3. CASE IsStruct(T[i].of) BY <2>2, <2>3 DEF Ordered
  <2>4. CASE Kind[T[i].of] = "list" /\ T[i].of = T[j].of
    <3>1. PICK k \in i + 1 .. j : T[k].of = Inside[T[i].of] /\ IsStruct(T[k].of)
      BY <1>2, <1>3, <2>1, <2>4
    <3>2. PICK m \in j + 1 .. n : T[m].of = Inside[T[j].of] /\ IsStruct(T[m].of)
      BY <2>1, <2>4
    <3>3. k \in 1 .. n /\ m \in k + 1 .. n BY <2>1
    <3>4. Ordered(T, k, m) BY <3>3 DEF Levelled
    <3> QED BY <2>4, <3>1, <3>2, <3>4 DEF Ordered
  <2> QED BY <1>1, <2>1, <2>3, <2>4
<1>4. ASSUME NEW i \in B, NEW j \in B, i < j PROVE T[i].of # T[j].of
  <2>1. i \in 1 .. n /\ j \in 1 .. n /\ Kind[T[i].of] = "list" /\ ~ Again(i) OBVIOUS
  <2>2. ASSUME T[i].of = T[j].of PROVE FALSE
    <3>1. PICK k \in i + 1 .. j : T[k].of = Inside[T[i].of] /\ IsStruct(T[k].of)
      BY <1>2, <1>4, <2>1, <2>2
    <3>2. k \in i + 1 .. n BY <2>1
    <3> QED BY <2>1, <3>1, <3>2
  <2> QED BY <2>2
<1>5. /\ A \in SUBSET (1 .. n) /\ B \in SUBSET (1 .. n)
      /\ \A i \in B : i \in 1 .. n /\ Kind[T[i].of] = "list"
  OBVIOUS
<1>6. A = (1 .. n) \ B OBVIOUS
<1> HIDE DEF A, B, Again
<1>7. IsFiniteSet(composed) /\ Cardinality(composed) + Cardinality(lists) + 3 <= MaxDepth
      /\ IsFiniteSet(lists)
  <2>1. IsFiniteSet(composed) /\ Cardinality(composed) + Cardinality(lists) + 3 <= MaxDepth
    BY DEF Roomy
  <2>2. lists \in SUBSET composed BY DEF Composed
  <2> QED BY <2>1, <2>2, FS_Subset
<1>8. Cardinality(A) <= Cardinality(composed)
  <2> PICK at : at = [i \in A |-> T[i].of] OBVIOUS
  <2>1. at \in [A -> composed] BY <1>1, <1>5
  <2>2. \A i, j \in A : i < j => at[i] # at[j] BY <1>3
  <2>3. n \in Nat /\ A \in SUBSET (1 .. n) /\ IsFiniteSet(composed) BY <1>5, <1>7
  <2> QED BY ONLY <2>1, <2>2, <2>3, NoMoreThan
<1>9. Cardinality(B) <= Cardinality(lists) /\ IsFiniteSet(B)
  <2> PICK at : at = [i \in B |-> T[i].of] OBVIOUS
  <2>1. at \in [B -> lists] BY <1>1, <1>5 DEF Composed
  <2>2. \A i, j \in B : i < j => at[i] # at[j] BY <1>4
  <2>3. n \in Nat /\ B \in SUBSET (1 .. n) /\ IsFiniteSet(lists) BY <1>5, <1>7
  <2> QED BY ONLY <2>1, <2>2, <2>3, NoMoreThan
<1>10. Cardinality(A) = n - Cardinality(B)
  <2>1. IsFiniteSet(1 .. n) /\ Cardinality(1 .. n) = n
    <3>1. 1 \in Int /\ n \in Int /\ (IF 1 > n THEN 0 ELSE n - 1 + 1) = n OBVIOUS
    <3> QED BY <3>1, FS_Interval
  <2> PICK P : P = 1 .. n OBVIOUS
  <2>2. IsFiniteSet(P) /\ Cardinality(P) = n /\ P \cap B = B /\ A = P \ B BY <1>5, <1>6, <2>1
  <2>3. Cardinality(P \ B) = Cardinality(P) - Cardinality(P \cap B) BY ONLY <2>2, FS_Difference
  <2> QED BY <2>2, <2>3
<1>11. /\ Cardinality(B) \in Nat /\ Cardinality(composed) \in Nat /\ Cardinality(lists) \in Nat
       /\ MaxDepth \in Nat
  BY <1>7, <1>9, FS_CardinalityType, TypesAssumption
<1> QED BY <1>7, <1>8, <1>9, <1>10, <1>11
-----------------------------------------------------------------------------
(* The frames of a call.                                                   *)

\* Frame i is one of those of a computation that calls itself, each of a type that
\* the ones below it get to.
Nested(s, c, i) ==
  /\ Filters(s[1].type) /\ s[i].type \in Reached(Steps(c))[s[1].type]
  /\ \A j \in 2 .. i - 1 : /\ s[j].cache = c /\ Composed(s[j].type)
                           /\ s[i].type \in Under(Steps(c), s[j].type)

Placed(s, i) ==
  /\ (s[i].cache \in {"unmarshal", "marshal"} <=> i = 1)
  /\ s[i].cache \in {"eligible", "direct"} => i = 2
  /\ s[i].cache = "eligible" =>
       s[i].type = s[1].type /\ Levelled(s[i].type, s[i].todo, s[i].seen)
  /\ s[i].cache \in {"filter", "recycle"} => Nested(s, s[i].cache, i)

Piled(s) == Len(s) <= MaxDepth /\ \A i \in 1 .. Len(s) : Placed(s, i)

PilesRight == \A p \in Callers : Piled(stack[p])

\* The types of a caller's frames.
TypedFrames(s) == \A i \in 1 .. Len(s) : s[i].cache # "zone" => s[i].type \in Types

LEMMA PlacedAs ==
  ASSUME NEW s, NEW t, NEW i \in Nat \ {0}, Placed(s, i), \A j \in 1 .. i : t[j] = s[j]
  PROVE  Placed(t, i)
<1>1. i \in 1 .. i /\ 1 \in 1 .. i /\ \A j \in 2 .. i - 1 : j \in 1 .. i OBVIOUS
<1>2. t[i] = s[i] /\ t[1] = s[1] /\ \A j \in 2 .. i - 1 : t[j] = s[j] BY <1>1
<1>3. ASSUME NEW c, Nested(s, c, i) PROVE Nested(t, c, i) BY <1>2, <1>3 DEF Nested
<1> QED BY <1>2, <1>3 DEF Placed

\* The innermost frame goes on.
LEMMA PileGoesOn ==
  ASSUME NEW s, IsStack(s), s # << >>, Piled(s), NEW f, f = Last(s), NEW g, Continues(f, g),
         f.cache = "eligible" => Levelled(f.type, g.todo, g.seen)
  PROVE  Piled(Append(Front(s), g)) /\ Head(Append(Front(s), g)).type = Head(s).type
<1> PICK k : k = Len(s) OBVIOUS
<1> PICK t : t = Append(Front(s), g) OBVIOUS
<1>1. /\ k \in Nat \ {0} /\ f = s[k] /\ IsStack(Front(s)) /\ Len(Front(s)) = k - 1
      /\ \A j \in 1 .. k - 1 : Front(s)[j] = s[j]
  BY Shortened
<1>2. IsStack(t) /\ Len(t) = k /\ t[k] = g /\ \A j \in 1 .. k - 1 : t[j] = s[j]
  <2>1. k = Len(Front(s)) + 1 BY <1>1
  <2>2. IsStack(t) /\ Len(t) = k /\ t[k] = g /\ \A j \in 1 .. k - 1 : t[j] = Front(s)[j]
    BY <1>1, <2>1, Lengthened
  <2> QED BY <1>1, <2>2
<1>3. t[1].type = s[1].type
  <2>1. CASE k = 1 BY <1>1, <1>2, <2>1 DEF Continues
  <2>2. CASE k # 1
    <3>1. 1 \in 1 .. k - 1 BY <1>1, <2>2
    <3> QED BY <1>2, <3>1
  <2> QED BY <2>1, <2>2
<1>4. ASSUME NEW i \in 1 .. k PROVE Placed(t, i)
  <2>1. Placed(s, i) BY DEF Piled
  <2>2. CASE i # k
    <3>1. i \in Nat \ {0} /\ \A j \in 1 .. i : j \in 1 .. k - 1 BY <1>1, <2>2
    <3> QED BY <1>2, <2>1, <3>1, PlacedAs
  <2>3. CASE i = k
    <3>1. t[i] = g /\ s[i] = f BY <1>1, <1>2, <2>3
    <3>2. \A j \in 2 .. k - 1 : t[j] = s[j] BY <1>1, <1>2
    <3>3. ASSUME NEW c, Nested(s, c, i) PROVE Nested(t, c, i)
      BY <1>3, <2>3, <3>1, <3>2, <3>3 DEF Nested, Continues
    <3> QED BY <1>3, <2>1, <3>1, <3>3 DEF Placed, Continues
  <2> QED BY <2>2, <2>3
<1>5. Head(t) = t[1] /\ Head(s) = s[1]
  <2>1. t # << >>
    <3>1. Len(<< >>) = 0 BY EmptySeq
    <3> QED BY <1>1, <1>2, <3>1
  <2> QED BY <1>2, <2>1, HeadTailProperties DEF IsStack
<1> QED BY <1>2, <1>3, <1>4, <1>5 DEF Piled

LEMMA PileLower ==
  ASSUME NEW s, IsStack(s), s # << >>, Piled(s)
  PROVE  Piled(Front(s))
<1> PICK k : k = Len(s) OBVIOUS
<1> PICK t : t = Front(s) OBVIOUS
<1>1. k \in Nat \ {0} /\ Len(t) = k - 1 /\ \A j \in 1 .. k - 1 : t[j] = s[j] BY Shortened
<1>2. MaxDepth \in Nat /\ k <= MaxDepth BY TypesAssumption DEF Piled
<1>3. Len(t) <= MaxDepth BY <1>1, <1>2
<1>4. ASSUME NEW i \in 1 .. k - 1 PROVE Placed(t, i)
  <2>1. i \in 1 .. k /\ i \in Nat \ {0} /\ \A j \in 1 .. i : j \in 1 .. k - 1 BY <1>1
  <2>2. Placed(s, i) BY <2>1 DEF Piled
  <2> QED BY <1>1, <2>1, <2>2, PlacedAs
<1> QED BY <1>1, <1>3, <1>4 DEF Piled

LEMMA ReplacedFrame ==
  ASSUME NEW s, IsStack(s), s # << >>, TypedFrames(s), NEW f, f = Last(s),
         NEW g, Continues(f, g), NEW t, t = Append(Front(s), g)
  PROVE  IsStack(t) /\ t # << >> /\ Len(t) = Len(s) /\ Last(t) = g /\ TypedFrames(t)
<1> PICK k : k = Len(s) OBVIOUS
<1>1. /\ k \in Nat \ {0} /\ f = s[k] /\ IsStack(Front(s)) /\ Len(Front(s)) = k - 1
      /\ \A j \in 1 .. k - 1 : Front(s)[j] = s[j]
  BY Shortened
<1>2. IsStack(t) /\ Len(t) = k /\ t[k] = g /\ \A j \in 1 .. k - 1 : t[j] = s[j]
  <2>1. k = Len(Front(s)) + 1 BY <1>1
  <2>2. IsStack(t) /\ Len(t) = k /\ t[k] = g /\ \A j \in 1 .. k - 1 : t[j] = Front(s)[j]
    BY <1>1, <2>1, Lengthened
  <2> QED BY <1>1, <2>2
<1>3. ASSUME NEW i \in 1 .. k, t[i].cache # "zone" PROVE t[i].type \in Types
  <2>1. CASE i = k
    <3>1. s[k].cache # "zone" /\ k \in 1 .. k BY <1>1, <1>2, <1>3, <2>1 DEF Continues
    <3>2. s[k].type \in Types BY <3>1 DEF TypedFrames
    <3> QED BY <1>1, <1>2, <2>1, <3>2 DEF Continues
  <2>2. CASE i # k
    <3>1. i \in 1 .. k - 1 BY <1>1, <2>2
    <3> QED BY <1>2, <1>3, <3>1 DEF TypedFrames
  <2> QED BY <2>1, <2>2
<1>4. t # << >>
  <2>1. Len(<< >>) = 0 BY EmptySeq
  <2> QED BY <1>1, <1>2, <2>1
<1> QED BY <1>2, <1>3, <1>4 DEF TypedFrames, Last

\* f may be waiting for h.
Demands(f, h) ==
  /\ h.cache \in Caches \cup {"recycle"}
  /\ h.cache \in {"eligible", "direct"} => f.cache = "unmarshal"
  /\ h.cache = "eligible" => IsStruct(f.type) /\ h.type = f.type /\ h.todo = << >>
  /\ h.cache \in {"filter", "recycle"} =>
       \/ f.cache = "unmarshal" /\ Filters(f.type) /\ h.type = f.type
       \/ f.cache = h.cache /\ Composed(f.type) /\ h.type \in Steps(h.cache)[f.type]

LEMMA PileHigher ==
  ASSUME NEW s, IsStack(s), s # << >>, Piled(s), TypedFrames(s), Len(s) < MaxDepth,
         NEW f, f = Last(s), NEW h, Demands(f, h)
  PROVE  Piled(Append(s, h))
<1> PICK k : k = Len(s) OBVIOUS
<1> PICK t : t = Append(s, h) OBVIOUS
<1>1. k \in Nat \ {0} /\ f = s[k] BY Shortened
<1>2. Len(t) = k + 1 /\ t[k + 1] = h /\ \A j \in 1 .. k : t[j] = s[j]
  <2> PICK m : m = k + 1 OBVIOUS
  <2>1. Len(t) = m /\ t[m] = h /\ \A j \in 1 .. m - 1 : t[j] = s[j] BY Lengthened
  <2>2. m - 1 = k BY <1>1
  <2> QED BY <2>1, <2>2
<1>3. Len(t) <= MaxDepth
  <2>1. MaxDepth \in Nat BY TypesAssumption
  <2> QED BY <1>1, <1>2, <2>1
<1>4. 1 \in 1 .. k /\ k \in 1 .. k /\ (k + 1) - 1 = k BY <1>1
<1>5. Placed(s, 1) /\ Placed(s, k) BY <1>4 DEF Piled
<1>6. /\ s[1].cache \in {"unmarshal", "marshal"} /\ s[1].type \in Types /\ t[1] = s[1]
      /\ (f.cache = "unmarshal" => k = 1)
  <2>1. s[1].cache \in {"unmarshal", "marshal"} BY <1>5 DEF Placed
  <2>2. s[1].type \in Types BY <1>4, <2>1 DEF TypedFrames
  <2>3. f.cache = "unmarshal" => k = 1 BY <1>1, <1>5 DEF Placed
  <2> QED BY <1>2, <1>4, <2>1, <2>2, <2>3
<1>7. /\ h.cache \notin {"unmarshal", "marshal"} /\ k + 1 # 1
      /\ (h.cache \in {"eligible", "direct"} => k + 1 = 2)
      /\ (h.cache = "eligible" => h.type = t[1].type /\ Levelled(h.type, h.todo, h.seen))
  <2>1. h.cache \notin {"unmarshal", "marshal"} BY DEF Demands, Caches
  <2>2. h.cache \in {"eligible", "direct"} => k = 1 BY <1>6 DEF Demands
  <2>3. ASSUME h.cache = "eligible" PROVE h.type = t[1].type /\ Levelled(h.type, h.todo, h.seen)
    <3>1. h.todo = << >> /\ h.type = f.type /\ k = 1 BY <2>2, <2>3 DEF Demands
    <3>2. Len(h.todo) = 0 BY <3>1, EmptySeq
    <3>3. 1 .. 0 = {} OBVIOUS
    <3>4. Levelled(h.type, h.todo, h.seen) BY <3>2, <3>3 DEF Levelled
    <3> QED BY <1>1, <1>6, <3>1, <3>4
  <2> QED BY <1>1, <2>1, <2>2, <2>3
<1>8. ASSUME h.cache \in {"filter", "recycle"} PROVE Nested(t, h.cache, k + 1)
  <2> PICK next : next = Steps(h.cache) OBVIOUS
  <2>1. next \in [Types -> SUBSET Types] BY StepsAre
  <2>2. CASE f.cache = "unmarshal" /\ Filters(f.type) /\ h.type = f.type
    <3>1. k = 1 /\ f = s[1] BY <1>1, <1>6, <2>2
    <3>2. h.type \in Reached(next)[s[1].type] BY <1>6, <2>2, <3>1, ReachedItself
    <3>3. 2 .. (k + 1) - 1 = {} BY <3>1
    <3>4. Filters(t[1].type) /\ t[k + 1].type \in Reached(next)[t[1].type]
      BY <1>2, <1>6, <2>2, <3>1, <3>2
    <3> QED BY <3>3, <3>4 DEF Nested
  <2>3. CASE f.cache = h.cache /\ Composed(f.type) /\ h.type \in next[f.type]
    <3>1. Nested(s, h.cache, k) /\ f.type \in Types
      <4>1. Nested(s, h.cache, k) BY <1>1, <1>5, <1>8, <2>3 DEF Placed
      <4>2. f.type \in Types BY <1>1, <1>4, <1>8, <2>3 DEF TypedFrames
      <4> QED BY <4>1, <4>2
    <3>2. h.type \in Under(next, f.type) /\ h.type \in Types /\ h.type \in Reached(next)[f.type]
      BY <2>1, <2>3, <3>1, UnderStep
    <3>3. h.type \in Reached(next)[s[1].type]
      <4>1. f.type \in Reached(next)[s[1].type] BY <1>1, <3>1 DEF Nested
      <4> QED BY <1>6, <2>1, <3>2, <4>1, ReachedFurther
    <3>4. ASSUME NEW j \in 2 .. k
          PROVE  t[j].cache = h.cache /\ Composed(t[j].type) /\ h.type \in Under(next, t[j].type)
      <4>1. j \in 1 .. k BY <1>1
      <4>2. t[j] = s[j] BY <1>2, <4>1
      <4>3. CASE j = k BY <1>1, <2>3, <3>2, <4>2, <4>3
      <4>4. CASE j # k
        <5>1. j \in 2 .. k - 1 BY <1>1, <4>4
        <5>2. s[j].cache = h.cache /\ Composed(s[j].type) /\ f.type \in Under(next, s[j].type)
          BY <1>1, <3>1, <5>1 DEF Nested
        <5>3. s[j].type \in Types BY <1>8, <4>1, <5>2 DEF TypedFrames
        <5>4. h.type \in Under(next, s[j].type) BY <2>1, <3>2, <5>2, <5>3, UnderFurther
        <5> QED BY <4>2, <5>2, <5>4
      <4> QED BY <4>3, <4>4
    <3>5. Filters(t[1].type) /\ t[k + 1].type \in Reached(next)[t[1].type]
      BY <1>2, <1>6, <3>1, <3>3 DEF Nested
    <3> QED BY <1>2, <1>4, <3>4, <3>5 DEF Nested
  <2> QED BY <1>8, <2>2, <2>3 DEF Demands
<1>9. ASSUME NEW i \in 1 .. k + 1 PROVE Placed(t, i)
  <2>1. CASE i = k + 1 BY <1>2, <1>7, <1>8, <2>1 DEF Placed
  <2>2. CASE i # k + 1
    <3>1. i \in 1 .. k /\ i \in Nat \ {0} /\ \A j \in 1 .. i : j \in 1 .. k BY <1>1, <2>2
    <3>2. Placed(s, i) BY <3>1 DEF Piled
    <3> QED BY <1>2, <3>1, <3>2, PlacedAs
  <2> QED BY <2>1, <2>2
<1> QED BY <1>2, <1>3, <1>9 DEF Piled

\* Whoever is out of stack looks into a type within itself.
LEMMA OutOfStack ==
  ASSUME Roomy, NEW s, IsStack(s), s # << >>, Piled(s), TypedFrames(s), NEW f, f = Last(s),
         f.cache \in {"unmarshal", "marshal", "eligible", "direct", "filter", "recycle"},
         f.todo \in Seq(Levels), f.cache # "eligible" => f.todo = << >>,
         f.cache \in {"filter", "recycle"} => Composed(f.type),
         ~ Len(s) + Len(f.todo) < MaxDepth
  PROVE  Endless(Head(s).type)
<1> PICK k : k = Len(s) OBVIOUS
<1> PICK n \in Nat : n = Len(f.todo) BY LenProperties
<1> PICK composed : composed = {t \in Types : Composed(t)} OBVIOUS
<1>1. k \in Nat \ {0} /\ f = s[k] /\ Head(s) = s[1] BY Shortened, HeadTailProperties DEF IsStack
<1>2. MaxDepth \in Nat \ {0, 1, 2} /\ k <= MaxDepth BY TypesAssumption DEF Piled
<1>3. f.cache # "eligible" => n = 0 /\ k = MaxDepth
  <2>1. f.cache # "eligible" => n = 0 BY EmptySeq
  <2> QED BY <1>1, <1>2, <2>1
<1>4. 1 \in 1 .. k /\ k \in 1 .. k /\ Placed(s, k) /\ s[1].type \in Types
  <2>1. 1 \in 1 .. k /\ k \in 1 .. k BY <1>1
  <2>2. Placed(s, k) /\ Placed(s, 1) BY <2>1 DEF Piled
  <2>3. s[1].cache \in {"unmarshal", "marshal"} BY <2>2 DEF Placed
  <2>4. s[1].type \in Types BY <2>1, <2>3 DEF TypedFrames
  <2> QED BY <2>1, <2>2, <2>4
<1>5. f.cache \notin {"unmarshal", "marshal", "direct"}
  <2>1. f.cache \in {"unmarshal", "marshal"} => k = 1 BY <1>1, <1>4 DEF Placed
  <2>2. f.cache = "direct" => k = 2 BY <1>1, <1>4 DEF Placed
  <2> QED BY <1>2, <1>3, <2>1, <2>2
<1>6. CASE f.cache = "eligible"
  <2>1. k = 2 /\ f.type = s[1].type /\ Levelled(f.type, f.todo, f.seen)
    BY <1>1, <1>4, <1>6 DEF Placed
  <2>2. ~ n + 3 <= MaxDepth BY <1>2, <2>1
  <2>3. \E x \in Reach[f.type] : InElement(x) BY <1>4, <2>1, <2>2, WalkRoom
  <2> QED BY <1>1, <2>1, <2>3 DEF Endless
<1>7. CASE f.cache \in {"filter", "recycle"}
  <2> PICK c : c = f.cache OBVIOUS
  <2> PICK next : next = Steps(c) OBVIOUS
  <2>1. Nested(s, c, k) BY <1>1, <1>4, <1>7 DEF Placed
  <2>2. ASSUME NEW i \in 2 .. k PROVE s[i].cache = c /\ s[i].type \in composed
    <3>1. s[i].cache = c /\ Composed(s[i].type)
      <4>1. CASE i = k BY <1>1, <1>7, <4>1
      <4>2. CASE i # k
        <5>1. i \in 2 .. k - 1 BY <1>1, <4>2
        <5> QED BY <2>1, <5>1 DEF Nested
      <4> QED BY <4>1, <4>2
    <3>2. i \in 1 .. k BY <1>1
    <3>3. s[i].type \in Types BY <1>7, <3>1, <3>2 DEF TypedFrames
    <3> QED BY <3>1, <3>3
  <2>3. \E i, j \in 2 .. k : i < j /\ s[i].type = s[j].type
    <3> PICK at : at = [i \in 2 .. k |-> s[i].type] OBVIOUS
    <3> PICK P : P = 2 .. k OBVIOUS
    <3>1. at \in [P -> composed] BY <2>2
    <3>2. k = MaxDepth BY <1>3, <1>7
    <3>3. IsFiniteSet(P) /\ Cardinality(P) = k - 1
      <4>1. 2 \in Int /\ k \in Int /\ ~ 2 > k /\ k - 2 + 1 = k - 1 BY <1>1, <1>2, <3>2
      <4> QED BY <4>1, FS_Interval
    <3>4. IsFiniteSet(composed) /\ Cardinality(composed) < Cardinality(P)
      <4> PICK lists : lists = {t \in Types : Kind[t] = "list"} OBVIOUS
      <4>1. IsFiniteSet(composed) /\ Cardinality(composed) + Cardinality(lists) + 3 <= MaxDepth
        BY DEF Roomy
      <4>2. lists \in SUBSET composed BY DEF Composed
      <4>3. Cardinality(composed) \in Nat /\ Cardinality(lists) \in Nat
        BY <4>1, <4>2, FS_Subset, FS_CardinalityType
      <4> QED BY <1>1, <3>2, <3>3, <4>1, <4>3
    <3>5. \E x, y \in P : x # y /\ at[x] = at[y] BY ONLY <3>1, <3>3, <3>4, FS_PigeonHole
    <3>6. PICK x, y \in P : x # y /\ at[x] = at[y] BY <3>5
    <3>7. s[x].type = s[y].type BY <3>6
    <3>8. x < y \/ y < x BY <3>6, <1>1
    <3> QED BY <3>7, <3>8
  <2>4. PICK i, j \in 2 .. k : i < j /\ s[i].type = s[j].type BY <2>3
  <2> PICK x : x = s[i].type OBVIOUS
  <2>5. x \in Under(next, x) /\ Filters(s[1].type) /\ x \in Reached(next)[s[1].type]
    <3>1. j \in 1 .. k /\ i \in 2 .. j - 1 BY <1>1, <2>4
    <3>2. Placed(s, j) /\ s[j].cache = c BY <2>2, <3>1 DEF Piled
    <3>3. Nested(s, c, j) BY <1>7, <3>2 DEF Placed
    <3> QED BY <2>4, <3>1, <3>3 DEF Nested
  <2>6. CASE c = "filter"
    <3>1. next = ByPart BY <2>6 DEF Steps
    <3>2. InPart(x) /\ x \in Reach[s[1].type] BY <2>5, <3>1 DEF InPart, Under, Reach
    <3> QED BY <1>1, <2>5, <3>2 DEF Endless, Filters
  <2>7. CASE c = "recycle"
    <3>1. next = ByExported BY <2>7 DEF Steps
    <3>2. InExported(x) /\ x \in ReachExported[s[1].type]
      BY <2>5, <3>1 DEF InExported, Under, ReachExported
    <3> QED BY <1>1, <2>5, <3>2 DEF Endless, Filters
  <2> QED BY <1>7, <2>6, <2>7
<1> QED BY <1>5, <1>6, <1>7
-----------------------------------------------------------------------------
(* What the steps do to the frames.                                        *)

LEMMA TypedStacks == ASSUME IInv, NEW p \in Callers PROVE IsStack(stack[p]) /\ TypedFrames(stack[p])
BY DEF IInv, Chains, Chained, FrameSound, TypedFrames

\* A step of one caller that leaves the others alone and does not crash.
LEMMA OnePile ==
  ASSUME PilesRight, ~ crashed', NEW p \in Callers, DOMAIN stack = Callers,
         \A q \in Callers : q # p => stack'[q] = stack[q], Piled(stack'[p])
  PROVE  PilesRight' /\ OverflowOnlyEndless'
BY DEF PilesRight, OverflowOnlyEndless

\* The innermost frame of a caller and where its walk is.
LEMMA PileTop ==
  ASSUME IInv, PilesRight, NEW p \in Callers, Busy(p), NEW f, f = Top(p)
  PROVE  /\ IsStack(stack[p]) /\ stack[p] # << >> /\ f = Last(stack[p]) /\ Piled(stack[p])
         /\ TypedFrames(stack[p]) /\ DOMAIN stack = Callers /\ FrameSound(table, f)
         /\ f.cache = "eligible" => Levelled(f.type, f.todo, f.seen)
<1>1. /\ IsStack(stack[p]) /\ stack[p] # << >> /\ f = Last(stack[p]) /\ Piled(stack[p])
      /\ TypedFrames(stack[p]) /\ DOMAIN stack = Callers /\ FrameSound(table, f)
  BY TopSound, TypedStacks DEF PilesRight
<1> PICK k : k = Len(stack[p]) OBVIOUS
<1>2. k \in Nat \ {0} /\ f = stack[p][k] BY <1>1, Shortened
<1>3. k \in 1 .. k BY <1>2
<1>4. Placed(stack[p], k) BY <1>1, <1>3 DEF Piled
<1> QED BY <1>1, <1>2, <1>4 DEF Placed

\* g is f further on, at most one call deeper.
Advances(f, g) ==
  /\ Continues(f, g) /\ g.todo \in Seq(Levels) /\ Len(g.todo) <= Len(f.todo) + 1
  /\ f.cache = "eligible" => Levelled(f.type, g.todo, g.seen)
  /\ f.cache # "eligible" => g.todo = << >>

LEMMA SameLevels ==
  ASSUME IInv, PilesRight, NEW p \in Callers, Busy(p), NEW f, f = Top(p), NEW g,
         g.cache = f.cache, g.type = f.type, g.todo = f.todo, g.seen = f.seen
  PROVE  Advances(f, g)
<1>1. FrameSound(table, f) /\ (f.cache = "eligible" => Levelled(f.type, f.todo, f.seen))
  BY PileTop
<1>2. f.todo \in Seq(Levels) /\ (f.cache # "eligible" => f.todo = << >>) BY <1>1 DEF FrameSound
<1>3. Len(f.todo) \in Nat BY <1>2, LenProperties
<1>4. Len(g.todo) <= Len(f.todo) + 1 BY <1>3
<1> QED BY <1>1, <1>2, <1>4 DEF Advances, Continues

LEMMA BecomingPiled ==
  ASSUME IInv, PilesRight, ~ crashed, NEW p \in Callers, Busy(p), NEW f, f = Top(p),
         NEW g, Advances(f, g), Become(p, g)
  PROVE  PilesRight' /\ OverflowOnlyEndless'
<1>1. /\ IsStack(stack[p]) /\ stack[p] # << >> /\ f = Last(stack[p]) /\ Piled(stack[p])
      /\ DOMAIN stack = Callers
  BY PileTop
<1>2. stack' = [stack EXCEPT ![p] = Append(Front(@), g)] /\ ~ crashed' BY DEF Become
<1>3. Piled(Append(Front(stack[p]), g)) BY <1>1, PileGoesOn DEF Advances
<1>4. Piled(stack'[p]) /\ \A q \in Callers : q # p => stack'[q] = stack[q] BY <1>1, <1>2, <1>3
<1> QED BY <1>1, <1>2, <1>4, OnePile

\* The frames that make calls.
Deepens(f) ==
  /\ f.cache \in {"unmarshal", "marshal", "eligible", "direct", "filter", "recycle"}
  /\ f.cache \in {"filter", "recycle"} => Composed(f.type)

LEMMA CrashingPiled ==
  ASSUME Roomy, IInv, PilesRight, NEW p \in Callers, Busy(p), NEW f, f = Top(p), Deepens(f),
         NEW g, Advances(f, g), ~ Room(p, g), Overflow
  PROVE  PilesRight' /\ OverflowOnlyEndless'
<1> PICK s : s = stack[p] OBVIOUS
<1> PICK t : t = Append(Front(s), g) OBVIOUS
<1>1. /\ IsStack(s) /\ s # << >> /\ f = Last(s) /\ Piled(s) /\ TypedFrames(s)
      /\ DOMAIN stack = Callers /\ FrameSound(table, f)
  BY PileTop
<1>2. Continues(f, g) /\ g.todo \in Seq(Levels) /\ (f.cache # "eligible" => g.todo = << >>)
      /\ (f.cache = "eligible" => Levelled(f.type, g.todo, g.seen))
      /\ Len(g.todo) <= Len(f.todo) + 1
  BY DEF Advances
<1>3. IsStack(t) /\ t # << >> /\ Len(t) = Len(s) /\ Last(t) = g /\ TypedFrames(t)
  <2>1. IsStack(s) /\ s # << >> /\ TypedFrames(s) /\ f = Last(s) /\ Continues(f, g)
        /\ t = Append(Front(s), g)
    BY <1>1, <1>2
  <2> QED BY ONLY <2>1, ReplacedFrame
<1>4. Piled(t) /\ Head(t).type = Head(s).type BY <1>1, <1>2, PileGoesOn
<1>5. ~ Len(t) + Len(g.todo) < MaxDepth BY <1>3 DEF Room
<1>6. Endless(Head(t).type)
  <2>1. Deepens(g) BY <1>2 DEF Deepens, Continues
  <2>2. g.cache \in {"unmarshal", "marshal", "eligible", "direct", "filter", "recycle"}
        /\ (g.cache \in {"filter", "recycle"} => Composed(g.type)) /\ g = Last(t)
        /\ (g.cache # "eligible" => g.todo = << >>)
    BY <1>2, <1>3, <2>1 DEF Deepens, Continues
  <2> QED BY <1>2, <1>3, <1>4, <1>5, <2>2, OutOfStack
<1>7. Full(p)
  <2>1. f.todo \in Seq(Levels) BY <1>1 DEF FrameSound
  <2>2. Len(s) \in Nat /\ Len(f.todo) \in Nat /\ Len(g.todo) \in Nat /\ MaxDepth \in Nat
    BY <1>1, <1>2, <2>1, LenProperties, TypesAssumption DEF IsStack
  <2> PICK a \in Nat, b \in Nat, c \in Nat, d \in Nat :
         a = Len(s) /\ b = Len(f.todo) /\ c = Len(g.todo) /\ d = MaxDepth
    BY <2>2
  <2>3. c <= b + 1 /\ ~ a + c < d BY <1>2, <1>3, <1>5
  <2>4. a + b + 1 >= d BY ONLY <2>3
  <2>5. Len(stack[p]) + Len(Top(p).todo) + 1 >= MaxDepth BY <2>4
  <2> QED BY <2>5 DEF Full
<1>8. stack' = stack BY DEF Overflow
<1>9. Full(p)' /\ Endless(Head(stack'[p]).type)
  BY <1>4, <1>6, <1>7, <1>8 DEF Full, Busy, Top
<1> QED BY <1>8, <1>9 DEF PilesRight, OverflowOnlyEndless

LEMMA CallingPiled ==
  ASSUME Roomy, IInv, PilesRight, ~ crashed, NEW p \in Callers, Busy(p), NEW f, f = Top(p),
         Deepens(f), NEW g, Advances(f, g), NEW h, Demands(f, h), Call(p, g, h)
  PROVE  PilesRight' /\ OverflowOnlyEndless'
<1> PICK s : s = stack[p] OBVIOUS
<1>1. /\ s # << >> /\ f = Last(s) /\ DOMAIN stack = Callers
      /\ IsStack(s) /\ Piled(s) /\ TypedFrames(s)
  BY PileTop
<1>2. CASE Room(p, g)
  <2>1. stack' = [stack EXCEPT ![p] = Append(Append(Front(@), g), h)] /\ ~ crashed'
    BY <1>2 DEF Call
  <2> PICK t : t = Append(Front(s), g) OBVIOUS
  <2>2. IsStack(t) /\ t # << >> /\ Len(t) = Len(s) /\ Last(t) = g /\ TypedFrames(t)
    <3>1. IsStack(s) /\ s # << >> /\ TypedFrames(s) /\ f = Last(s) /\ Continues(f, g)
          /\ t = Append(Front(s), g)
      BY <1>1 DEF Advances
    <3> QED BY ONLY <3>1, ReplacedFrame
  <2>3. Piled(t) BY <1>1, PileGoesOn DEF Advances
  <2>4. Demands(g, h) BY DEF Demands, Advances, Continues
  <2>5. Len(t) < MaxDepth
    <3>1. Len(s) \in Nat /\ Len(g.todo) \in Nat /\ MaxDepth \in Nat
      BY <1>1, LenProperties, TypesAssumption DEF IsStack, Advances
    <3> PICK a \in Nat, b \in Nat, d \in Nat : a = Len(s) /\ b = Len(g.todo) /\ d = MaxDepth
      BY <3>1
    <3>2. a + b < d BY <1>2 DEF Room
    <3>3. a < d BY ONLY <3>2
    <3> QED BY <2>2, <3>3
  <2>6. Piled(Append(t, h)) BY <2>2, <2>3, <2>4, <2>5, PileHigher
  <2>7. Piled(stack'[p]) /\ \A q \in Callers : q # p => stack'[q] = stack[q] BY <1>1, <2>1, <2>6
  <2> QED BY <1>1, <2>1, <2>7, OnePile
<1>3. CASE ~ Room(p, g)
  <2>1. Overflow BY <1>3 DEF Call
  <2> QED BY <1>3, <2>1, CrashingPiled
<1> QED BY <1>2, <1>3

LEMMA LeavingPiled ==
  ASSUME IInv, PilesRight, ~ crashed, NEW p \in Callers, Busy(p), NEW v, Leave(p, v)
  PROVE  PilesRight' /\ OverflowOnlyEndless'
<1>1. stack[p] # << >> /\ DOMAIN stack = Callers BY TopSound
<1>2. stack' = [stack EXCEPT ![p] = Front(@)] /\ ~ crashed' BY DEF Leave
<1>3. Piled(Front(stack[p])) BY <1>1, TypedStacks, PileLower DEF PilesRight
<1>4. Piled(stack'[p]) /\ \A q \in Callers : q # p => stack'[q] = stack[q] BY <1>1, <1>2, <1>3
<1> QED BY <1>1, <1>2, <1>4, OnePile

LEMMA NoPile == Piled(<< >>)
<1>1. Len(<< >>) = 0 /\ 1 .. 0 = {} BY EmptySeq
<1>2. 0 <= MaxDepth BY TypesAssumption
<1> QED BY <1>1, <1>2 DEF Piled

LEMMA EndPiled ==
  ASSUME IInv, PilesRight, ~ crashed, NEW p \in Callers, NEW outcome, End(p, outcome)
  PROVE  PilesRight' /\ OverflowOnlyEndless'
<1>1. stack' = [stack EXCEPT ![p] = << >>] /\ ~ crashed' /\ DOMAIN stack = Callers
  BY DEF End, IInv, Chains
<1>2. Piled(stack'[p]) /\ \A q \in Callers : q # p => stack'[q] = stack[q] BY <1>1, NoPile
<1> QED BY <1>1, <1>2, OnePile

LEMMA BeginPiled ==
  ASSUME IInv, PilesRight, NEW p \in Callers, NEW op \in {"unmarshal", "marshal"},
         NEW root \in Roots, Begin(p, op, root)
  PROVE  PilesRight' /\ OverflowOnlyEndless'
<1> PICK g : g = [Frame(op, root) EXCEPT !.pc = "begin"] OBVIOUS
<1>1. stack' = [stack EXCEPT ![p] = <<g>>] /\ ~ crashed' /\ DOMAIN stack = Callers
  BY DEF Begin, IInv, Chains
<1>2. Piled(<<g>>)
  <2> PICK s : s = <<g>> OBVIOUS
  <2>1. Len(s) = 1 /\ s[1] = g OBVIOUS
  <2>2. Len(s) <= MaxDepth
    <3>1. MaxDepth \in Nat /\ 1 <= MaxDepth BY TypesAssumption
    <3> QED BY <2>1, <3>1
  <2>3. g.cache = op BY DEF Frame
  <2>4. g.cache \in {"unmarshal", "marshal"}
        /\ g.cache \notin {"eligible", "direct", "filter", "recycle"}
    BY <2>3
  <2>5. ASSUME NEW i \in 1 .. Len(s) PROVE Placed(s, i)
    <3>1. i = 1 /\ s[i] = g BY <2>1
    <3> QED BY <2>4, <3>1 DEF Placed
  <2> QED BY <2>2, <2>5 DEF Piled
<1>3. Piled(stack'[p]) /\ \A q \in Callers : q # p => stack'[q] = stack[q] BY <1>1, <1>2
<1> QED BY <1>1, <1>3, OnePile
-----------------------------------------------------------------------------
LEMMA PublishLeaves == ASSUME NEW p \in Callers, NEW v, Publish(p, v) PROVE \E w : Leave(p, w)
BY DEF Publish, Answer

\* The steps that return from a frame or end a call.
LEMMA ReturnsPiled ==
  ASSUME IInv, PilesRight, NEW p \in Callers,
         \/ Hit(p) \/ LookupStore(p) \/ DirectStore(p) \/ EligibleStore(p)
         \/ FilterElement(p) \/ SpecialStore(p) \/ ZoneStore(p)
  PROVE  PilesRight' /\ OverflowOnlyEndless'
<1>1. ~ crashed /\ Busy(p)
  BY DEF Hit, LookupStore, DirectStore, EligibleStore, FilterElement, SpecialStore, ZoneStore, At
<1>2. \E v : Leave(p, v)
  BY PublishLeaves DEF Hit, LookupStore, DirectStore, EligibleStore, FilterElement, SpecialStore,
                       ZoneStore, Return, Answer
<1> QED BY <1>1, <1>2, LeavingPiled

\* The steps that find nothing stored and go on without a call.
LEMMA MissesPiled ==
  ASSUME IInv, PilesRight, NEW p \in Callers, LookupBuild(p) \/ SpecialMiss(p) \/ ZoneMiss(p)
  PROVE  PilesRight' /\ OverflowOnlyEndless'
<1> PICK f : f = Top(p) OBVIOUS
<1>1. ~ crashed /\ Busy(p) BY DEF LookupBuild, SpecialMiss, ZoneMiss, Miss, At
<1>2. FrameSound(table, f) BY <1>1, TopSound
<1> PICK g : g = [f EXCEPT !.pc = "store"] OBVIOUS
<1>3. (\E v : Leave(p, v)) \/ Become(p, g)
  BY DEF LookupBuild, SpecialMiss, ZoneMiss, Return
<1>4. g.cache = f.cache /\ g.type = f.type /\ g.todo = f.todo /\ g.seen = f.seen
  BY <1>2 DEF FrameSound
<1>5. Advances(f, g) BY <1>1, <1>4, SameLevels
<1> QED BY <1>1, <1>3, <1>5, LeavingPiled, BecomingPiled

LEMMA AsksInfo == ASSUME NEW f, NEW t PROVE Demands(f, Frame("info", t))
<1>1. Frame("info", t).cache = "info" BY DEF Frame
<1> QED BY <1>1 DEF Demands, Caches

LEMMA DirectPiled ==
  ASSUME Roomy, IInv, PilesRight, NEW p \in Callers, DirectInfo(p)
  PROVE  PilesRight' /\ OverflowOnlyEndless'
<1> PICK f : f = Top(p) OBVIOUS
<1> PICK g : g = [f EXCEPT !.pc = "info"] OBVIOUS
<1> PICK h : h = Frame("info", f.type) OBVIOUS
<1>1. ~ crashed /\ Busy(p) /\ f.cache = "direct" /\ Call(p, g, h)
  BY DEF DirectInfo, Miss, At
<1>2. FrameSound(table, f) BY <1>1, TopSound
<1>3. g.cache = f.cache /\ g.type = f.type /\ g.todo = f.todo /\ g.seen = f.seen
  BY <1>2 DEF FrameSound
<1>4. Advances(f, g) BY <1>1, <1>3, SameLevels
<1>5. Deepens(f) /\ Demands(f, h) BY <1>1, AsksInfo DEF Deepens
<1> QED BY <1>1, <1>4, <1>5, CallingPiled

LEMMA EligibleMissPiled ==
  ASSUME Roomy, IInv, PilesRight, NEW p \in Callers, EligibleMiss(p)
  PROVE  PilesRight' /\ OverflowOnlyEndless'
<1> PICK f : f = Top(p) OBVIOUS
<1> PICK T : T = <<Level(f.type)>> OBVIOUS
<1> PICK g : g = [f EXCEPT !.pc = "fields", !.seen = {f.type}, !.todo = T] OBVIOUS
<1> PICK h : h = Frame("info", f.type) OBVIOUS
<1>1. ~ crashed /\ Busy(p) /\ f.cache = "eligible" /\ f.pc = "load" /\ Call(p, g, h)
  BY DEF EligibleMiss, Miss, At
<1>2. FrameSound(table, f) BY <1>1, TopSound
<1>3. g.cache = f.cache /\ g.type = f.type /\ g.todo = T /\ g.seen = {f.type}
  BY <1>2 DEF FrameSound
<1>4. f.type \in Types /\ IsStruct(f.type) /\ f.todo = << >> BY <1>1, <1>2 DEF FrameSound
<1>5. T \in Seq(Levels) /\ Levelled(f.type, T, {f.type}) BY <1>4, LevelFirst
<1>6. Len(T) <= Len(f.todo) + 1
  <2>1. Len(T) = 1 /\ Len(f.todo) = 0 BY <1>4, EmptySeq
  <2> QED BY <2>1
<1>7. Advances(f, g) BY <1>1, <1>3, <1>5, <1>6 DEF Advances, Continues
<1>8. Deepens(f) /\ Demands(f, h) BY <1>1, AsksInfo DEF Deepens
<1> QED BY <1>1, <1>7, <1>8, CallingPiled

LEMMA VisitPiled ==
  ASSUME Roomy, IInv, PilesRight, NEW p \in Callers, WalkVisit(p)
  PROVE  PilesRight' /\ OverflowOnlyEndless'
<1> PICK f : f = Top(p) OBVIOUS
<1> PICK l : l = Last(f.todo) OBVIOUS
<1> PICK t : t = Head(l.left) OBVIOUS
<1> PICK rest : rest = Append(Front(f.todo), [l EXCEPT !.left = Tail(@)]) OBVIOUS
<1> PICK into : into = Append(rest, Level(t)) OBVIOUS
<1>1. ~ crashed /\ Busy(p) /\ f.cache = "eligible" /\ f.pc = "walk" /\ f.todo # << >> /\ l.left # << >>
  BY DEF WalkVisit, Walking, At
<1>2. FrameSound(table, f) /\ Levelled(f.type, f.todo, f.seen) BY <1>1, PileTop
<1>3. f.type \in Types /\ f.todo \in Seq(Levels) BY <1>1, <1>2 DEF FrameSound
<1>4. rest \in Seq(Levels) /\ into \in Seq(Levels) BY <1>1, <1>3, VisitTyped
<1>5. /\ Levelled(f.type, rest, f.seen) /\ Len(into) = Len(f.todo) + 1
      /\ Kind[t] = "list" => Levelled(f.type, into, f.seen)
      /\ IsStruct(t) /\ t \notin f.seen => Levelled(f.type, into, f.seen \cup {t})
  <2>1. /\ f.type \in Types /\ f.todo \in Seq(Levels) /\ f.todo # << >>
        /\ Levelled(f.type, f.todo, f.seen) /\ l = Last(f.todo) /\ l.left # << >>
        /\ t = Head(l.left) /\ rest = Append(Front(f.todo), [l EXCEPT !.left = Tail(@)])
        /\ into = Append(rest, Level(t))
    BY <1>1, <1>2, <1>3
  <2>2. VisitKeeps(f.type, f.todo, f.seen, t, rest, into) BY ONLY <2>1, VisitLevelled
  <2> QED BY <2>2 DEF VisitKeeps
<1>6. Len(rest) <= Len(f.todo) + 1 /\ Len(into) <= Len(f.todo) + 1
  <2>1. Len(into) = Len(rest) + 1
    <3>1. IsStack(rest) BY <1>4, StackOf
    <3> QED BY <3>1, Lengthened
  <2>2. Len(rest) \in Nat /\ Len(f.todo) \in Nat BY <1>3, <1>4, LenProperties
  <2> PICK a \in Nat, b \in Nat : a = Len(rest) /\ b = Len(f.todo) BY <2>2
  <2>3. a + 1 = b + 1 BY <1>5, <2>1
  <2>4. a <= b + 1 BY ONLY <2>3
  <2>5. b + 1 <= b + 1 OBVIOUS
  <2> QED BY <1>5, <2>4, <2>5
<1>7. Deepens(f) BY <1>1 DEF Deepens
<1>8. \/ ~ Room(p, f) /\ Overflow
      \/ Become(p, [f EXCEPT !.pc = "found"])
      \/ /\ IsStruct(t) /\ t \notin f.seen
         /\ Call(p, [f EXCEPT !.pc = "fields", !.seen = @ \cup {t}, !.todo = into], Frame("info", t))
      \/ Kind[t] = "list" /\ Become(p, [f EXCEPT !.todo = into])
      \/ Become(p, [f EXCEPT !.todo = rest])
  BY DEF WalkVisit
<1>9. CASE ~ Room(p, f) /\ Overflow
  <2>1. Advances(f, f) BY <1>1, SameLevels
  <2> QED BY <1>1, <1>7, <1>9, <2>1, CrashingPiled
<1>10. CASE Become(p, [f EXCEPT !.pc = "found"])
  <2> PICK g : g = [f EXCEPT !.pc = "found"] OBVIOUS
  <2>1. g.cache = f.cache /\ g.type = f.type /\ g.todo = f.todo /\ g.seen = f.seen
    BY <1>2 DEF FrameSound
  <2>2. Advances(f, g) BY <1>1, <2>1, SameLevels
  <2> QED BY <1>1, <1>10, <2>2, BecomingPiled
<1>11. CASE /\ IsStruct(t) /\ t \notin f.seen
            /\ Call(p, [f EXCEPT !.pc = "fields", !.seen = @ \cup {t}, !.todo = into],
                    Frame("info", t))
  <2> PICK g : g = [f EXCEPT !.pc = "fields", !.seen = @ \cup {t}, !.todo = into] OBVIOUS
  <2> PICK h : h = Frame("info", t) OBVIOUS
  <2>1. g.cache = f.cache /\ g.type = f.type /\ g.todo = into /\ g.seen = f.seen \cup {t}
    BY <1>2 DEF FrameSound
  <2>2. Advances(f, g) BY <1>1, <1>4, <1>5, <1>6, <1>11, <2>1 DEF Advances, Continues
  <2>3. Demands(f, h) BY AsksInfo
  <2> QED BY <1>1, <1>7, <1>11, <2>2, <2>3, CallingPiled
<1>12. ASSUME NEW T, T = rest \/ (T = into /\ Kind[t] = "list"),
              Become(p, [f EXCEPT !.todo = T])
       PROVE  PilesRight' /\ OverflowOnlyEndless'
  <2> PICK g : g = [f EXCEPT !.todo = T] OBVIOUS
  <2>1. g.cache = f.cache /\ g.type = f.type /\ g.todo = T /\ g.seen = f.seen
    BY <1>2 DEF FrameSound
  <2>2. T \in Seq(Levels) /\ Len(T) <= Len(f.todo) + 1 /\ Levelled(f.type, T, f.seen)
    BY <1>4, <1>5, <1>6, <1>12
  <2>3. Advances(f, g) BY <1>1, <2>1, <2>2 DEF Advances, Continues
  <2> QED BY <1>1, <1>12, <2>3, BecomingPiled
<1> QED BY <1>8, <1>9, <1>10, <1>11, <1>12

LEMMA WalkPiled ==
  ASSUME Roomy, IInv, PilesRight, NEW p \in Callers, WalkFields(p) \/ WalkReturn(p)
  PROVE  PilesRight' /\ OverflowOnlyEndless'
<1> PICK f : f = Top(p) OBVIOUS
<1>1. ~ crashed /\ Busy(p) /\ f.cache = "eligible" BY DEF WalkFields, WalkReturn, Walking, At
<1>2. FrameSound(table, f) /\ Levelled(f.type, f.todo, f.seen) BY <1>1, PileTop
<1>3. CASE WalkFields(p)
  <2>1. CASE ret[p] = Failed
    <3>1. Leave(p, Failed) BY <1>3, <2>1 DEF WalkFields, Return
    <3> QED BY <1>1, <3>1, LeavingPiled
  <2>2. CASE ret[p] # Failed
    <3> PICK g : g = [f EXCEPT !.pc = "walk"] OBVIOUS
    <3>1. Become(p, g) BY <1>3, <2>2 DEF WalkFields
    <3>2. g.cache = f.cache /\ g.type = f.type /\ g.todo = f.todo /\ g.seen = f.seen
      BY <1>2 DEF FrameSound
    <3>3. Advances(f, g) BY <1>1, <3>2, SameLevels
    <3> QED BY <1>1, <3>1, <3>3, BecomingPiled
  <2> QED BY <2>1, <2>2
<1>4. CASE WalkReturn(p)
  <2> PICK T : T = Front(f.todo) OBVIOUS
  <2> PICK g : g = [f EXCEPT !.todo = T] OBVIOUS
  <2>1. Become(p, g) /\ f.todo # << >> BY <1>2, <1>4 DEF WalkReturn, Walking, FrameSound
  <2>2. g.cache = f.cache /\ g.type = f.type /\ g.todo = T /\ g.seen = f.seen
    BY <1>2 DEF FrameSound
  <2>3. f.todo \in Seq(Levels) BY <1>2 DEF FrameSound
  <2>4. T \in Seq(Levels) /\ Levelled(f.type, T, f.seen) BY <1>2, <2>1, <2>3, LevelTyped, LevelLeft
  <2>5. Len(T) <= Len(f.todo) + 1
    <3>1. IsStack(f.todo) BY <2>3, StackOf
    <3> PICK n : n = Len(f.todo) OBVIOUS
    <3>2. n \in Nat \ {0} /\ Len(T) = n - 1 BY <2>1, <3>1, Shortened
    <3> QED BY <3>2
  <2>6. Advances(f, g) BY <1>1, <2>2, <2>4, <2>5 DEF Advances, Continues
  <2> QED BY <1>1, <2>1, <2>6, BecomingPiled
<1> QED BY <1>3, <1>4

LEMMA FilterMissPiled ==
  ASSUME Roomy, IInv, PilesRight, NEW p \in Callers, FilterMiss(p)
  PROVE  PilesRight' /\ OverflowOnlyEndless'
<1> PICK f : f = Top(p) OBVIOUS
<1> PICK t : t = f.type OBVIOUS
<1>1. ~ crashed BY DEF FilterMiss, Miss, At
<1>2. Busy(p) /\ f.cache = "filter" /\ t \in Types /\ FrameSound(table, f)
  BY AtFrame DEF FilterMiss, Miss
<1>3. CASE Kind[t] = "list"
  <2> PICK u : u = Head(Parts[t]) OBVIOUS
  <2> PICK g : g = [f EXCEPT !.pc = "element"] OBVIOUS
  <2> PICK h : h = Frame("filter", u) OBVIOUS
  <2>1. Call(p, g, h) BY <1>3 DEF FilterMiss, IsStruct
  <2>2. g.cache = f.cache /\ g.type = f.type /\ g.todo = f.todo /\ g.seen = f.seen
    BY <1>2 DEF FrameSound
  <2>3. Advances(f, g) BY <1>2, <2>2, SameLevels
  <2>4. h.cache = "filter" /\ h.type = u BY DEF Frame
  <2>5. Composed(t) BY <1>3 DEF Composed
  <2>6. u \in Range(Parts[t])
    <3>1. Parts[t] \in Seq(Types) /\ Len(Parts[t]) = 1 /\ DOMAIN Parts[t] = {1}
      BY <1>2, <1>3, TypesAssumption
    <3>2. u = Parts[t][1] /\ 1 \in DOMAIN Parts[t] BY <3>1
    <3> QED BY <3>2 DEF Range
  <2>7. h.type \in Steps(h.cache)[f.type] BY <1>2, <2>4, <2>5, <2>6, PartStep DEF Steps
  <2>8. Deepens(f) /\ Demands(f, h) BY <1>2, <2>4, <2>5, <2>7 DEF Deepens, Demands, Caches
  <2> QED BY <1>1, <1>2, <2>1, <2>3, <2>8, CallingPiled
<1>4. CASE IsStruct(t)
  <2> PICK g : g = [f EXCEPT !.pc = "info"] OBVIOUS
  <2> PICK h : h = Frame("info", t) OBVIOUS
  <2>1. Call(p, g, h) BY <1>4 DEF FilterMiss, IsStruct
  <2>2. g.cache = f.cache /\ g.type = f.type /\ g.todo = f.todo /\ g.seen = f.seen
    BY <1>2 DEF FrameSound
  <2>3. Advances(f, g) BY <1>2, <2>2, SameLevels
  <2>4. Deepens(f) /\ Demands(f, h) BY <1>2, <1>4, AsksInfo DEF Deepens, Composed
  <2> QED BY <1>1, <1>2, <2>1, <2>3, <2>4, CallingPiled
<1>5. CASE Kind[t] # "list" /\ ~ IsStruct(t)
  <2>1. Leave(p, NoFilter) BY <1>5 DEF FilterMiss, Return
  <2> QED BY <1>1, <1>2, <2>1, LeavingPiled
<1> QED BY <1>3, <1>4, <1>5

LEMMA FilterFieldsPiled ==
  ASSUME Roomy, IInv, PilesRight, NEW p \in Callers, FilterFields(p)
  PROVE  PilesRight' /\ OverflowOnlyEndless'
<1> PICK f : f = Top(p) OBVIOUS
<1> PICK t : t = f.type OBVIOUS
<1> PICK next : next = IF f.pc = "info" THEN f.got ELSE Append(f.got, ret[p]) OBVIOUS
<1>1. ~ crashed BY DEF FilterFields, At
<1>2. /\ Busy(p) /\ f.cache = "filter" /\ f.pc \in {"info", "field"} /\ t \in Types
      /\ FrameSound(table, f) /\ Told(table, f, ret[p])
  <2>1. PICK pc \in {"info", "field"} : At(p, {"filter"}, pc) BY DEF FilterFields
  <2>2. /\ Busy(p) /\ f.cache \in {"filter"} /\ f.pc = pc /\ FrameSound(table, f)
        /\ Told(table, f, ret[p]) /\ (f.cache # "zone" => f.type \in Types)
    BY <2>1, AtFrame
  <2> QED BY <2>2
<1>3. IsStruct(t) /\ Composed(t) BY <1>2 DEF FrameSound, Composed
<1>4. CASE ret[p] = Failed
  <2>1. Leave(p, Failed) BY <1>4 DEF FilterFields, Return
  <2> QED BY <1>1, <1>2, <2>1, LeavingPiled
<1>5. CASE ret[p] # Failed /\ Len(next) < Len(Parts[t])
  <2> PICK u : u = Parts[t][Len(next) + 1] OBVIOUS
  <2> PICK g : g = [f EXCEPT !.pc = "field", !.got = next] OBVIOUS
  <2> PICK h : h = Frame("filter", u) OBVIOUS
  <2>1. Call(p, g, h) BY <1>5 DEF FilterFields
  <2>2. g.cache = f.cache /\ g.type = f.type /\ g.todo = f.todo /\ g.seen = f.seen
    BY <1>2 DEF FrameSound
  <2>3. Advances(f, g) BY <1>2, <2>2, SameLevels
  <2>4. h.cache = "filter" /\ h.type = u BY DEF Frame
  <2>5. u \in Range(Parts[t])
    <3>1. Len(next) \in Nat
      <4> PICK r : r = ret[p] OBVIOUS
      <4>1. (f.pc = "info" /\ next = f.got) \/ (f.pc = "field" /\ next = Append(f.got, r))
        BY <1>2
      <4>2. FrameSound(table, f) /\ f.cache = "filter" /\ Told(table, f, r) /\ r # Failed
        BY <1>2, <1>5
      <4> QED BY ONLY <4>1, <4>2, OnePartMore
    <3>2. DOMAIN Parts[t] = 1 .. Len(Parts[t]) /\ Len(Parts[t]) \in Nat BY <1>2, PartsTyped
    <3>3. Len(next) + 1 \in DOMAIN Parts[t] BY <1>5, <3>1, <3>2
    <3> QED BY <3>3 DEF Range
  <2>6. h.type \in Steps(h.cache)[f.type] BY <1>2, <1>3, <2>4, <2>5, PartStep DEF Steps
  <2>7. Deepens(f) /\ Demands(f, h) BY <1>2, <1>3, <2>4, <2>6 DEF Deepens, Demands, Caches
  <2> QED BY <1>1, <1>2, <2>1, <2>3, <2>7, CallingPiled
<1>6. CASE ret[p] # Failed /\ ~ Len(next) < Len(Parts[t])
  <2>1. \E v : Publish(p, v) BY <1>6 DEF FilterFields
  <2> QED BY <1>1, <1>2, <2>1, PublishLeaves, LeavingPiled
<1> QED BY <1>4, <1>5, <1>6

LEMMA RecyclePiled ==
  ASSUME Roomy, IInv, PilesRight, NEW p \in Callers, Recycle(p)
  PROVE  PilesRight' /\ OverflowOnlyEndless'
<1> PICK f : f = Top(p) OBVIOUS
<1> PICK t : t = f.type OBVIOUS
<1> PICK got : got = IF f.pc = "load" THEN << >> ELSE Append(f.got, ret[p]) OBVIOUS
<1>1. ~ crashed BY DEF Recycle, At
<1>2. Busy(p) /\ f.cache = "recycle" /\ t \in Types /\ FrameSound(table, f)
  <2>1. PICK pc \in {"load", "field"} : At(p, {"recycle"}, pc) BY DEF Recycle
  <2>2. Busy(p) /\ f.cache \in {"recycle"} /\ FrameSound(table, f)
        /\ (f.cache # "zone" => f.type \in Types)
    BY <2>1, AtFrame
  <2> QED BY <2>2
<1>3. ASSUME NEW v, Return(p, v) PROVE PilesRight' /\ OverflowOnlyEndless'
  <2>1. Leave(p, v) BY <1>3 DEF Return
  <2> QED BY <1>1, <1>2, <2>1, LeavingPiled
<1>4. CASE /\ Composed(t) /\ Len(got) < Len(Exported[t])
           /\ Call(p, [f EXCEPT !.pc = "field", !.got = got],
                   Frame("recycle", Exported[t][Len(got) + 1]))
  <2> PICK u : u = Exported[t][Len(got) + 1] OBVIOUS
  <2> PICK g : g = [f EXCEPT !.pc = "field", !.got = got] OBVIOUS
  <2> PICK h : h = Frame("recycle", u) OBVIOUS
  <2>1. g.cache = f.cache /\ g.type = f.type /\ g.todo = f.todo /\ g.seen = f.seen
    BY <1>2 DEF FrameSound
  <2>2. Advances(f, g) BY <1>2, <2>1, SameLevels
  <2>3. h.cache = "recycle" /\ h.type = u BY DEF Frame
  <2>4. IsStack(got)
    <3>1. IsStack(<< >>) BY EmptySeq, StackOf
    <3>2. IsStack(f.got) BY <1>2 DEF FrameSound
    <3> PICK r : r = ret[p] OBVIOUS
    <3>3. IsStack(Append(f.got, r)) BY <3>2, Lengthened
    <3> QED BY <3>1, <3>3
  <2>5. u \in Range(Exported[t]) BY <1>2, <1>4, <2>4, NextExported
  <2>6. h.type \in Steps(h.cache)[f.type] BY <1>2, <1>4, <2>3, <2>5 DEF Steps, ByExported
  <2>7. Deepens(f) /\ Demands(f, h) BY <1>2, <1>4, <2>3, <2>6 DEF Deepens, Demands, Caches
  <2> QED BY <1>1, <1>2, <1>4, <2>2, <2>7, CallingPiled
<1> QED BY <1>3, <1>4 DEF Recycle

LEMMA CallsPiled ==
  ASSUME Roomy, IInv, RightInv, PilesRight, NEW p \in Callers, Unmarshal(p) \/ Marshal(p)
  PROVE  PilesRight' /\ OverflowOnlyEndless'
<1> PICK f : f = Top(p) OBVIOUS
<1> PICK t : t = f.type OBVIOUS
<1>1. ~ crashed /\ Busy(p) /\ f.cache \in {"unmarshal", "marshal"} /\ t \in Types
      /\ FrameSound(table, f)
  <2>1. PICK c \in {"unmarshal", "marshal"} : \E pc : At(p, {c}, pc)
    <3>1. Unmarshal(p) => \E pc : At(p, {"unmarshal"}, pc) BY DEF Unmarshal
    <3>2. Marshal(p) => \E pc : At(p, {"marshal"}, pc) BY DEF Marshal
    <3> QED BY <3>1, <3>2
  <2>2. Busy(p) /\ f.cache \in {c} /\ FrameSound(table, f) BY <2>1, AtFrame
  <2>3. ~ crashed BY <2>1 DEF At
  <2> QED BY <2>1, <2>2, <2>3 DEF FrameSound
<1>2. Sound(f) /\ Says(Wants(f)[1], Wants(f)[2], ret[p]) BY <1>1, RightTop
<1>3. Deepens(f) BY <1>1 DEF Deepens
\* f asks for an entry, or whether the document may be reused.
<1>4. ASSUME NEW pc, NEW c \in Caches \cup {"recycle"}, NEW u,
             Call(p, [f EXCEPT !.pc = pc], Frame(c, u)),
             c \in {"eligible", "direct", "filter", "recycle"} => f.cache = "unmarshal" /\ u = t,
             c = "eligible" => IsStruct(t), c \in {"filter", "recycle"} => Filters(t)
      PROVE  PilesRight' /\ OverflowOnlyEndless'
  <2> PICK g : g = [f EXCEPT !.pc = pc] OBVIOUS
  <2> PICK h : h = Frame(c, u) OBVIOUS
  <2>1. g.cache = f.cache /\ g.type = f.type /\ g.todo = f.todo /\ g.seen = f.seen
    BY <1>1 DEF FrameSound
  <2>2. Advances(f, g) BY <1>1, <2>1, SameLevels
  <2>3. h.cache = c /\ h.type = u /\ h.todo = << >> BY DEF Frame
  <2>4. Demands(f, h) BY <1>4, <2>3 DEF Demands
  <2> QED BY <1>1, <1>3, <1>4, <2>2, <2>4, CallingPiled
<1>5. CASE Unmarshal(p)
  <2>1. f.cache = "unmarshal" BY <1>5 DEF Unmarshal, At
  <2>2. \/ \E outcome : End(p, outcome)
        \/ /\ Call(p, [f EXCEPT !.pc = "eligible"], Frame("eligible", t))
           /\ IsStruct(t)
        \/ Call(p, [f EXCEPT !.pc = "direct"], Frame("direct", t))
        \/ /\ Call(p, [f EXCEPT !.pc = "filter"], Frame("filter", t))
           /\ ~ IsStruct(t) \/ (f.pc = "eligible" /\ ret[p] # Failed /\ ret[p] # Verdict(TRUE))
        \/ /\ Call(p, [f EXCEPT !.pc = "recycle"], Frame("recycle", t))
           /\ f.pc \in {"filter", "filter zoned"}
        \/ \E pc : Call(p, [f EXCEPT !.pc = pc], Frame("zone", Offset))
    <3>1. CASE At(p, {"unmarshal"}, "begin") /\
               IF IsStruct(t) THEN Call(p, [f EXCEPT !.pc = "eligible"], Frame("eligible", t))
               ELSE Call(p, [f EXCEPT !.pc = "filter"], Frame("filter", t))
      BY <3>1
    <3>2. CASE /\ At(p, {"unmarshal"}, "eligible")
               /\ CASE ret[p] = Failed -> End(p, "error")
                    [] ret[p] = Verdict(TRUE) ->
                         Call(p, [f EXCEPT !.pc = "direct"], Frame("direct", t))
                    [] OTHER -> Call(p, [f EXCEPT !.pc = "filter"], Frame("filter", t))
      <4>1. f.pc = "eligible" BY <3>2 DEF At
      <4>2. ret[p] = Failed => End(p, "error")
        <5>1. Failed # Verdict(TRUE) BY DEF Verdict, Failed
        <5> QED BY <3>2, <5>1
      <4>3. ret[p] # Failed /\ ret[p] = Verdict(TRUE) =>
              Call(p, [f EXCEPT !.pc = "direct"], Frame("direct", t))
        BY <3>2
      <4>4. ret[p] # Failed /\ ret[p] # Verdict(TRUE) =>
              Call(p, [f EXCEPT !.pc = "filter"], Frame("filter", t))
        BY <3>2
      <4> QED BY <4>1, <4>2, <4>3, <4>4
    <3>3. CASE /\ f.pc \in {"direct", "filter"}
               /\ IF ret[p] = Failed THEN End(p, "error")
                  ELSE \/ End(p, f.pc)
                       \/ /\ f.pc = "filter"
                          /\ Call(p, [f EXCEPT !.pc = "recycle"], Frame("recycle", t))
                       \/ Call(p, [f EXCEPT !.pc = Zoned[f.pc]], Frame("zone", Offset))
      BY <3>3
    <3>4. CASE \E pc \in {"direct", "filter"} :
                 /\ At(p, {"unmarshal"}, Zoned[pc])
                 /\ \/ End(p, pc)
                    \/ pc = "filter" /\ Call(p, [f EXCEPT !.pc = "recycle"], Frame("recycle", t))
      <4>1. PICK pc \in {"direct", "filter"} :
                   /\ At(p, {"unmarshal"}, Zoned[pc])
                   /\ \/ End(p, pc)
                      \/ /\ pc = "filter"
                         /\ Call(p, [f EXCEPT !.pc = "recycle"], Frame("recycle", t))
        BY <3>4
      <4>2. Zoned["filter"] = "filter zoned" BY DEF Zoned
      <4>3. f.pc = Zoned[pc] BY <4>1 DEF At
      <4> QED BY <4>1, <4>2, <4>3
    <3>5. CASE At(p, {"unmarshal"}, "recycle") /\ End(p, "filter") BY <3>5
    <3> QED BY <1>5, <3>1, <3>2, <3>3, <3>4, <3>5 DEF Unmarshal, At
  <2>3. ASSUME f.pc = "eligible", ret[p] # Failed, ret[p] # Verdict(TRUE) PROVE HoldsMap(t)
    <3> PICK r : r = ret[p] OBVIOUS
    <3>1. Wants(f) = <<"eligible", t>> BY <2>1, <2>3 DEF Wants
    <3>2. Says("eligible", t, r) BY <1>2, <3>1
    <3>3. r # Failed /\ r # Verdict(TRUE) BY <2>3
    <3> QED BY ONLY <3>2, <3>3 DEF Says
  <2>4. CASE /\ Call(p, [f EXCEPT !.pc = "filter"], Frame("filter", t))
             /\ ~ IsStruct(t) \/ (f.pc = "eligible" /\ ret[p] # Failed /\ ret[p] # Verdict(TRUE))
    <3>1. Filters(t) BY <2>3, <2>4 DEF Filters
    <3>2. "filter" \in Caches \cup {"recycle"} BY DEF Caches
    <3> QED BY <1>4, <2>1, <2>4, <3>1, <3>2
  <2>5. CASE /\ Call(p, [f EXCEPT !.pc = "recycle"], Frame("recycle", t))
             /\ f.pc \in {"filter", "filter zoned"}
    <3>1. Filters(t) BY <1>2, <2>1, <2>5 DEF Sound, Filters
    <3>2. "recycle" \in Caches \cup {"recycle"} OBVIOUS
    <3> QED BY <1>4, <2>1, <2>5, <3>1, <3>2
  <2>6. CASE \/ /\ Call(p, [f EXCEPT !.pc = "eligible"], Frame("eligible", t))
                /\ IsStruct(t)
             \/ Call(p, [f EXCEPT !.pc = "direct"], Frame("direct", t))
    <3>1. "eligible" \in Caches \cup {"recycle"} /\ "direct" \in Caches \cup {"recycle"}
      BY DEF Caches
    <3> QED BY <1>4, <2>1, <2>6, <3>1
  <2>7. ASSUME NEW pc, Call(p, [f EXCEPT !.pc = pc], Frame("zone", Offset))
        PROVE  PilesRight' /\ OverflowOnlyEndless'
    <3>1. "zone" \in Caches \cup {"recycle"} BY DEF Caches
    <3> QED BY <1>4, <2>7, <3>1
  <2> QED BY <1>1, <2>2, <2>4, <2>5, <2>6, <2>7, EndPiled
<1>6. CASE Marshal(p)
  <2>1. \/ \E outcome : End(p, outcome)
        \/ Call(p, [f EXCEPT !.pc = "special"], Frame("special", t))
        \/ Call(p, [f EXCEPT !.pc = "info"], Frame("info", t))
    BY <1>6 DEF Marshal
  <2>2. "special" \in Caches \cup {"recycle"} /\ "info" \in Caches \cup {"recycle"}
    BY DEF Caches
  <2> QED BY <1>1, <1>4, <2>1, <2>2, EndPiled
<1> QED BY <1>5, <1>6

LEMMA InitPiled == Init => PilesRight /\ OverflowOnlyEndless
BY NoPile DEF Init, PilesRight, OverflowOnlyEndless

LEMMA PiledKept ==
  ASSUME Roomy, IInv, RightInv, PilesRight, OverflowOnlyEndless, [Next]_vars
  PROVE  PilesRight' /\ OverflowOnlyEndless'
<1>1. CASE UNCHANGED vars
  BY <1>1 DEF vars, PilesRight, OverflowOnlyEndless, Full, Busy, Top
<1>2. ASSUME NEW p \in Callers, Step(p) PROVE PilesRight' /\ OverflowOnlyEndless'
  BY <1>2, ReturnsPiled, MissesPiled, DirectPiled, EligibleMissPiled, VisitPiled, WalkPiled,
     FilterMissPiled, FilterFieldsPiled, RecyclePiled, CallsPiled DEF Step
<1>3. ASSUME NEW p \in Callers, NEW root \in Roots,
             Begin(p, "unmarshal", root) \/ Begin(p, "marshal", root)
      PROVE  PilesRight' /\ OverflowOnlyEndless'
  BY <1>3, BeginPiled
<1> QED BY <1>1, <1>2, <1>3 DEF Next

\* If the stack of a goroutine has room for a call for every struct and two for every
\* list of the program, then only a call for a type in which some type contains itself
\* can run out of it: a list within itself with no struct between, which
\* directTypeContainsMap (unmarshal_direct.go:196) does not come back from, or, where
\* the type does not bind directly, any type within itself, which newDecodeFilter
\* (unmarshal.go:123) or canRecycleDocumentFor (unmarshal.go:88) does not.
THEOREM OverflowNeedsItself == ASSUME Roomy PROVE Spec => []OverflowOnlyEndless
<1> DEFINE Inv == IInv /\ RightInv /\ PilesRight /\ OverflowOnlyEndless
<1>1. Init => Inv BY InitSound, InitRight, InitPiled
<1>2. Inv /\ [Next]_vars => Inv' BY Inductive, RightKept, PiledKept
<1>3. Inv => OverflowOnlyEndless OBVIOUS
<1> HIDE DEF Inv
<1> QED BY <1>1, <1>2, <1>3, PTL DEF Spec
=============================================================================
