--------------------------- MODULE Document_proofs ---------------------------
(***************************************************************************)
(* What holds of a Document for every source, every set of paths and       *)
(* values and every number of edits: its edits are consistent, its calls   *)
(* are those of a PathStore, and Bytes leaves alone what was not edited    *)
(* and writes what reads back as Get answers.                              *)
(***************************************************************************)
EXTENDS Document, SequenceTheorems, FiniteSetTheorems, WellFoundedInduction,
        NaturalsInduction, TLAPS

-----------------------------------------------------------------------------
(* The index of the entries.                                               *)

\* A key belongs to one table.
LEMMA OneTable ==
  ASSUME NEW s \in Seq(Cells), NEW k \in Nat, NEW P, NEW Q,
         InTable(s, k, P), InTable(s, k, Q)
  PROVE  P = Q
<1>1. CASE \E h \in 1 .. k - 1 : s[h].t = "header"
  <2>1. PICK h \in 1 .. k - 1 : /\ s[h].t = "header" /\ s[h].path = P
                                /\ \A j \in h + 1 .. k - 1 : s[j].t # "header"
    BY <1>1 DEF InTable
  <2>2. PICK i \in 1 .. k - 1 : /\ s[i].t = "header" /\ s[i].path = Q
                                /\ \A j \in i + 1 .. k - 1 : s[j].t # "header"
    BY <1>1 DEF InTable
  <2>3. h = i
    BY <2>1, <2>2
  <2>4. QED
    BY <2>1, <2>2, <2>3
<1>2. CASE \A h \in 1 .. k - 1 : s[h].t # "header"
  BY <1>2 DEF InTable
<1>3. QED
  BY <1>1, <1>2

\* An entry has one path.
LEMMA OnePath ==
  ASSUME NEW s \in Seq(Cells), NEW k \in KeysOf(s), NEW p, NEW q,
         HasPath(s, k, p), HasPath(s, k, q)
  PROVE  p = q
<1>1. k \in Nat
  BY DEF KeysOf
<1>2. PICK n \in 0 .. Len(p) : InTable(s, k, SubSeq(p, 1, n)) /\ p = SubSeq(p, 1, n) \o s[k].path
  BY DEF HasPath
<1>3. PICK m \in 0 .. Len(q) : InTable(s, k, SubSeq(q, 1, m)) /\ q = SubSeq(q, 1, m) \o s[k].path
  BY DEF HasPath
<1>4. SubSeq(p, 1, n) = SubSeq(q, 1, m)
  BY <1>1, <1>2, <1>3, OneTable
<1>5. QED
  BY <1>2, <1>3, <1>4

\* What the index of ParseDocument is: 0 for a path without an entry, else its last entry.
Indexed == \A p \in Paths : Latest(raw, p, byPath[p])

\* Different paths lead to different entries, so an edit of one cannot touch the other.
LEMMA IndexInjective ==
  ASSUME TypeOK, Indexed, NEW p \in Paths, NEW q \in Paths, HasEntry(p), byPath[p] = byPath[q]
  PROVE  p = q
<1>1. byPath[p] \in KeysOf(raw) /\ 0 \notin KeysOf(raw) /\ raw \in Seq(Cells)
  BY SourcesAssumption DEF TypeOK, HasEntry, KeysOf
<1>2. ASSUME NEW r \in Paths, byPath[r] # 0 PROVE HasPath(raw, byPath[r], r)
  BY <1>2 DEF Indexed, Latest, EntriesAt
<1>3. QED
  BY <1>1, <1>2, OnePath DEF HasEntry

-----------------------------------------------------------------------------
(* Type correctness.                                                       *)

LEMMA EntryTyped ==
  ASSUME TypeOK
  PROVE  /\ \A p \in Paths : HasEntry(p) => byPath[p] \in KeysOf(raw)
         /\ \A k \in KeysOf(raw) : EntryValue(k) \in Values \cup {None}
         /\ \A p \in Paths : Lookup(p) \in Values \cup {None}
<1>1. \A p \in Paths : HasEntry(p) => byPath[p] \in KeysOf(raw)
  BY DEF TypeOK, HasEntry
<1>2. \A k \in KeysOf(raw) : EntryValue(k) \in Values \cup {None}
  BY ValuesAssumption DEF TypeOK, EntryValue, Parsed
<1>3. \A p \in Paths : Lookup(p) \in Values \cup {None}
  BY <1>1, <1>2 DEF TypeOK, Lookup
<1>4. QED
  BY <1>1, <1>2, <1>3

LEMMA FormattedTyped ==
  ASSUME NEW p \in Paths, NEW v \in Values
  PROVE  Formatted(p, v) \in Seq(Cells) /\ Formatted(p, v) # << >>
<1>1. \A lit \in BOOLEAN : ValueCell(v, lit) \in Cells
  BY EmptySeq DEF ValueCell, Cell, Cells, CellTypes
<1> DEFINE lit == /\ HasEntry(p) /\ raw[byPath[p] + 1].literal
                  /\ raw[byPath[p] + 1].value \in Strings /\ v \in LiteralSafe
<1>2. lit \in BOOLEAN
  OBVIOUS
<1>3. Formatted(p, v) = <<ValueCell(v, lit)>>
  BY Zenon DEF Formatted
<1> HIDE DEF lit
<1>4. QED
  BY <1>1, <1>2, <1>3

LEMMA InitTyped == Init => TypeOK /\ Indexed /\ OneEditPerEntry /\ NothingOnlyInMemory
<1>1. SUFFICES ASSUME Init PROVE TypeOK /\ Indexed /\ OneEditPerEntry /\ NothingOnlyInMemory
  OBVIOUS
<1>2. TypeOK
  BY <1>1, EmptySeq DEF Init, TypeOK
<1>3. Indexed
  BY <1>1 DEF Init, Indexed
<1>4. OneEditPerEntry /\ NothingOnlyInMemory
  BY <1>1 DEF Init, OneEditPerEntry, NothingOnlyInMemory
<1>5. QED
  BY <1>2, <1>3, <1>4

\* The seven ways a call can end, with the guards that lead to each.
LEMMA StepCases ==
  ASSUME Next
  PROVE  \/ Refused
         \/ \E p \in Paths : Get(p)
         \/ \E p \in Paths : HasEntry(p) /\ DeleteEntry(p)
         \/ \E p \in Paths : ~HasEntry(p) /\ DeletePending(p)
         \/ \E p \in Paths, v \in Formattable : HasEntry(p) /\ SetEntry(p, v)
         \/ \E p \in Paths, v \in Formattable : ~HasEntry(p) /\ Insert(None, p, v)
         \/ \E p \in Paths, v \in Values, after \in Paths : HasEntry(after) /\ Insert(after, p, v)
BY ValuesAssumption DEF Next, MalformedPath, Set, InsertAfter, Delete

LEMMA NextTyped ==
  ASSUME TypeOK, [Next]_vars
  PROVE  TypeOK'
<1>1. CASE UNCHANGED vars
  BY <1>1 DEF vars, TypeOK, KeysOf, HasEntry
<1>2. CASE Refused
  BY <1>2 DEF Refused, edits, TypeOK, KeysOf, HasEntry
<1>3. CASE \E p \in Paths : Get(p)
  <2>1. PICK p \in Paths : Get(p)
    BY <1>3
  <2>2. values' \in [KeysOf(raw) -> Values \cup {None}]
    BY <2>1, EntryTyped DEF Get, TypeOK
  <2>3. QED
    BY <2>1, <2>2 DEF Get, TypeOK, KeysOf, HasEntry
<1>4. CASE \E p \in Paths : HasEntry(p) /\ DeleteEntry(p)
  <2>1. PICK p \in Paths : HasEntry(p) /\ DeleteEntry(p)
    BY <1>4
  <2>2. replacements' \in [Paths -> Seq(Cells)]
    BY <2>1, EmptySeq DEF DeleteEntry, TypeOK
  <2>3. deletions' \subseteq {q \in Paths : HasEntry(q)'}
    BY <2>1 DEF DeleteEntry, TypeOK, HasEntry
  <2>4. QED
    BY <2>1, <2>2, <2>3 DEF DeleteEntry, TypeOK, KeysOf
<1>5. CASE \E p \in Paths : ~HasEntry(p) /\ DeletePending(p)
  BY <1>5 DEF DeletePending, TypeOK, KeysOf, HasEntry
<1>6. CASE \E p \in Paths, v \in Formattable : HasEntry(p) /\ SetEntry(p, v)
  <2>1. PICK p \in Paths, v \in Formattable : HasEntry(p) /\ SetEntry(p, v)
    BY <1>6
  <2>2. v \in Values
    BY ValuesAssumption
  <2>3. replacements' \in [Paths -> Seq(Cells)]
    BY <2>1, <2>2, FormattedTyped DEF SetEntry, TypeOK
  <2>4. values' \in [KeysOf(raw) -> Values \cup {None}]
    BY <2>1, <2>2 DEF SetEntry, TypeOK
  <2>5. deletions' \subseteq {q \in Paths : HasEntry(q)'}
    BY <2>1 DEF SetEntry, TypeOK, HasEntry
  <2>6. pending' \in [Paths -> Values \cup {None}]
    BY <2>1 DEF SetEntry, TypeOK
  <2>7. QED
    BY <2>1, <2>3, <2>4, <2>5, <2>6 DEF SetEntry, TypeOK, KeysOf
<1>7. ASSUME NEW p \in Paths, NEW v \in Values, NEW after \in Paths \cup {None},
             Insert(after, p, v)
      PROVE  TypeOK'
  <2>1. insertions' \in Seq([after : Paths \cup {None}, path : Paths])
    BY <1>7, AppendProperties DEF Insert, TypeOK
  <2>2. pending' \in [Paths -> Values \cup {None}]
    BY <1>7 DEF Insert, TypeOK
  <2>3. QED
    BY <1>7, <2>1, <2>2 DEF Insert, TypeOK, KeysOf, HasEntry
<1>8. QED
  BY <1>1, <1>2, <1>3, <1>4, <1>5, <1>6, <1>7, StepCases, ValuesAssumption

\* Type correctness of a Document for every source and every sequence of calls.
THEOREM TypeCorrect == Spec => []TypeOK
BY InitTyped, NextTyped, PTL DEF Spec

\* The index is fixed by ParseDocument.
LEMMA IndexFixed == Spec => []Indexed
<1>1. Indexed /\ [Next]_vars => Indexed'
  <2>1. SUFFICES ASSUME Indexed, [Next]_vars PROVE raw' = raw /\ byPath' = byPath
    BY DEF Indexed
  <2>2. CASE UNCHANGED vars
    BY <2>2 DEF vars
  <2>3. CASE Next
    BY <2>3, StepCases
    DEF Refused, Get, DeleteEntry, DeletePending, SetEntry, Insert
  <2>4. QED
    BY <2>1, <2>2, <2>3
<1>2. QED
  BY <1>1, InitTyped, PTL DEF Spec

-----------------------------------------------------------------------------
(* The edits are consistent.                                               *)

\* An edit of the entry of one path leaves the cached value of every other alone.
LEMMA OthersKept ==
  ASSUME TypeOK, Indexed, NEW p \in Paths, NEW q \in Paths, HasEntry(p), HasEntry(q), p # q,
         NEW v
  PROVE  [values EXCEPT ![byPath[p]] = v][byPath[q]] = values[byPath[q]]
<1>1. byPath[p] # byPath[q]
  BY IndexInjective
<1>2. byPath[q] \in DOMAIN values
  BY EntryTyped DEF TypeOK
<1>3. QED
  BY <1>1, <1>2

LEMMA NextConsistent ==
  ASSUME TypeOK, Indexed, OneEditPerEntry, [Next]_vars
  PROVE  OneEditPerEntry'
<1> SUFFICES ASSUME NEW q \in Paths, replacements'[q] # << >>
             PROVE  (/\ HasEntry(q) /\ q \notin deletions /\ values[byPath[q]] # None
                     /\ replacements[q] = Formatted(q, values[byPath[q]]))'
  BY DEF OneEditPerEntry
<1>1. CASE UNCHANGED <<raw, byPath, values, replacements, deletions>>
  BY <1>1 DEF OneEditPerEntry, HasEntry, Formatted
<1>2. CASE \E p \in Paths : Get(p)
  <2>1. PICK p \in Paths : Get(p)
    BY <1>2
  <2>2. /\ HasEntry(q) /\ q \notin deletions /\ values[byPath[q]] # None
        /\ replacements[q] = Formatted(q, values[byPath[q]])
    BY <2>1 DEF Get, OneEditPerEntry
  <2>3. values'[byPath[q]] = values[byPath[q]]
    <3>1. CASE p = q
      BY <2>1, <2>2, <3>1, EntryTyped DEF Get, EntryValue, TypeOK
    <3>2. CASE p # q
      BY <2>1, <2>2, <3>2, OthersKept DEF Get
    <3>3. QED
      BY <3>1, <3>2
  <2>4. QED
    BY <2>1, <2>2, <2>3 DEF Get, HasEntry, Formatted
<1>3. CASE \E p \in Paths : HasEntry(p) /\ DeleteEntry(p)
  <2>1. PICK p \in Paths : HasEntry(p) /\ DeleteEntry(p)
    BY <1>3
  <2>2. p # q /\ replacements'[q] = replacements[q]
    BY <2>1 DEF DeleteEntry, TypeOK
  <2>3. QED
    BY <2>1, <2>2 DEF DeleteEntry, OneEditPerEntry, HasEntry, Formatted
<1>4. CASE \E p \in Paths, v \in Formattable : HasEntry(p) /\ SetEntry(p, v)
  <2>1. PICK p \in Paths, v \in Formattable : HasEntry(p) /\ SetEntry(p, v)
    BY <1>4
  <2>2. CASE p = q
    <3>1. values'[byPath[q]] = v /\ replacements'[q] = Formatted(q, v)
      BY <2>1, <2>2, EntryTyped DEF SetEntry, TypeOK
    <3>2. v # None /\ HasEntry(q) /\ q \notin deletions'
      BY <2>1, <2>2, ValuesAssumption DEF SetEntry
    <3>3. QED
      BY <2>1, <3>1, <3>2 DEF SetEntry, HasEntry, Formatted
  <2>3. CASE p # q
    <3>1. replacements[q] = replacements'[q] /\ replacements[q] # << >>
      BY <2>1, <2>3 DEF SetEntry, TypeOK
    <3>2. /\ HasEntry(q) /\ q \notin deletions /\ values[byPath[q]] # None
          /\ replacements[q] = Formatted(q, values[byPath[q]])
      BY <3>1 DEF OneEditPerEntry
    <3>3. values'[byPath[q]] = values[byPath[q]]
      BY <2>1, <2>3, <3>2, OthersKept DEF SetEntry
    <3>4. QED
      BY <2>1, <3>1, <3>2, <3>3 DEF SetEntry, HasEntry, Formatted
  <2>4. QED
    BY <2>2, <2>3
<1>5. QED
  BY <1>1, <1>2, <1>3, <1>4, StepCases
  DEF vars, edits, Refused, DeletePending, Insert

\* An entry is never replaced and deleted at once, and the text that replaces it is that of
\* the value Get answers, for every source and every sequence of calls.
THEOREM EditsConsistent == Spec => []OneEditPerEntry
BY InitTyped, NextConsistent, TypeCorrect, IndexFixed, PTL DEF Spec

\* What is cached for an entry that was not replaced is what its text parses to.
CacheHonest == \A p \in Paths : HasEntry(p) /\ p \notin deletions /\ replacements[p] = << >>
                 => values[byPath[p]] \in {None, Parsed(byPath[p])}

LEMMA CacheStarts == Init => CacheHonest
<1> SUFFICES ASSUME Init, NEW p \in Paths, HasEntry(p) PROVE values[byPath[p]] = None
  BY DEF CacheHonest
<1>1. byPath[p] \in KeysOf(raw)
  BY DEF Init, HasEntry
<1>2. QED
  BY <1>1 DEF Init

LEMMA NextHonest ==
  ASSUME TypeOK, Indexed, CacheHonest, [Next]_vars
  PROVE  CacheHonest'
<1> SUFFICES ASSUME NEW q \in Paths, HasEntry(q)', q \notin deletions', replacements'[q] = << >>
             PROVE  (values[byPath[q]] \in {None, Parsed(byPath[q])})'
  BY DEF CacheHonest
<1>1. CASE UNCHANGED <<raw, byPath, values, replacements, deletions>>
  BY <1>1 DEF CacheHonest, HasEntry, Parsed
<1>2. CASE \E p \in Paths : Get(p)
  <2>1. PICK p \in Paths : Get(p)
    BY <1>2
  <2>2. HasEntry(q) /\ values[byPath[q]] \in {None, Parsed(byPath[q])}
    BY <2>1 DEF Get, CacheHonest, HasEntry
  <2>3. values'[byPath[q]] \in {None, Parsed(byPath[q])}
    <3>1. CASE ~(HasEntry(p) /\ p \notin deletions)
      BY <2>1, <2>2, <3>1 DEF Get
    <3>2. CASE HasEntry(p) /\ p \notin deletions /\ p = q
      <4>1. values'[byPath[q]] = EntryValue(byPath[q])
        BY <2>1, <3>2, EntryTyped DEF Get, TypeOK
      <4>2. QED
        BY <2>2, <4>1 DEF EntryValue
    <3>3. CASE HasEntry(p) /\ p \notin deletions /\ p # q
      BY <2>1, <2>2, <3>3, OthersKept DEF Get
    <3>4. QED
      BY <3>1, <3>2, <3>3
  <2>4. QED
    BY <2>1, <2>3 DEF Get, Parsed
<1>3. CASE \E p \in Paths : HasEntry(p) /\ DeleteEntry(p)
  <2>1. PICK p \in Paths : HasEntry(p) /\ DeleteEntry(p)
    BY <1>3
  <2>2. p # q /\ replacements'[q] = replacements[q]
    BY <2>1 DEF DeleteEntry, TypeOK
  <2>3. QED
    BY <2>1, <2>2 DEF DeleteEntry, CacheHonest, HasEntry, Parsed
<1>4. CASE \E p \in Paths, v \in Formattable : HasEntry(p) /\ SetEntry(p, v)
  <2>1. PICK p \in Paths, v \in Formattable : HasEntry(p) /\ SetEntry(p, v)
    BY <1>4
  <2>2. p # q
    <3>1. SUFFICES ASSUME p = q PROVE FALSE
      OBVIOUS
    <3>2. replacements'[q] = Formatted(q, v)
      BY <2>1, <3>1 DEF SetEntry, TypeOK
    <3>3. QED
      BY <3>2, FormattedTyped, ValuesAssumption
  <2>3. replacements'[q] = replacements[q] /\ q \notin deletions /\ HasEntry(q)
    BY <2>1, <2>2 DEF SetEntry, TypeOK, HasEntry
  <2>4. values[byPath[q]] \in {None, Parsed(byPath[q])}
    BY <2>3 DEF CacheHonest
  <2>5. values'[byPath[q]] = values[byPath[q]]
    BY <2>1, <2>2, <2>3, OthersKept DEF SetEntry
  <2>6. QED
    BY <2>1, <2>4, <2>5 DEF SetEntry, Parsed
<1>5. QED
  BY <1>1, <1>2, <1>3, <1>4, StepCases
  DEF vars, edits, Refused, DeletePending, Insert

LEMMA CacheKept == Spec => []CacheHonest
BY CacheStarts, NextHonest, TypeCorrect, IndexFixed, PTL DEF Spec

LEMMA NextPending ==
  ASSUME TypeOK, NothingOnlyInMemory, [Next]_vars
  PROVE  NothingOnlyInMemory'
<1>1. CASE UNCHANGED <<byPath, insertions, pending>>
  BY <1>1 DEF NothingOnlyInMemory, HasEntry
<1>2. CASE \E p \in Paths : DeletePending(p) \/ \E v \in Formattable : SetEntry(p, v)
  <2>1. /\ byPath' = byPath /\ insertions' = insertions
        /\ \A p \in Paths : pending'[p] \in {pending[p], None}
    BY <1>2 DEF DeletePending, SetEntry, TypeOK
  <2>2. QED
    BY <2>1 DEF NothingOnlyInMemory, HasEntry
<1>3. ASSUME NEW p \in Paths, NEW v \in Values, NEW after \in Paths \cup {None},
             after = None \/ HasEntry(after), Insert(after, p, v)
      PROVE  NothingOnlyInMemory'
  <2>1. /\ Len(insertions') = Len(insertions) + 1 /\ Len(insertions) \in Nat
        /\ \A i \in 1 .. Len(insertions) : insertions'[i] = insertions[i]
        /\ insertions'[Len(insertions) + 1] = [after |-> after, path |-> p]
        /\ DOMAIN insertions = 1 .. Len(insertions)
        /\ DOMAIN insertions' = 1 .. Len(insertions) + 1
    BY <1>3, AppendProperties DEF Insert, TypeOK
  <2>2. byPath' = byPath /\ \A q \in Paths : q # p => pending'[q] = pending[q]
    BY <1>3 DEF Insert, TypeOK
  <2>3. ASSUME NEW q \in Paths, pending'[q] # None
        PROVE  \E i \in DOMAIN insertions' : insertions'[i].path = q
    <3>1. CASE q = p
      BY <2>1, <3>1
    <3>2. CASE q # p
      BY <2>1, <2>2, <2>3, <3>2 DEF NothingOnlyInMemory
    <3>3. QED
      BY <3>1, <3>2
  <2>4. ASSUME NEW i \in DOMAIN insertions'
        PROVE  (insertions[i].after = None \/ HasEntry(insertions[i].after))'
    <3>1. CASE i = Len(insertions) + 1
      BY <1>3, <2>1, <2>2, <3>1 DEF HasEntry
    <3>2. CASE i # Len(insertions) + 1
      BY <2>1, <2>2, <2>4, <3>2 DEF NothingOnlyInMemory, HasEntry
    <3>3. QED
      BY <3>1, <3>2
  <2>5. QED
    BY <2>3, <2>4 DEF NothingOnlyInMemory
<1>4. QED
  BY <1>1, <1>2, <1>3, StepCases, ValuesAssumption
  DEF vars, edits, Refused, Get, DeleteEntry

\* Nothing Get answers from pending lacks an insertion that can carry it into the bytes.
THEOREM PendingHasInsertion == Spec => []NothingOnlyInMemory
BY InitTyped, NextPending, TypeCorrect, PTL DEF Spec

-----------------------------------------------------------------------------
(* A Document is a PathStore.                                              *)

\* The same ways, with the call each of them ends.
LEMMA CallCases ==
  ASSUME Next
  PROVE  \/ Refused
         \/ \E p \in Paths : Get(p)
         \/ \E p \in Paths : HasEntry(p) /\ DeleteEntry(p) /\ answer' = Call("delete", p, None)
         \/ \E p \in Paths : /\ ~HasEntry(p) /\ pending[p] # None /\ DeletePending(p)
                             /\ answer' = Call("delete", p, None)
         \/ \E p \in Paths, v \in Formattable :
              HasEntry(p) /\ SetEntry(p, v) /\ answer' = Call("set", p, v)
         \/ \E p \in Paths, v \in Formattable :
              ~HasEntry(p) /\ Insert(None, p, v) /\ answer' = Call("set", p, v)
         \/ \E p \in Paths, v \in Values, after \in Paths :
              Insert(after, p, v) /\ answer' = Call("insert", p, v)
BY ValuesAssumption DEF Next, MalformedPath, Set, InsertAfter, Delete

\* Every step of a Document is a step of the store or leaves it alone.
LEMMA NextRefines ==
  ASSUME TypeOK, Indexed, [Next]_vars
  PROVE  [Store!Next]_(Store!svars)
<1> DEFINE found == [q \in Paths |-> Lookup(q)]
           source == {q \in Paths : HasEntry(q)}
<1>1. CASE UNCHANGED vars
  <2>1. found' = found /\ source' = source /\ answer' = answer
    BY <1>1 DEF vars, Lookup, HasEntry, EntryValue, Parsed
  <2>2. QED
    BY <2>1 DEF Store!svars
<1>2. CASE Refused
  <2>1. found' = found /\ source' = source /\ answer' = Store!Call("refused", << >>, None)
    BY <1>2 DEF Call, Store!Call, Refused, edits, Lookup, HasEntry, EntryValue, Parsed
  <2>2. QED
    BY <2>1 DEF Store!Next, Store!Refuse
<1>3. CASE \E p \in Paths : Get(p)
  <2>1. PICK p \in Paths : Get(p)
    BY <1>3
  <2>2. ASSUME NEW q \in Paths PROVE Lookup(q)' = Lookup(q)
    <3>1. CASE ~HasEntry(q) \/ q \in deletions
      BY <2>1, <3>1 DEF Get, Lookup, HasEntry
    <3>2. CASE HasEntry(q) /\ q \notin deletions
      <4>1. byPath[q] \in KeysOf(raw) /\ values \in [KeysOf(raw) -> Values \cup {None}]
        BY <3>2, EntryTyped DEF TypeOK
      <4>2. values'[byPath[q]] \in {values[byPath[q]], EntryValue(byPath[q])}
        BY <2>1, <4>1 DEF Get
      <4>3. QED
        BY <2>1, <3>2, <4>1, <4>2 DEF Get, Lookup, HasEntry, EntryValue, Parsed
    <3>3. QED
      BY <3>1, <3>2
  <2>3. found' = found /\ source' = source /\ answer' = Store!Call("get", p, found[p])
    BY <2>1, <2>2 DEF Call, Store!Call, Get, HasEntry
  <2>4. QED
    BY <2>3 DEF Store!Next, Store!Get
<1>4. CASE \E p \in Paths : HasEntry(p) /\ DeleteEntry(p) /\ answer' = Call("delete", p, None)
  <2>1. PICK p \in Paths : HasEntry(p) /\ DeleteEntry(p) /\ answer' = Call("delete", p, None)
    BY <1>4
  <2>2. found' = [found EXCEPT ![p] = None]
    BY <2>1 DEF DeleteEntry, Lookup, HasEntry, EntryValue, Parsed
  <2>3. source' = source /\ answer' = Store!Call("delete", p, None) /\ p \in source
    BY <2>1 DEF Call, Store!Call, DeleteEntry, HasEntry
  <2>4. QED
    BY <2>2, <2>3 DEF Store!Next, Store!Delete
<1>5. CASE \E p \in Paths : /\ ~HasEntry(p) /\ pending[p] # None /\ DeletePending(p)
                             /\ answer' = Call("delete", p, None)
  <2>1. PICK p \in Paths : /\ ~HasEntry(p) /\ pending[p] # None /\ DeletePending(p)
                          /\ answer' = Call("delete", p, None)
    BY <1>5
  <2>2. found' = [found EXCEPT ![p] = None]
    BY <2>1 DEF DeletePending, TypeOK, Lookup, HasEntry, EntryValue, Parsed
  <2>3. source' = source /\ answer' = Store!Call("delete", p, None) /\ found[p] # None
    BY <2>1 DEF Call, Store!Call, DeletePending, HasEntry, Lookup
  <2>4. QED
    BY <2>2, <2>3 DEF Store!Next, Store!Delete
<1>6. CASE \E p \in Paths, v \in Formattable :
             HasEntry(p) /\ SetEntry(p, v) /\ answer' = Call("set", p, v)
  <2>1. PICK p \in Paths, v \in Formattable :
          HasEntry(p) /\ SetEntry(p, v) /\ answer' = Call("set", p, v)
    BY <1>6
  <2>2. v \in Values /\ v # None
    BY ValuesAssumption
  <2>3. ASSUME NEW q \in Paths PROVE Lookup(q)' = IF q = p THEN v ELSE Lookup(q)
    <3>1. CASE q = p
      <4>1. byPath[p] \in KeysOf(raw) /\ values \in [KeysOf(raw) -> Values \cup {None}]
        BY <2>1, EntryTyped DEF TypeOK
      <4>2. values'[byPath[p]] = v /\ byPath' = byPath /\ p \notin deletions'
        BY <2>1, <4>1 DEF SetEntry
      <4>3. QED
        BY <2>1, <2>2, <3>1, <4>2 DEF Lookup, HasEntry, EntryValue
    <3>2. CASE q # p /\ HasEntry(q)
      <4>1. values'[byPath[q]] = values[byPath[q]]
        BY <2>1, <3>2, OthersKept DEF SetEntry
      <4>2. QED
        BY <2>1, <3>2, <4>1 DEF SetEntry, Lookup, HasEntry, EntryValue, Parsed
    <3>3. CASE q # p /\ ~HasEntry(q)
      BY <2>1, <3>3 DEF SetEntry, TypeOK, Lookup, HasEntry
    <3>4. QED
      BY <3>1, <3>2, <3>3
  <2>4. found' = [found EXCEPT ![p] = v]
    BY <2>3
  <2>5. source' = source /\ answer' = Store!Call("set", p, v)
    BY <2>1 DEF Call, Store!Call, SetEntry, HasEntry
  <2>6. QED
    BY <2>2, <2>4, <2>5 DEF Store!Next, Store!Set
<1>7. ASSUME NEW p \in Paths, NEW v \in Values, NEW after, Insert(after, p, v)
      PROVE  source' = source /\ found' = IF HasEntry(p) THEN found ELSE [found EXCEPT ![p] = v]
  <2>1. \A q \in Paths : Lookup(q)' = IF q = p /\ ~HasEntry(p) THEN v ELSE Lookup(q)
    BY <1>7 DEF Insert, TypeOK, Lookup, HasEntry, EntryValue, Parsed
  <2>2. source' = source
    BY <1>7 DEF Insert, HasEntry
  <2>3. QED
    BY <2>1, <2>2
<1>8. ASSUME NEW p \in Paths, NEW v \in Values, ~HasEntry(p), Insert(None, p, v),
             answer' = Call("set", p, v)
      PROVE  Store!Next
  BY <1>7, <1>8 DEF Call, Store!Call, Store!Next, Store!Set
<1>9. ASSUME NEW p \in Paths, NEW v \in Values, NEW after \in Paths, Insert(after, p, v),
             answer' = Call("insert", p, v)
      PROVE  Store!Next
  BY <1>7, <1>9 DEF Call, Store!Call, Store!Next, Store!Insert
<1>10. QED
  BY <1>1, <1>2, <1>3, <1>4, <1>5, <1>6, <1>8, <1>9, CallCases, ValuesAssumption

\* The calls of a Document are those of a store of values by path: each changes what later
\* calls answer for its own path at most, refused calls and the cache of parsed values
\* change nothing.  This holds for every source, also one that assigns a path twice.
THEOREM IsPathStore == Spec => StoreSpec
<1>1. Init => Store!Init
  <2>1. SUFFICES ASSUME Init PROVE Store!Init
    OBVIOUS
  <2>2. TypeOK
    BY <2>1, InitTyped
  <2>3. QED
    BY <2>1, <2>2, EntryTyped DEF Init, Call, Store!Init, Store!Call, Store!TypeOK
<1>2. QED
  BY <1>1, NextRefines, TypeCorrect, IndexFixed, PTL DEF Spec, StoreSpec, Store!Spec

-----------------------------------------------------------------------------
(* Induction over the naturals, stated with sets.                          *)

\* The order of the naturals is well-founded.
LEMMA Less == \E R : IsWellFoundedOn(R, Nat) /\ \A x, y \in Nat : x < y => <<x, y>> \in R
<1>1. \A x, y \in Nat : x < y => <<x, y>> \in OpToRel(<, Nat)
  BY DEF OpToRel
<1>2. QED
  BY <1>1, NatLessThanWellFounded, Zenon

\* Every set of naturals with a member has a least one.
LEMMA Least ==
  ASSUME NEW T, T \subseteq Nat, T # {}
  PROVE  \E n \in T : \A m \in T : n <= m
<1>1. PICK R : IsWellFoundedOn(R, Nat) /\ \A x, y \in Nat : x < y => <<x, y>> \in R
  BY Less
<1>2. PICK x \in T : \A y \in T : ~ (<<y, x>> \in R)
  <2>1. IsWellFoundedOn(R, Nat)
    BY <1>1
  <2>2. QED
    BY <2>1, WFMin, Zenon
<1>3. ASSUME NEW y \in T PROVE x <= y
  <2>1. x \in Nat /\ y \in Nat /\ ~ (<<y, x>> \in R)
    BY <1>2
  <2>2. ~ (y < x)
    BY <1>1, <2>1
  <2>3. QED
    BY <2>1, <2>2
<1>4. QED
  BY <1>2, <1>3

\* A set with 0, and with every successor of its members, has every natural.
LEMMA Induct ==
  ASSUME NEW S, 0 \in S, \A n \in Nat : n \in S => n + 1 \in S
  PROVE  Nat \subseteq S
<1>1. SUFFICES ASSUME Nat \ S # {} PROVE FALSE
  OBVIOUS
<1>2. PICK n \in Nat \ S : \A m \in Nat \ S : n <= m
  BY <1>1, Least
<1>3. n # 0 /\ n - 1 \in Nat /\ n - 1 \in S
  BY <1>2
<1>4. (n - 1) + 1 \in S
  BY <1>3
<1>5. QED
  BY <1>2, <1>4

-----------------------------------------------------------------------------
(* Lines.                                                                  *)

\* lineSpan finds the beginning of the line of a key,
LEMMA StartOfLine ==
  ASSUME NEW s \in Seq(Cells), NEW k \in KeysOf(s)
  PROVE  /\ LineStart(s, k) \in 1 .. k
         /\ LineStart(s, k) = 1 \/ s[LineStart(s, k) - 1].t = "nl"
         /\ \A j \in LineStart(s, k) .. k - 1 : s[j].t # "nl"
<1> DEFINE T == {m \in Nat : m <= k - 1 /\ (k - m = 1 \/ s[k - m - 1].t = "nl")}
           Good(b) == /\ b = 1 \/ s[b - 1].t = "nl"
                      /\ \A j \in b .. k - 1 : s[j].t # "nl"
<1>1. k \in Nat /\ k >= 1
  BY DEF KeysOf
<1>2. PICK m \in T : \A n \in T : m <= n
  <2>1. k - 1 \in T
    BY <1>1
  <2>2. QED
    BY <2>1, Least
<1>3. k - m \in 1 .. k /\ Good(k - m)
  <2>1. ASSUME NEW j \in k - m .. k - 1 PROVE s[j].t # "nl"
    <3>1. k - j - 1 \in Nat /\ k - j - 1 <= k - 1 /\ k - (k - j - 1) - 1 = j /\ k - j - 1 < m
      BY <1>1, <1>2
    <3>2. k - j - 1 \notin T
      BY <1>2, <3>1
    <3>3. QED
      BY <3>1, <3>2
  <2>2. QED
    BY <1>1, <1>2, <2>1
<1>4. \E b \in 1 .. k : Good(b)
  BY <1>3
<1>5. LineStart(s, k) = CHOOSE b \in 1 .. k : Good(b)
  BY DEF LineStart
<1>6. LineStart(s, k) \in 1 .. k /\ Good(LineStart(s, k))
  <2> HIDE DEF Good
  <2>1. QED
    BY <1>4, <1>5
<1>7. QED
  BY <1>6

\* and its end, behind the line break if there is one.
LEMMA EndOfLine ==
  ASSUME NEW s \in Seq(Cells), WellFormed(s), NEW k \in KeysOf(s)
  PROVE  /\ LineEnd(s, k) \in k + 2 .. Len(s) + 1
         /\ \/ LineEnd(s, k) = Len(s) + 1
            \/ LineEnd(s, k) > k + 2 /\ s[LineEnd(s, k) - 1].t = "nl"
         /\ \A j \in k + 2 .. LineEnd(s, k) - 2 : s[j].t # "nl"
<1> DEFINE Stop(e) == e = Len(s) + 1 \/ (e > k + 2 /\ s[e - 1].t = "nl")
           T == {e \in k + 2 .. Len(s) + 1 : Stop(e)}
           Good(e) == Stop(e) /\ \A j \in k + 2 .. e - 2 : s[j].t # "nl"
<1>1. k \in Nat /\ k >= 1 /\ k < Len(s) /\ Len(s) \in Nat
  BY DEF KeysOf, WellFormed
<1>2. PICK e \in T : \A n \in T : e <= n
  <2>1. Len(s) + 1 \in T /\ T \subseteq Nat
    BY <1>1
  <2> HIDE DEF T
  <2>2. QED
    BY <2>1, Least
<1>3. Good(e)
  <2>1. ASSUME NEW j \in k + 2 .. e - 2 PROVE s[j].t # "nl"
    <3>1. j + 1 \in k + 2 .. Len(s) + 1 /\ j + 1 > k + 2 /\ (j + 1) - 1 = j /\ j + 1 < e
      BY <1>1, <1>2
    <3>2. j + 1 \notin T
      BY <1>1, <1>2, <3>1
    <3>3. QED
      BY <3>1, <3>2
  <2>2. QED
    BY <1>2, <2>1
<1>4. \E d \in k + 2 .. Len(s) + 1 : Good(d)
  BY <1>3
<1>5. LineEnd(s, k) = CHOOSE d \in k + 2 .. Len(s) + 1 : Good(d)
  BY DEF LineEnd
<1>6. LineEnd(s, k) \in k + 2 .. Len(s) + 1 /\ Good(LineEnd(s, k))
  <2> HIDE DEF Good
  <2>1. QED
    BY <1>4, <1>5
<1>7. QED
  BY <1>6

\* Neither a key nor its value is a line break.
LEMMA NotBreaks ==
  ASSUME NEW s \in Seq(Cells), WellFormed(s), NEW k \in KeysOf(s)
  PROVE  k \in Nat /\ k >= 1 /\ k < Len(s) /\ Len(s) \in Nat
         /\ s[k].t # "nl" /\ s[k + 1].t # "nl"
BY DEF KeysOf, WellFormed

\* The span of lineSpan is the line.
LEMMA SpanIsLine ==
  ASSUME NEW s \in Seq(Cells), WellFormed(s), NEW k \in KeysOf(s)
  PROVE  {i \in DOMAIN s : SameLine(s, i, k) /\ SameLine(s, k, i)}
           = LineStart(s, k) .. LineEnd(s, k) - 1
<1> DEFINE b == LineStart(s, k)
           e == LineEnd(s, k)
<1>1. /\ b \in 1 .. k /\ (b = 1 \/ s[b - 1].t = "nl")
      /\ \A j \in b .. k - 1 : s[j].t # "nl"
  BY StartOfLine
<1>2. /\ e \in k + 2 .. Len(s) + 1 /\ (e = Len(s) + 1 \/ (e > k + 2 /\ s[e - 1].t = "nl"))
      /\ \A j \in k + 2 .. e - 2 : s[j].t # "nl"
  BY EndOfLine
<1> HIDE DEF b, e
<1>3. k \in Nat /\ k >= 1 /\ k < Len(s) /\ Len(s) \in Nat /\ s[k].t # "nl" /\ s[k + 1].t # "nl"
  BY NotBreaks
<1>4. ASSUME NEW i \in 1 .. Len(s), SameLine(s, i, k), SameLine(s, k, i) PROVE i \in b .. e - 1
  <2>1. ~ (i < b)
    <3>1. SUFFICES ASSUME i < b PROVE FALSE
      OBVIOUS
    <3>2. b - 1 \in i .. k - 1 /\ s[b - 1].t = "nl"
      BY <1>1, <1>3, <3>1
    <3>3. QED
      BY <1>4, <3>2 DEF SameLine
  <2>2. ~ (i >= e)
    <3>1. SUFFICES ASSUME i >= e PROVE FALSE
      OBVIOUS
    <3>2. e - 1 \in k .. i - 1 /\ s[e - 1].t = "nl"
      BY <1>2, <1>3, <3>1
    <3>3. QED
      BY <1>4, <3>2 DEF SameLine
  <2>3. QED
    BY <1>1, <1>2, <1>3, <2>1, <2>2
<1>5. ASSUME NEW i \in b .. e - 1
      PROVE  i \in 1 .. Len(s) /\ SameLine(s, i, k) /\ SameLine(s, k, i)
  <2>1. i \in 1 .. Len(s)
    BY <1>1, <1>2, <1>3
  <2>2. ASSUME NEW n \in i .. k - 1 PROVE s[n].t # "nl"
    BY <1>1, <1>2, <1>3, <2>1
  <2>3. ASSUME NEW n \in k .. i - 1 PROVE s[n].t # "nl"
    <3>1. n = k \/ n = k + 1 \/ n \in k + 2 .. e - 2
      BY <1>1, <1>2, <1>3, <2>1
    <3>2. QED
      BY <1>2, <1>3, <3>1
  <2>4. QED
    BY <2>1, <2>2, <2>3 DEF SameLine
<1>6. QED
  BY <1>3, <1>4, <1>5 DEF b, e

\* A line that starts within another ends within it.
LEMMA LinesNested ==
  ASSUME NEW s \in Seq(Cells), WellFormed(s), NEW k \in KeysOf(s), NEW n \in KeysOf(s),
         LineStart(s, k) < LineEnd(s, n)
  PROVE  LineEnd(s, k) <= LineEnd(s, n)
<1> DEFINE b == LineStart(s, k)
           d == LineEnd(s, k)
           e == LineEnd(s, n)
<1>1. /\ b \in 1 .. k /\ (b = 1 \/ s[b - 1].t = "nl")
      /\ \A j \in b .. k - 1 : s[j].t # "nl"
  BY StartOfLine
<1>2. /\ d \in k + 2 .. Len(s) + 1 /\ \A j \in k + 2 .. d - 2 : s[j].t # "nl"
  BY EndOfLine
<1>3. /\ e \in n + 2 .. Len(s) + 1 /\ (e = Len(s) + 1 \/ (e > n + 2 /\ s[e - 1].t = "nl"))
  BY EndOfLine
<1>4. /\ k \in Nat /\ k >= 1 /\ k < Len(s) /\ Len(s) \in Nat /\ s[k].t # "nl" /\ s[k + 1].t # "nl"
      /\ n \in Nat /\ n >= 1 /\ n < Len(s)
  BY NotBreaks
<1>5. b < e
  OBVIOUS
<1> HIDE DEF b, d, e
<1>6. ASSUME e = Len(s) + 1 PROVE d <= e
  BY <1>2, <1>4, <1>6
<1>7. ASSUME s[e - 1].t = "nl" PROVE d <= e
  <2>1. e - 1 \notin b .. k - 1 /\ e - 1 # k /\ e - 1 # k + 1 /\ e - 1 \notin k + 2 .. d - 2
    BY <1>1, <1>2, <1>4, <1>7
  <2>2. QED
    BY <1>1, <1>2, <1>3, <1>4, <1>5, <2>1
<1>8. QED
  BY <1>3, <1>6, <1>7 DEF d, e

-----------------------------------------------------------------------------
(* The operations of Bytes.                                                *)

\* What the edits are known to be.
Sound == TypeOK /\ Indexed /\ OneEditPerEntry /\ NothingOnlyInMemory

LEMMA RawFacts ==
  ASSUME TypeOK
  PROVE  /\ raw \in Seq(Cells) /\ WellFormed(raw) /\ Len(raw) \in Nat
         /\ DOMAIN raw = 1 .. Len(raw) /\ KeysOf(raw) \subseteq 1 .. Len(raw)
BY SourcesAssumption DEF TypeOK, KeysOf

\* The three kinds of operations.
IsDeletion(o) == \E p \in deletions : \E k \in EntriesAt(raw, p) :
  o = Op(LineStart(raw, k), LineEnd(raw, k), << >>, k)
IsReplacement(o) == \E p \in Paths \ deletions : \E k \in EntriesAt(raw, p) :
  replacements[p] # << >> /\ o = Op(k + 1, k + 2, replacements[p], k)
IsInsertion(o) == \E i \in DOMAIN insertions : Live(i) /\ o = InsertionOp(i)

LEMMA OpKinds ==
  ASSUME TypeOK, NEW o
  PROVE  o \in Ops <=> IsDeletion(o) \/ IsReplacement(o) \/ IsInsertion(o)
<1>1. deletions \subseteq Paths
  BY DEF TypeOK
<1>2. o \in EntryOps <=> IsDeletion(o) \/ IsReplacement(o)
  <2>1. ASSUME o \in EntryOps PROVE IsDeletion(o) \/ IsReplacement(o)
    BY <2>1 DEF EntryOps, IsDeletion, IsReplacement
  <2>2. ASSUME IsDeletion(o) PROVE o \in EntryOps
    BY <1>1, <2>2 DEF EntryOps, IsDeletion
  <2>3. ASSUME IsReplacement(o) PROVE o \in EntryOps
    BY <2>3 DEF EntryOps, IsReplacement
  <2>4. QED
    BY <2>1, <2>2, <2>3
<1>3. o \in {InsertionOp(i) : i \in {j \in DOMAIN insertions : Live(j)}} <=> IsInsertion(o)
  BY DEF IsInsertion
<1>4. QED
  BY <1>2, <1>3 DEF Ops

\* Cells the document writes itself.
New(text) == text \in Seq(Cells) /\ \A i \in DOMAIN text : text[i].src = 0

LEMMA NewConcat == ASSUME NEW s, NEW t, New(s), New(t) PROVE New(s \o t)
BY DEF New

LEMMA InsertionTyped ==
  ASSUME TypeOK, NEW i \in DOMAIN insertions
  PROVE  insertions[i].path \in Paths /\ insertions[i].after \in Paths \cup {None}
<1> DEFINE R == [after : Paths \cup {None}, path : Paths]
<1>1. insertions \in Seq(R)
  BY DEF TypeOK
<1>2. insertions[i] \in R
  <2> HIDE DEF R
  <2>1. QED
    BY <1>1
<1>3. QED
  BY <1>2

LEMMA NewLine ==
  ASSUME TypeOK, NEW i \in DOMAIN insertions, Live(i)
  PROVE  /\ New(<<KeyCell(insertions[i].path), ValueCell(pending[insertions[i].path], FALSE), LineBreak>>)
         /\ New(AppendPrefix)
<1>1. insertions[i].path \in Seq(STRING) /\ pending[insertions[i].path] \in Values
  <2>1. insertions[i].path \in Paths
    BY InsertionTyped
  <2>2. QED
    BY <2>1, PathsAssumption, ValuesAssumption DEF Live
<1>2. << >> \in Seq(STRING)
  BY EmptySeq
<1>3. KeyCell(insertions[i].path) \in Cells /\ KeyCell(insertions[i].path).src = 0
  BY <1>1 DEF KeyCell, Cell, Cells, CellTypes
<1>4. /\ ValueCell(pending[insertions[i].path], FALSE) \in Cells
      /\ ValueCell(pending[insertions[i].path], FALSE).src = 0
  BY <1>1, <1>2 DEF ValueCell, Cell, Cells, CellTypes
<1>5. LineBreak \in Cells /\ LineBreak.src = 0
  BY <1>2 DEF LineBreak, Cell, Cells, CellTypes
<1>6. New(<< >>) /\ New(<<LineBreak>>)
  BY <1>5 DEF New
<1>7. New(<<KeyCell(insertions[i].path), ValueCell(pending[insertions[i].path], FALSE), LineBreak>>)
  <2> DEFINE a == KeyCell(insertions[i].path)
             b == ValueCell(pending[insertions[i].path], FALSE)
             c == LineBreak
  <2>1. a \in Cells /\ b \in Cells /\ c \in Cells /\ a.src = 0 /\ b.src = 0 /\ c.src = 0
    BY <1>3, <1>4, <1>5
  <2> HIDE DEF a, b, c
  <2>2. New(<<a, b, c>>)
    BY <2>1 DEF New
  <2>3. QED
    BY <2>2 DEF a, b, c
<1>8. New(AppendPrefix)
  BY <1>6, Zenon DEF AppendPrefix
<1>9. QED
  BY <1>7, <1>8

LEMMA NewValue ==
  ASSUME Sound, NEW p \in Paths, replacements[p] # << >>
  PROVE  New(replacements[p])
<1>1. HasEntry(p) /\ values[byPath[p]] \in Values /\ replacements[p] = Formatted(p, values[byPath[p]])
  BY EntryTyped DEF Sound, OneEditPerEntry, TypeOK
<1> DEFINE v == values[byPath[p]]
           lit == /\ HasEntry(p) /\ raw[byPath[p] + 1].literal
                  /\ raw[byPath[p] + 1].value \in Strings /\ v \in LiteralSafe
<1>2. replacements[p] = <<ValueCell(v, lit)>>
  BY <1>1, Zenon DEF Formatted
<1> HIDE DEF lit, v
<1>3. replacements[p] \in Seq(Cells)
  BY DEF Sound, TypeOK
<1>4. ValueCell(v, lit).src = 0
  BY DEF ValueCell, Cell
<1>5. QED
  BY <1>2, <1>3, <1>4 DEF New

\* Every operation has a span of the source or a place in it, and a text of its own.
LEMMA OpShape ==
  ASSUME Sound, NEW o \in Ops
  PROVE  /\ o.start \in 1 .. Len(raw) + 1 /\ o.end \in o.start .. Len(raw) + 1
         /\ New(o.text)
<1>1. /\ raw \in Seq(Cells) /\ WellFormed(raw) /\ Len(raw) \in Nat
      /\ DOMAIN raw = 1 .. Len(raw) /\ KeysOf(raw) \subseteq 1 .. Len(raw)
  BY RawFacts DEF Sound
<1>2. IsDeletion(o) \/ IsReplacement(o) \/ IsInsertion(o)
  BY OpKinds DEF Sound
<1>3. \A k \in KeysOf(raw) : /\ k \in Nat /\ k >= 1 /\ k < Len(raw)
                             /\ LineStart(raw, k) \in 1 .. k
                             /\ LineEnd(raw, k) \in k + 2 .. Len(raw) + 1
  BY <1>1, NotBreaks, StartOfLine, EndOfLine
<1>4. CASE IsDeletion(o)
  <2>1. PICK k \in KeysOf(raw) : o = Op(LineStart(raw, k), LineEnd(raw, k), << >>, k)
    BY <1>4 DEF IsDeletion, EntriesAt
  <2>2. o.start = LineStart(raw, k) /\ o.end = LineEnd(raw, k) /\ o.text = << >>
    BY <2>1 DEF Op
  <2>3. New(<< >>)
    BY DEF New
  <2>4. QED
    BY <1>1, <1>3, <2>2, <2>3
<1>5. CASE IsReplacement(o)
  <2>1. PICK p \in Paths, k \in KeysOf(raw) :
          replacements[p] # << >> /\ o = Op(k + 1, k + 2, replacements[p], k)
    BY <1>5 DEF IsReplacement, EntriesAt
  <2>2. o.start = k + 1 /\ o.end = k + 2 /\ o.text = replacements[p]
    BY <2>1 DEF Op
  <2>3. New(replacements[p])
    BY <2>1, NewValue
  <2>4. QED
    BY <1>1, <1>3, <2>2, <2>3
<1>6. CASE IsInsertion(o)
  <2>1. PICK i \in DOMAIN insertions : Live(i) /\ o = InsertionOp(i)
    BY <1>6 DEF IsInsertion
  <2> DEFINE ins == insertions[i]
             line == <<KeyCell(ins.path), ValueCell(pending[ins.path], FALSE), LineBreak>>
             pos == IF ins.after = None THEN Len(raw) + 1 ELSE LineEnd(raw, byPath[ins.after])
  <2>2. InsertionOp(i) = Op(pos, pos, IF ins.after = None THEN AppendPrefix \o line ELSE line,
                            Len(raw) + i)
    BY DEF InsertionOp
  <2>3. New(line) /\ New(AppendPrefix)
    BY <2>1, NewLine DEF Sound
  <2>4. pos \in 1 .. Len(raw) + 1
    <3>1. CASE ins.after = None
      BY <1>1, <3>1
    <3>2. CASE ins.after # None
      <4>1. ins.after \in Paths /\ HasEntry(ins.after)
        BY <3>2, InsertionTyped DEF Sound, NothingOnlyInMemory
      <4>2. byPath[ins.after] \in KeysOf(raw)
        BY <4>1, EntryTyped DEF Sound
      <4>3. QED
        BY <1>1, <1>3, <3>2, <4>2
    <3>3. QED
      BY <3>1, <3>2
  <2> HIDE DEF line, pos
  <2>5. New(AppendPrefix \o line)
    BY <2>3, NewConcat
  <2>6. o.start = pos /\ o.end = pos /\ o.text \in {AppendPrefix \o line, line}
    BY <2>1, <2>2 DEF Op
  <2>7. New(o.text)
    BY <2>3, <2>5, <2>6
  <2>8. QED
    BY <1>1, <2>4, <2>6, <2>7
<1>7. QED
  BY <1>2, <1>4, <1>5, <1>6

\* An operation that starts within the span of another ends within it.
LEMMA OpsNested ==
  ASSUME Sound, NEW o \in Ops, NEW q \in Ops, q.start <= o.start, o.start < q.end
  PROVE  o.end <= q.end
<1>1. /\ raw \in Seq(Cells) /\ WellFormed(raw) /\ Len(raw) \in Nat
      /\ DOMAIN raw = 1 .. Len(raw) /\ KeysOf(raw) \subseteq 1 .. Len(raw)
  BY RawFacts DEF Sound
<1>2. /\ IsDeletion(o) \/ IsReplacement(o) \/ IsInsertion(o)
      /\ IsDeletion(q) \/ IsReplacement(q) \/ IsInsertion(q)
  BY OpKinds DEF Sound
<1>3. /\ o.start \in 1 .. Len(raw) + 1 /\ o.end \in o.start .. Len(raw) + 1
      /\ q.start \in 1 .. Len(raw) + 1 /\ q.end \in q.start .. Len(raw) + 1
  BY OpShape
<1>4. ASSUME NEW r, IsDeletion(r)
      PROVE  \E k \in KeysOf(raw) : r.start = LineStart(raw, k) /\ r.end = LineEnd(raw, k)
  BY <1>4 DEF IsDeletion, EntriesAt, Op
<1>5. ASSUME NEW r, IsReplacement(r)
      PROVE  \E k \in KeysOf(raw) : r.start = k + 1 /\ r.end = k + 2
  BY <1>5 DEF IsReplacement, EntriesAt, Op
<1>6. ASSUME NEW r, IsInsertion(r) PROVE r.end = r.start
  BY <1>6 DEF IsInsertion, InsertionOp, Op
<1>7. CASE IsInsertion(o)
  BY <1>3, <1>6, <1>7
<1>8. CASE IsReplacement(o)
  <2>1. o.end = o.start + 1
    BY <1>1, <1>5, <1>8
  <2>2. QED
    BY <1>3, <2>1
<1>9. CASE IsDeletion(o) /\ IsDeletion(q)
  <2>1. PICK k \in KeysOf(raw), n \in KeysOf(raw) :
          /\ o.start = LineStart(raw, k) /\ o.end = LineEnd(raw, k)
          /\ q.start = LineStart(raw, n) /\ q.end = LineEnd(raw, n)
    BY <1>4, <1>9
  <2>2. QED
    BY <1>1, <2>1, LinesNested
<1>10. CASE IsDeletion(o) /\ IsReplacement(q)
  <2>1. PICK k \in KeysOf(raw), n \in KeysOf(raw) :
          /\ o.start = LineStart(raw, k) /\ q.start = n + 1 /\ q.end = n + 2
    BY <1>4, <1>5, <1>10
  <2>2. /\ o.start \in 1 .. k /\ (o.start = 1 \/ raw[o.start - 1].t = "nl")
        /\ n >= 1 /\ n \in Nat /\ raw[n].t # "nl"
    BY <1>1, <2>1, StartOfLine, NotBreaks
  <2>3. o.start = n + 1
    BY <1>3, <2>1, <2>2
  <2>4. QED
    BY <2>2, <2>3
<1>11. CASE IsInsertion(q)
  BY <1>3, <1>6, <1>11
<1>12. QED
  BY <1>2, <1>7, <1>8, <1>9, <1>10, <1>11

\* The cells that an operation drops.
Span(o) == o.start .. o.end - 1

\* The cells the edits touch are the spans of the operations.
LEMMA TouchedIsSpans ==
  ASSUME Sound
  PROVE  Touched = UNION {Span(o) : o \in Ops}
<1>1. /\ raw \in Seq(Cells) /\ WellFormed(raw) /\ Len(raw) \in Nat
      /\ DOMAIN raw = 1 .. Len(raw) /\ KeysOf(raw) \subseteq 1 .. Len(raw)
      /\ deletions \subseteq Paths
  BY RawFacts DEF Sound, TypeOK
<1> DEFINE Line(k) == {i \in DOMAIN raw : SameLine(raw, i, k) /\ SameLine(raw, k, i)}
<1>2. ASSUME NEW k \in KeysOf(raw)
      PROVE  Line(k) = Span(Op(LineStart(raw, k), LineEnd(raw, k), << >>, k))
  BY <1>1, SpanIsLine DEF Span, Op
<1>3. ASSUME NEW k \in KeysOf(raw), NEW p
      PROVE  Span(Op(k + 1, k + 2, replacements[p], k)) = {k + 1}
  BY <1>1 DEF Span, Op
<1>4. ASSUME NEW i \in Touched PROVE \E o \in Ops : i \in Span(o)
  <2>1. PICK p \in Paths :
          \/ p \in deletions /\ \E k \in EntriesAt(raw, p) : i \in Line(k)
          \/ /\ p \notin deletions /\ replacements[p] # << >>
             /\ \E k \in EntriesAt(raw, p) : i = k + 1
    BY <1>4 DEF Touched
  <2>2. CASE p \in deletions /\ \E k \in EntriesAt(raw, p) : i \in Line(k)
    <3>1. PICK k \in EntriesAt(raw, p) : i \in Line(k)
      BY <2>2
    <3>2. k \in KeysOf(raw)
      BY DEF EntriesAt
    <3> HIDE DEF Line
    <3>3. IsDeletion(Op(LineStart(raw, k), LineEnd(raw, k), << >>, k))
      BY <2>2 DEF IsDeletion
    <3>4. QED
      BY <1>2, <3>1, <3>2, <3>3, OpKinds DEF Sound
  <2>3. CASE /\ p \notin deletions /\ replacements[p] # << >>
             /\ \E k \in EntriesAt(raw, p) : i = k + 1
    <3>1. PICK k \in EntriesAt(raw, p) : i = k + 1
      BY <2>3
    <3>2. k \in KeysOf(raw)
      BY DEF EntriesAt
    <3>3. IsReplacement(Op(k + 1, k + 2, replacements[p], k))
      BY <2>3 DEF IsReplacement
    <3>4. QED
      BY <1>3, <3>1, <3>2, <3>3, OpKinds DEF Sound
  <2>4. QED
    BY <2>1, <2>2, <2>3
<1>5. ASSUME NEW o \in Ops, NEW i \in Span(o) PROVE i \in Touched
  <2>1. IsDeletion(o) \/ IsReplacement(o) \/ IsInsertion(o)
    BY OpKinds DEF Sound
  <2>2. CASE IsDeletion(o)
    <3>1. PICK p \in deletions, k \in KeysOf(raw) :
            /\ k \in EntriesAt(raw, p)
            /\ o = Op(LineStart(raw, k), LineEnd(raw, k), << >>, k)
      BY <2>2 DEF IsDeletion, EntriesAt
    <3>2. p \in Paths
      BY <1>1
    <3>3. i \in Line(k) /\ p \in Paths
      BY <1>2, <1>5, <3>1, <3>2
    <3>4. QED
      BY <3>1, <3>3 DEF Touched
  <2>3. CASE IsReplacement(o)
    <3>1. PICK p \in Paths \ deletions, k \in KeysOf(raw) :
            /\ k \in EntriesAt(raw, p) /\ replacements[p] # << >>
            /\ o = Op(k + 1, k + 2, replacements[p], k)
      BY <2>3 DEF IsReplacement, EntriesAt
    <3>2. i = k + 1
      BY <1>3, <1>5, <3>1
    <3>3. QED
      BY <3>1, <3>2 DEF Touched
  <2>4. CASE IsInsertion(o)
    <3>1. o.end = o.start
      BY <2>4 DEF IsInsertion, InsertionOp, Op
    <3>2. o.start \in Nat
      BY <1>1, OpShape
    <3>3. QED
      BY <1>5, <3>1, <3>2 DEF Span
  <2>5. QED
    BY <2>1, <2>2, <2>3, <2>4
<1>6. QED
  BY <1>4, <1>5

-----------------------------------------------------------------------------
(* Sorting the operations.                                                 *)

\* An operation is known by its order: that of an entry is the entry's place in the source,
\* that of an insertion comes after all of them.
LEMMA OrderOfOps ==
  ASSUME Sound
  PROVE  /\ \A o \in Ops : o.order \in 1 .. Len(raw) + Len(insertions)
         /\ \A o, q \in Ops : o.order = q.order => o = q
<1>1. /\ raw \in Seq(Cells) /\ Len(raw) \in Nat /\ KeysOf(raw) \subseteq 1 .. Len(raw)
      /\ deletions \subseteq Paths
      /\ Len(insertions) \in Nat /\ DOMAIN insertions = 1 .. Len(insertions)
  BY RawFacts DEF Sound, TypeOK
<1> DEFINE OfEntry(o, p, k) ==
             o = IF p \in deletions THEN Op(LineStart(raw, k), LineEnd(raw, k), << >>, k)
                                    ELSE Op(k + 1, k + 2, replacements[p], k)
<1>2. ASSUME NEW o \in Ops
      PROVE  \/ \E p \in Paths, k \in KeysOf(raw) : HasPath(raw, k, p) /\ OfEntry(o, p, k)
             \/ \E i \in DOMAIN insertions : o = InsertionOp(i)
  <2>1. IsDeletion(o) \/ IsReplacement(o) \/ IsInsertion(o)
    BY OpKinds DEF Sound
  <2>2. QED
    BY <1>1, <2>1 DEF IsDeletion, IsReplacement, IsInsertion, EntriesAt
<1>3. ASSUME NEW o, NEW p, NEW k, OfEntry(o, p, k) PROVE o.order = k
  BY <1>3 DEF Op
<1>4. ASSUME NEW i \in DOMAIN insertions PROVE InsertionOp(i).order = Len(raw) + i
  BY DEF InsertionOp, Op
<1>5. ASSUME NEW o \in Ops PROVE o.order \in 1 .. Len(raw) + Len(insertions)
  <2>1. CASE \E p \in Paths, k \in KeysOf(raw) : HasPath(raw, k, p) /\ OfEntry(o, p, k)
    <3> HIDE DEF OfEntry
    <3>1. o.order \in KeysOf(raw)
      BY <1>3, <2>1
    <3>2. QED
      BY <1>1, <3>1
  <2>2. CASE \E i \in DOMAIN insertions : o = InsertionOp(i)
    BY <1>1, <1>4, <2>2
  <2>3. QED
    BY <1>2, <2>1, <2>2
<1>6. ASSUME NEW o \in Ops, NEW q \in Ops, o.order = q.order PROVE o = q
  <2>1. CASE o.order <= Len(raw)
    <3>1. ASSUME NEW r \in Ops, r.order = o.order
          PROVE  \E p \in Paths : HasPath(raw, o.order, p) /\ OfEntry(r, p, o.order)
      <4>1. ~ \E i \in DOMAIN insertions : r = InsertionOp(i)
        BY <1>1, <1>4, <2>1, <3>1
      <4>2. PICK p \in Paths, k \in KeysOf(raw) : HasPath(raw, k, p) /\ OfEntry(r, p, k)
        BY <1>2, <4>1
      <4>3. k = o.order
        BY <1>3, <3>1, <4>2
      <4>4. QED
        BY <4>2, <4>3
    <3>2. o.order \in KeysOf(raw)
      <4>1. ~ \E i \in DOMAIN insertions : o = InsertionOp(i)
        BY <1>1, <1>4, <2>1
      <4>2. PICK p \in Paths, k \in KeysOf(raw) : OfEntry(o, p, k)
        BY <1>2, <4>1
      <4> HIDE DEF OfEntry
      <4>3. QED
        BY <1>3, <4>2
    <3>3. PICK p \in Paths : HasPath(raw, o.order, p) /\ OfEntry(o, p, o.order)
      BY <3>1
    <3>4. PICK r \in Paths : HasPath(raw, o.order, r) /\ OfEntry(q, r, o.order)
      BY <1>6, <3>1
    <3>5. p = r
      BY <1>1, <3>2, <3>3, <3>4, OnePath
    <3>6. QED
      BY <3>3, <3>4, <3>5
  <2>2. CASE ~(o.order <= Len(raw))
    <3>1. ASSUME NEW r \in Ops, r.order = o.order
          PROVE  \E i \in DOMAIN insertions : r = InsertionOp(i)
      <4>1. ~ \E p \in Paths, k \in KeysOf(raw) : OfEntry(r, p, k)
        <5> HIDE DEF OfEntry
        <5>1. QED
          BY <1>1, <1>3, <2>2, <3>1
      <4>2. QED
        BY <1>2, <4>1
    <3>2. PICK i \in DOMAIN insertions, j \in DOMAIN insertions :
            o = InsertionOp(i) /\ q = InsertionOp(j)
      BY <1>6, <3>1
    <3>3. i = j
      BY <1>1, <1>4, <1>6, <3>2
    <3>4. QED
      BY <3>2, <3>3
  <2>3. QED
    BY <2>1, <2>2
<1>7. QED
  BY <1>5, <1>6

\* Before puts operations with numbers of their own in one order.
Numbered(S) == /\ \A o \in S : o.start \in Nat /\ o.end \in Nat /\ o.order \in Nat
               /\ \A o, q \in S : o.order = q.order => o = q

LEMMA BeforeIsOrder ==
  ASSUME NEW S, Numbered(S)
  PROVE  /\ \A o \in S : ~Before(o, o)
         /\ \A o, q \in S : o # q => Before(o, q) \/ Before(q, o)
         /\ \A o, q, r \in S : Before(o, q) /\ Before(q, r) => Before(o, r)
<1>1. ASSUME NEW o \in S PROVE ~Before(o, o)
  BY DEF Numbered, Before
<1>2. ASSUME NEW o \in S, NEW q \in S, o # q PROVE Before(o, q) \/ Before(q, o)
  BY <1>2 DEF Numbered, Before
<1>3. ASSUME NEW o \in S, NEW q \in S, NEW r \in S, Before(o, q), Before(q, r)
      PROVE  Before(o, r)
  <2>1. /\ o.start \in Nat /\ o.end \in Nat /\ o.order \in Nat
        /\ q.start \in Nat /\ q.end \in Nat /\ q.order \in Nat
        /\ r.start \in Nat /\ r.end \in Nat /\ r.order \in Nat
    BY DEF Numbered
  <2>2. QED
    BY <1>3, <2>1 DEF Before
<1>4. QED
  BY <1>1, <1>2, <1>3

\* A finite set of such operations can be sorted: each goes to the place that the number
\* of those before it gives.
LEMMA CanBeSorted ==
  ASSUME NEW S, IsFiniteSet(S), Numbered(S)
  PROVE  \E s \in SetToSeqs(S) : \A i, j \in DOMAIN s : i < j => Before(s[i], s[j])
<1> DEFINE n == Cardinality(S)
           Preds(o) == {q \in S : Before(q, o)}
           rank == [o \in S |-> Cardinality(Preds(o))]
           s == [i \in 1 .. n |-> CHOOSE o \in S : rank[o] = i - 1]
<1>1. n \in Nat
  BY FS_CardinalityType
<1>2. ASSUME NEW o \in S
      PROVE  /\ IsFiniteSet(Preds(o)) /\ Cardinality(Preds(o)) \in Nat
             /\ Cardinality(Preds(o)) \in 0 .. n - 1
  <2>1. Preds(o) \in SUBSET (S \ {o})
    BY BeforeIsOrder
  <2>2. IsFiniteSet(S \ {o}) /\ Cardinality(S \ {o}) = n - 1
    BY FS_RemoveElement
  <2> HIDE DEF Preds
  <2>3. IsFiniteSet(Preds(o)) /\ Cardinality(Preds(o)) <= n - 1
    BY <2>1, <2>2, FS_Subset
  <2>4. Cardinality(Preds(o)) \in Nat
    BY <2>3, FS_CardinalityType
  <2>5. QED
    BY <1>1, <2>3, <2>4
<1>3. ASSUME NEW o \in S, NEW q \in S, Before(o, q) PROVE rank[o] < rank[q]
  <2>1. Preds(o) \cup {o} \in SUBSET Preds(q) /\ o \notin Preds(o)
    BY <1>3, BeforeIsOrder
  <2>2. IsFiniteSet(Preds(o)) /\ IsFiniteSet(Preds(q))
    BY <1>2
  <2>3. Cardinality(Preds(o)) \in Nat /\ Cardinality(Preds(q)) \in Nat
    BY <1>2
  <2> HIDE DEF Preds
  <2>4. Cardinality(Preds(o) \cup {o}) = Cardinality(Preds(o)) + 1
    BY <2>1, <2>2, FS_AddElement
  <2>5. Cardinality(Preds(o) \cup {o}) <= Cardinality(Preds(q))
    BY <2>1, <2>2, FS_Subset
  <2>6. QED
    BY <2>3, <2>4, <2>5
<1>4. \A o \in S : rank[o] \in 0 .. n - 1
  BY <1>2
<1> HIDE DEF Preds
<1>5. rank \in Injection(S, 0 .. n - 1)
  <2>1. rank \in [S -> 0 .. n - 1]
    BY <1>4
  <2>2. ASSUME NEW o \in S, NEW q \in S, rank[o] = rank[q] PROVE o = q
    <3>1. SUFFICES ASSUME o # q PROVE FALSE
      OBVIOUS
    <3>2. rank[o] < rank[q] \/ rank[q] < rank[o]
      BY <1>3, <3>1, BeforeIsOrder
    <3>3. QED
      BY <1>1, <1>4, <2>2, <3>2
  <2> HIDE DEF rank
  <2>3. QED
    BY <2>1, <2>2 DEF Injection, IsInjective
<1>6. rank \in Surjection(S, 0 .. n - 1)
  <2>1. IsFiniteSet(0 .. n - 1) /\ Cardinality(0 .. n - 1) = n
    BY <1>1, FS_Interval
  <2> HIDE DEF rank
  <2>2. QED
    BY <1>5, <2>1, FS_Injection
<1>7. ASSUME NEW i \in 1 .. n PROVE s[i] \in S /\ rank[s[i]] = i - 1
  <2>1. i - 1 \in 0 .. n - 1
    BY <1>1
  <2> HIDE DEF rank
  <2>2. \E o \in S : rank[o] = i - 1
    BY <1>6, <2>1 DEF Surjection
  <2>3. QED
    BY <2>2
<1>8. s \in [1 .. n -> S] /\ DOMAIN s = 1 .. n
  BY <1>7
<1> HIDE DEF s, rank
<1>9. s \in SetToSeqs(S)
  <2>1. ASSUME NEW i \in 1 .. n, NEW j \in 1 .. n, i # j PROVE s[i] # s[j]
    BY <1>1, <1>7, <2>1
  <2>2. QED
    BY <1>8, <2>1 DEF SetToSeqs
<1>10. ASSUME NEW i \in 1 .. n, NEW j \in 1 .. n, i < j PROVE Before(s[i], s[j])
  <2>1. s[i] \in S /\ s[j] \in S /\ rank[s[i]] = i - 1 /\ rank[s[j]] = j - 1
    BY <1>7
  <2>2. s[i] # s[j] /\ ~(rank[s[j]] < rank[s[i]])
    BY <1>10, <2>1
  <2>3. QED
    BY <1>3, <2>1, <2>2, BeforeIsOrder
<1>11. QED
  BY <1>8, <1>9, <1>10

\* The sorted operations are all of them, in the order of Before.
LEMMA SortedOps ==
  ASSUME Sound
  PROVE  /\ Len(Sorted(Ops)) \in Nat
         /\ Sorted(Ops) \in [1 .. Len(Sorted(Ops)) -> Ops]
         /\ \A o \in Ops : \E i \in 1 .. Len(Sorted(Ops)) : Sorted(Ops)[i] = o
         /\ \A i, j \in 1 .. Len(Sorted(Ops)) : i < j => Before(Sorted(Ops)[i], Sorted(Ops)[j])
<1>1. Numbered(Ops)
  <2>1. ASSUME NEW o \in Ops PROVE o.start \in Nat /\ o.end \in Nat /\ o.order \in Nat
    <3>1. Len(raw) \in Nat /\ Len(insertions) \in Nat
      BY RawFacts DEF Sound, TypeOK
    <3>2. o.order \in 1 .. Len(raw) + Len(insertions)
      BY OrderOfOps
    <3>3. o.start \in 1 .. Len(raw) + 1 /\ o.end \in o.start .. Len(raw) + 1
      BY OpShape
    <3>4. QED
      BY <3>1, <3>2, <3>3
  <2>2. QED
    BY <2>1, OrderOfOps DEF Numbered
<1>2. IsFiniteSet(Ops)
  <2> DEFINE N == Len(raw) + Len(insertions)
             f == [o \in Ops |-> o.order]
  <2>1. N \in Nat
    BY RawFacts DEF Sound, TypeOK
  <2>2. f \in [Ops -> 1 .. N] /\ \A o, q \in Ops : f[o] = f[q] => o = q
    BY OrderOfOps
  <2>3. IsFiniteSet(1 .. N)
    BY <2>1, FS_Interval
  <2> HIDE DEF f, N
  <2>4. f \in Injection(Ops, 1 .. N)
    BY <2>2 DEF Injection, IsInjective
  <2>5. QED
    BY <2>3, <2>4, FS_Injection
<1> DEFINE s == Sorted(Ops)
           n == Cardinality(Ops)
<1>3. s \in SetToSeqs(Ops) /\ \A i, j \in DOMAIN s : i < j => Before(s[i], s[j])
  <2>1. \E t \in SetToSeqs(Ops) : \A i, j \in DOMAIN t : i < j => Before(t[i], t[j])
    BY <1>1, <1>2, CanBeSorted
  <2>2. QED
    BY <2>1 DEF Sorted
<1> HIDE DEF s
<1>4. n \in Nat
  BY <1>2, FS_CardinalityType
<1>5. s \in [1 .. n -> Ops] /\ \A i, j \in 1 .. n : s[i] = s[j] => i = j
  BY <1>3 DEF SetToSeqs
<1>6. DOMAIN s = 1 .. n /\ s \in Seq(Ops) /\ Len(s) = n
  BY <1>4, <1>5
<1>7. s \in Surjection(1 .. n, Ops)
  <2>1. s \in Injection(1 .. n, Ops)
    BY <1>5 DEF Injection, IsInjective
  <2>2. Cardinality(1 .. n) = n
    BY <1>4, FS_Interval
  <2>3. QED
    BY <1>2, <2>1, <2>2, FS_Injection
<1>8. \A o \in Ops : \E i \in 1 .. n : s[i] = o
  BY <1>7 DEF Surjection
<1>9. QED
  BY <1>3, <1>4, <1>5, <1>6, <1>8 DEF s

-----------------------------------------------------------------------------
(* The loop of Bytes.                                                      *)

Begin == [out |-> << >>, cursor |-> 1]

\* What the loop has after each of the operations.
LEMMA LoopExists ==
  ASSUME NEW ops, NEW m \in Nat
  PROVE  \E d : d = [n \in 0 .. m |-> IF n = 0 THEN Begin ELSE Apply(d[n - 1], ops[n])]
<1> DEFINE Is(d, k) == d = [n \in 0 .. k |-> IF n = 0 THEN Begin ELSE Apply(d[n - 1], ops[n])]
           S == {k \in Nat : \E d : Is(d, k)}
<1>1. 0 \in S
  <2> DEFINE d == [n \in 0 .. 0 |-> Begin]
  <2>1. Is(d, 0)
    OBVIOUS
  <2>2. QED
    BY <2>1
<1>2. ASSUME NEW k \in Nat, k \in S PROVE k + 1 \in S
  <2>1. PICK d : Is(d, k)
    BY <1>2
  <2> DEFINE next == Apply(d[k], ops[k + 1])
             e == [n \in 0 .. k + 1 |-> IF n = k + 1 THEN next ELSE d[n]]
  <2>2. ASSUME NEW n \in 0 .. k + 1
        PROVE  e[n] = IF n = 0 THEN Begin ELSE Apply(e[n - 1], ops[n])
    <3> HIDE DEF next
    <3>1. CASE n = k + 1
      <4>1. e[n] = next /\ e[n - 1] = d[k] /\ n # 0
        BY <3>1
      <4>2. QED
        BY <3>1, <4>1 DEF next
    <3>2. CASE n # k + 1 /\ n # 0
      <4>1. n \in 0 .. k /\ n - 1 \in 0 .. k + 1 /\ n - 1 # k + 1
        BY <3>2
      <4>2. e[n] = d[n] /\ e[n - 1] = d[n - 1]
        BY <4>1
      <4>3. d[n] = Apply(d[n - 1], ops[n])
        BY <2>1, <3>2, <4>1
      <4>4. QED
        BY <3>2, <4>2, <4>3
    <3>3. CASE n = 0
      <4>1. e[n] = d[n] /\ d[n] = Begin
        BY <2>1, <3>3
      <4>2. QED
        BY <3>3, <4>1
    <3>4. QED
      BY <3>1, <3>2, <3>3
  <2> HIDE DEF next
  <2>3. e = [n \in 0 .. k + 1 |-> e[n]]
    OBVIOUS
  <2> HIDE DEF e
  <2>4. Is(e, k + 1)
    BY <2>2, <2>3
  <2>5. QED
    BY <2>4
<1>3. Nat \subseteq S
  <2> HIDE DEF S
  <2>1. QED
    BY <1>1, <1>2, Induct
<1>4. QED
  BY <1>3

\* Bytes is what the loop has at the end, and the rest of the source.
LEMMA BytesLoop ==
  ASSUME Sound
  PROVE  \E d : /\ d[0] = Begin
                /\ \A n \in 1 .. Len(Sorted(Ops)) : d[n] = Apply(d[n - 1], Sorted(Ops)[n])
                /\ Bytes = d[Len(Sorted(Ops))].out
                             \o SubSeq(raw, d[Len(Sorted(Ops))].cursor, Len(raw))
<1> DEFINE ops == Sorted(Ops)
           N == Len(ops)
           Is(d) == d = [n \in 0 .. N |-> IF n = 0 THEN Begin ELSE Apply(d[n - 1], ops[n])]
           d == CHOOSE d : Is(d)
<1>1. N \in Nat
  BY SortedOps
<1>2. Is(d)
  <2>1. \E e : Is(e)
    <3> HIDE DEF ops, N
    <3>1. QED
      BY <1>1, LoopExists
  <2> HIDE DEF Is
  <2>2. QED
    BY <2>1
<1>3. Bytes = d[N].out \o SubSeq(raw, d[N].cursor, Len(raw))
  BY DEF Bytes, Begin
<1> HIDE DEF d
<1>4. d[0] = Begin /\ \A n \in 1 .. N : d[n] = Apply(d[n - 1], ops[n])
  <2> HIDE DEF ops, N
  <2>1. 0 \in 0 .. N /\ \A n \in 1 .. N : n \in 0 .. N /\ n # 0
    BY <1>1
  <2>2. QED
    BY <1>2, <2>1
<1>5. QED
  BY <1>3, <1>4

\* out has the cells of K, in their order, and cells that are not of the source.
InPlace(out, K) ==
  /\ out \in Seq(Cells)
  /\ {out[i].src : i \in Own(out)} = K
  /\ \A i \in Own(out) : out[i] = raw[out[i].src]
  /\ \A i, j \in Own(out) : i < j => out[i].src < out[j].src

LEMMA AddNew ==
  ASSUME NEW out, NEW K, InPlace(out, K), NEW text, New(text)
  PROVE  InPlace(out \o text, K)
<1> DEFINE w == out \o text
<1>1. out \in Seq(Cells) /\ text \in Seq(Cells) /\ Len(out) \in Nat /\ Len(text) \in Nat
      /\ DOMAIN out = 1 .. Len(out) /\ DOMAIN text = 1 .. Len(text)
  BY DEF InPlace, New
<1>2. /\ w \in Seq(Cells) /\ DOMAIN w = 1 .. Len(out) + Len(text)
      /\ \A i \in 1 .. Len(out) + Len(text) :
           w[i] = IF i <= Len(out) THEN out[i] ELSE text[i - Len(out)]
  BY <1>1, ConcatProperties
<1> HIDE DEF w
<1>3. Own(w) = Own(out) /\ \A i \in Own(w) : w[i] = out[i]
  <2>1. ASSUME NEW i \in Own(w) PROVE i \in Own(out) /\ w[i] = out[i]
    <3>1. i \in 1 .. Len(out) + Len(text) /\ w[i].src # 0
      BY <1>2 DEF Own
    <3>2. i <= Len(out)
      <4>1. SUFFICES ASSUME ~(i <= Len(out)) PROVE FALSE
        OBVIOUS
      <4>2. w[i] = text[i - Len(out)] /\ i - Len(out) \in DOMAIN text
        BY <1>1, <1>2, <3>1, <4>1
      <4>3. QED
        BY <3>1, <4>2 DEF New
    <3>3. QED
      BY <1>1, <1>2, <3>1, <3>2 DEF Own
  <2>2. ASSUME NEW i \in Own(out) PROVE i \in Own(w)
    BY <1>1, <1>2 DEF Own
  <2>3. QED
    BY <2>1, <2>2
<1>4. InPlace(w, K)
  BY <1>2, <1>3 DEF InPlace
<1>5. QED
  BY <1>4 DEF w

LEMMA AddOld ==
  ASSUME TypeOK, NEW c \in 1 .. Len(raw) + 1, NEW e \in c - 1 .. Len(raw),
         NEW out, NEW K, K \subseteq 1 .. c - 1, InPlace(out, K)
  PROVE  InPlace(out \o SubSeq(raw, c, e), K \cup (c .. e))
<1> DEFINE old == SubSeq(raw, c, e)
           w == out \o old
<1>1. raw \in Seq(Cells) /\ WellFormed(raw) /\ Len(raw) \in Nat /\ DOMAIN raw = 1 .. Len(raw)
  BY RawFacts
<1>2. /\ old \in Seq(Cells) /\ Len(old) = e - c + 1 /\ Len(old) \in Nat
      /\ \A i \in 1 .. e - c + 1 : old[i] = raw[c + i - 1]
  <2>1. \A i \in c .. e : raw[i] \in Cells
    BY <1>1
  <2>2. QED
    BY <1>1, <2>1, SubSeqProperties
<1>3. \A i \in 1 .. e - c + 1 : old[i].src = c + i - 1
  BY <1>1, <1>2 DEF WellFormed
<1> HIDE DEF old
<1>4. out \in Seq(Cells) /\ Len(out) \in Nat /\ DOMAIN out = 1 .. Len(out)
  BY DEF InPlace
<1> DEFINE n == Len(out)
<1>5. /\ w \in Seq(Cells) /\ DOMAIN w = 1 .. n + Len(old)
      /\ \A i \in 1 .. n : w[i] = out[i]
      /\ \A i \in 1 .. e - c + 1 : w[n + i] = old[i]
  <2>1. /\ w \in Seq(Cells) /\ Len(w) = n + Len(old)
        /\ \A i \in 1 .. n + Len(old) : w[i] = IF i <= n THEN out[i] ELSE old[i - n]
    BY <1>2, <1>4, ConcatProperties
  <2>2. n \in Nat
    BY <1>4
  <2> HIDE DEF n, w
  <2>3. ASSUME NEW i \in 1 .. e - c + 1 PROVE w[n + i] = old[i]
    <3>1. n + i \in 1 .. n + Len(old) /\ ~(n + i <= n) /\ (n + i) - n = i
      BY <1>2, <2>2
    <3>2. QED
      BY <2>1, <3>1
  <2>4. ASSUME NEW i \in 1 .. n PROVE w[i] = out[i]
    BY <1>2, <2>1, <2>2
  <2>5. QED
    BY <2>1, <2>3, <2>4
<1> HIDE DEF w, n
<1>6. n \in Nat /\ DOMAIN out = 1 .. n
  BY <1>4 DEF n
<1>7. \A i \in Own(w) : i \in Own(out) \/ i \in n + 1 .. n + Len(old)
  BY <1>1, <1>2, <1>5, <1>6 DEF Own
<1>8. \A i \in Own(out) : i \in 1 .. n /\ i \in Own(w) /\ w[i] = out[i] /\ w[i].src \in 1 .. c - 1
  <2>1. ASSUME NEW i \in Own(out)
        PROVE  i \in 1 .. n /\ i \in Own(w) /\ w[i] = out[i] /\ w[i].src \in 1 .. c - 1
    <3>1. out[i].src \in 1 .. c - 1
      BY DEF InPlace
    <3>2. i \in 1 .. n /\ out[i].src # 0
      BY <1>6 DEF Own
    <3>3. w[i] = out[i]
      BY <1>5, <3>2
    <3>4. i \in DOMAIN w
      BY <1>2, <1>5, <1>6, <3>2
    <3>5. QED
      BY <3>1, <3>2, <3>3, <3>4 DEF Own
  <2>2. QED
    BY <2>1
<1>9. \A i \in n + 1 .. n + Len(old) :
        i \in Own(w) /\ w[i].src = c + (i - n) - 1 /\ w[i] = raw[c + (i - n) - 1]
  <2>1. ASSUME NEW i \in n + 1 .. n + Len(old)
        PROVE  i \in Own(w) /\ w[i].src = c + (i - n) - 1 /\ w[i] = raw[c + (i - n) - 1]
    <3>1. i - n \in 1 .. e - c + 1 /\ n + (i - n) = i
      BY <1>1, <1>2, <1>6
    <3>2. w[i] = old[i - n]
      BY <1>5, <3>1
    <3>3. w[i].src = c + (i - n) - 1 /\ w[i] = raw[c + (i - n) - 1]
      BY <1>2, <1>3, <3>1, <3>2
    <3>4. c + (i - n) - 1 # 0
      BY <1>1, <3>1
    <3>5. QED
      BY <1>2, <1>5, <1>6, <3>3, <3>4 DEF Own
  <2>2. QED
    BY <2>1
<1>10. {w[i].src : i \in Own(w)} = K \cup (c .. e)
  <2>1. ASSUME NEW i \in Own(w) PROVE w[i].src \in K \cup (c .. e)
    <3>1. CASE i \in Own(out)
      BY <1>8, <3>1 DEF InPlace
    <3>2. CASE i \in n + 1 .. n + Len(old)
      BY <1>1, <1>2, <1>6, <1>9, <3>2
    <3>3. QED
      BY <1>7, <3>1, <3>2
  <2>2. ASSUME NEW j \in K PROVE \E i \in Own(w) : w[i].src = j
    <3>1. PICK i \in Own(out) : out[i].src = j
      BY DEF InPlace
    <3>2. QED
      BY <1>8, <3>1
  <2>3. ASSUME NEW j \in c .. e PROVE \E i \in Own(w) : w[i].src = j
    <3>1. n + (j - c + 1) \in n + 1 .. n + Len(old) /\ c + ((n + (j - c + 1)) - n) - 1 = j
      BY <1>1, <1>2, <1>6
    <3>2. QED
      BY <1>9, <3>1
  <2>4. QED
    BY <2>1, <2>2, <2>3
<1>11. \A i \in Own(w) : w[i] = raw[w[i].src]
  BY <1>7, <1>8, <1>9 DEF InPlace
<1>12. \A i, j \in Own(w) : i < j => w[i].src < w[j].src
  <2>1. ASSUME NEW i \in Own(w), NEW j \in Own(w), i < j PROVE w[i].src < w[j].src
    <3>1. CASE i \in Own(out) /\ j \in Own(out)
      BY <1>8, <2>1, <3>1 DEF InPlace
    <3>2. CASE i \in Own(out) /\ j \in n + 1 .. n + Len(old)
      <4>1. w[i].src \in 1 .. c - 1 /\ w[j].src = c + (j - n) - 1
        BY <1>8, <1>9, <3>2
      <4>2. QED
        BY <1>1, <1>2, <1>6, <3>2, <4>1
    <3>3. CASE i \in n + 1 .. n + Len(old) /\ j \in n + 1 .. n + Len(old)
      <4>1. w[i].src = c + (i - n) - 1 /\ w[j].src = c + (j - n) - 1
        BY <1>9, <3>3
      <4>2. QED
        BY <1>1, <1>2, <1>6, <2>1, <3>3, <4>1
    <3>4. CASE i \in n + 1 .. n + Len(old) /\ j \in Own(out)
      BY <1>2, <1>6, <1>8, <2>1, <3>4
    <3>5. QED
      BY <1>7, <3>1, <3>2, <3>3, <3>4
  <2>2. QED
    BY <2>1
<1>13. InPlace(w, K \cup (c .. e))
  BY <1>5, <1>10, <1>11, <1>12 DEF InPlace
<1>14. QED
  BY <1>13 DEF w, old

\* What the loop has after n operations: every span up to now ends before the cursor, which
\* is the end of one of them, and before the cursor nothing is lost but what is touched.
Looped(done, n) ==
  /\ done.cursor \in 1 .. Len(raw) + 1
  /\ \A m \in 1 .. n : Sorted(Ops)[m].end <= done.cursor
  /\ done.cursor = 1 \/ \E m \in 1 .. n : Sorted(Ops)[m].end = done.cursor
  /\ InPlace(done.out, (1 .. done.cursor - 1) \ Touched)

LEMMA LoopStarts == ASSUME Sound PROVE Looped(Begin, 0)
<1>1. Len(raw) \in Nat /\ Begin.cursor = 1 /\ Begin.out = << >>
  BY RawFacts DEF Sound, Begin
<1>2. InPlace(<< >>, {})
  BY DEF InPlace, Own
<1>3. (1 .. 1 - 1) \ Touched = {}
  OBVIOUS
<1>4. QED
  BY <1>1, <1>2, <1>3 DEF Looped

\* The operations, in order, start ever later.
LEMMA SortedSpans ==
  ASSUME Sound
  PROVE  /\ Len(raw) \in Nat /\ Len(Sorted(Ops)) \in Nat
         /\ \A i \in 1 .. Len(Sorted(Ops)) :
              LET o == Sorted(Ops)[i] IN
              /\ o \in Ops /\ o.start \in Nat /\ o.end \in Nat
              /\ 1 <= o.start /\ o.start <= o.end /\ o.end <= Len(raw) + 1
         /\ \A i, j \in 1 .. Len(Sorted(Ops)) : i < j => Sorted(Ops)[i].start <= Sorted(Ops)[j].start
<1> DEFINE s == Sorted(Ops)
<1>1. /\ Len(s) \in Nat /\ s \in [1 .. Len(s) -> Ops]
      /\ \A i, j \in 1 .. Len(s) : i < j => Before(s[i], s[j])
  BY SortedOps
<1> HIDE DEF s
<1>2. Len(raw) \in Nat
  BY RawFacts DEF Sound
<1>3. ASSUME NEW i \in 1 .. Len(s)
      PROVE  /\ s[i] \in Ops /\ s[i].start \in Nat /\ s[i].end \in Nat
             /\ 1 <= s[i].start /\ s[i].start <= s[i].end /\ s[i].end <= Len(raw) + 1
  <2>1. s[i] \in Ops
    BY <1>1
  <2>2. s[i].start \in 1 .. Len(raw) + 1 /\ s[i].end \in s[i].start .. Len(raw) + 1
    BY <2>1, OpShape
  <2>3. QED
    BY <1>2, <2>1, <2>2
<1>4. ASSUME NEW i \in 1 .. Len(s), NEW j \in 1 .. Len(s), i < j PROVE s[i].start <= s[j].start
  <2>1. Before(s[i], s[j]) /\ s[i].start \in Nat /\ s[j].start \in Nat
    BY <1>1, <1>3, <1>4
  <2>2. QED
    BY <2>1 DEF Before
<1>5. QED
  BY <1>1, <1>2, <1>3, <1>4 DEF s

\* Between the cursor and the next operation nothing is touched,
LEMMA Ahead ==
  ASSUME Sound, NEW n \in 1 .. Len(Sorted(Ops)), NEW done, Looped(done, n - 1)
  PROVE  \A i \in done.cursor .. Sorted(Ops)[n].start - 1 : i \notin Touched
<1> DEFINE s == Sorted(Ops)
           op == s[n]
           c == done.cursor
<1>1. /\ Len(s) \in Nat /\ \A o \in Ops : \E i \in 1 .. Len(s) : s[i] = o
  BY SortedOps
<1>2. /\ Len(raw) \in Nat /\ c \in 1 .. Len(raw) + 1
      /\ \A m \in 1 .. n - 1 : s[m].end <= c
  BY RawFacts DEF Looped, Sound
<1>3. /\ \A i \in 1 .. Len(s) :
              /\ s[i] \in Ops /\ s[i].start \in Nat /\ s[i].end \in Nat
              /\ 1 <= s[i].start /\ s[i].start <= s[i].end /\ s[i].end <= Len(raw) + 1
      /\ \A i, j \in 1 .. Len(s) : i < j => s[i].start <= s[j].start
  BY SortedSpans
<1> HIDE DEF s, c
<1>4. n \in Nat /\ n >= 1 /\ n <= Len(s) /\ n \in 1 .. Len(s)
  BY <1>1 DEF s
<1>5. ASSUME NEW i \in c .. op.start - 1, NEW q \in Ops, i \in Span(q) PROVE FALSE
  <2>1. PICK j \in 1 .. Len(s) : s[j] = q
    BY <1>1
  <2>2. q.start <= i /\ i < q.end /\ i \in Nat
    BY <1>2, <1>3, <1>4, <1>5, <2>1 DEF Span
  <2>3. CASE j < n
    <3>1. q.end <= c
      BY <1>2, <1>4, <2>1, <2>3
    <3>2. QED
      BY <1>2, <1>3, <1>4, <1>5, <2>1, <2>2, <3>1
  <2>4. CASE ~(j < n)
    <3>1. op.start <= q.start
      <4>1. j = n \/ n < j
        BY <1>4, <2>4
      <4>2. QED
        BY <1>3, <1>4, <2>1, <4>1
    <3>2. QED
      BY <1>2, <1>3, <1>4, <1>5, <2>1, <2>2, <3>1
  <2>5. QED
    BY <2>3, <2>4
<1>6. QED
  BY <1>5, TouchedIsSpans DEF s, c

\* and nothing behind the cursor after the last one.
LEMMA Behind ==
  ASSUME Sound, NEW done, Looped(done, Len(Sorted(Ops)))
  PROVE  \A i \in done.cursor .. Len(raw) : i \notin Touched
<1> DEFINE s == Sorted(Ops)
           N == Len(s)
           c == done.cursor
<1>1. \A o \in Ops : \E i \in 1 .. N : s[i] = o
  BY SortedOps
<1>2. Len(raw) \in Nat /\ c \in 1 .. Len(raw) + 1 /\ \A m \in 1 .. N : s[m].end <= c
  BY RawFacts DEF Looped, Sound
<1>3. \A o \in Ops : o.start \in 1 .. Len(raw) + 1 /\ o.end \in o.start .. Len(raw) + 1
  BY OpShape
<1> HIDE DEF s, N, c
<1>4. ASSUME NEW i \in c .. Len(raw), NEW q \in Ops, i \in Span(q) PROVE FALSE
  <2>1. q.end <= c /\ q.start \in 1 .. Len(raw) + 1 /\ q.end \in q.start .. Len(raw) + 1
    BY <1>1, <1>2, <1>3
  <2>2. QED
    BY <1>2, <1>4, <2>1 DEF Span
<1>5. QED
  BY <1>4, TouchedIsSpans DEF c

LEMMA LoopStep ==
  ASSUME Sound, NEW n \in 1 .. Len(Sorted(Ops)), NEW done, Looped(done, n - 1)
  PROVE  Looped(Apply(done, Sorted(Ops)[n]), n)
<1> DEFINE s == Sorted(Ops)
           op == s[n]
           c == done.cursor
           more == Apply(done, op)
<1>1. /\ Len(s) \in Nat /\ s \in [1 .. Len(s) -> Ops]
      /\ \A o \in Ops : \E i \in 1 .. Len(s) : s[i] = o
      /\ \A i, j \in 1 .. Len(s) : i < j => Before(s[i], s[j])
  BY SortedOps
<1>2. /\ Len(raw) \in Nat /\ c \in 1 .. Len(raw) + 1
      /\ \A m \in 1 .. n - 1 : s[m].end <= c
      /\ c = 1 \/ \E m \in 1 .. n - 1 : s[m].end = c
      /\ InPlace(done.out, (1 .. c - 1) \ Touched)
  BY RawFacts DEF Looped, Sound
<1> HIDE DEF s, c
<1>3. n \in Nat /\ n >= 1 /\ n <= Len(s) /\ \A m \in 1 .. n - 1 : m \in 1 .. Len(s) /\ m < n
  BY <1>1 DEF s
<1>4. \A i \in 1 .. Len(s) : /\ s[i] \in Ops /\ s[i].start \in 1 .. Len(raw) + 1
                             /\ s[i].end \in s[i].start .. Len(raw) + 1
                             /\ s[i].start \in Nat /\ s[i].end \in Nat
  <2>1. ASSUME NEW i \in 1 .. Len(s)
        PROVE  /\ s[i] \in Ops /\ s[i].start \in 1 .. Len(raw) + 1
               /\ s[i].end \in s[i].start .. Len(raw) + 1
    BY <1>1, OpShape
  <2>2. QED
    BY <1>2, <2>1
<1>5. \A i, j \in 1 .. Len(s) : i < j => s[i].start <= s[j].start
  BY <1>1, <1>4 DEF Before
<1>6. op \in Ops /\ op.start \in 1 .. Len(raw) + 1 /\ op.end \in op.start .. Len(raw) + 1
      /\ n \in 1 .. Len(s)
  BY <1>1, <1>3, <1>4
<1>7. CASE op.start < c
  <2>1. more = done
    BY <1>7 DEF Apply, c
  <2>2. op.end <= c
    <3>1. PICK m \in 1 .. n - 1 : s[m].end = c
      BY <1>2, <1>6, <1>7
    <3>2. s[m] \in Ops /\ s[m].start <= op.start /\ op.start < s[m].end
      BY <1>3, <1>4, <1>5, <1>6, <1>7, <3>1
    <3>3. QED
      BY <1>6, <3>1, <3>2, OpsNested
  <2>3. \A m \in 1 .. n : s[m].end <= c
    BY <1>2, <1>3, <2>2
  <2>4. c = 1 \/ \E m \in 1 .. n : s[m].end = c
    BY <1>2, <1>3
  <2>5. QED
    BY <1>2, <2>1, <2>3, <2>4 DEF Looped, c, s
<1>8. CASE ~(op.start < c)
  <2> DEFINE mid == done.out \o SubSeq(raw, c, op.start - 1)
  <2>1. more.out = mid \o op.text /\ more.cursor = op.end
    BY <1>8 DEF Apply, c
  <2>2. \A i \in c .. op.start - 1 : i \notin Touched
    BY Ahead DEF c, s
  <2>3. \A i \in op.start .. op.end - 1 : i \in Touched
    BY <1>6, TouchedIsSpans DEF Span
  <2>4. InPlace(mid, ((1 .. c - 1) \ Touched) \cup (c .. op.start - 1))
    <3>1. op.start - 1 \in c - 1 .. Len(raw)
      BY <1>2, <1>6, <1>8
    <3>2. (1 .. c - 1) \ Touched \subseteq 1 .. c - 1
      OBVIOUS
    <3>3. TypeOK
      BY DEF Sound
    <3> HIDE DEF op
    <3>4. QED
      BY <1>2, <3>1, <3>2, <3>3, AddOld
  <2>5. InPlace(mid \o op.text, ((1 .. c - 1) \ Touched) \cup (c .. op.start - 1))
    <3>1. New(op.text)
      BY <1>6, OpShape
    <3> HIDE DEF mid, op
    <3>2. QED
      BY <2>4, <3>1, AddNew
  <2>6. ((1 .. c - 1) \ Touched) \cup (c .. op.start - 1) = (1 .. op.end - 1) \ Touched
    <3>1. c \in Nat /\ c >= 1 /\ op.start \in Nat /\ op.end \in Nat
          /\ c <= op.start /\ op.start <= op.end
      BY <1>2, <1>6, <1>8
    <3> HIDE DEF op
    <3>2. \A i \in 1 .. op.end - 1 :
            i \in 1 .. c - 1 \/ i \in c .. op.start - 1 \/ i \in op.start .. op.end - 1
      BY <3>1
    <3>3. 1 .. c - 1 \subseteq 1 .. op.end - 1 /\ c .. op.start - 1 \subseteq 1 .. op.end - 1
      BY <3>1
    <3>4. QED
      BY <2>2, <2>3, <3>2, <3>3
  <2>7. \A m \in 1 .. n : s[m].end <= op.end
    <3>1. ASSUME NEW m \in 1 .. n - 1 PROVE s[m].end <= op.end
      <4>1. s[m].end <= c /\ s[m].end \in Nat
        BY <1>2, <1>3, <1>4
      <4>2. QED
        BY <1>2, <1>6, <1>8, <4>1
    <3>2. op.end <= op.end
      BY <1>6
    <3>3. QED
      BY <1>3, <3>1, <3>2
  <2>8. \E m \in 1 .. n : s[m].end = op.end
    BY <1>3
  <2>9. op.end \in 1 .. Len(raw) + 1
    BY <1>2, <1>6
  <2>10. InPlace(more.out, (1 .. more.cursor - 1) \ Touched)
    BY <2>1, <2>5, <2>6
  <2> HIDE DEF more, op
  <2>11. QED
    BY <2>1, <2>7, <2>8, <2>9, <2>10 DEF Looped, more, op, s
<1>9. QED
  BY <1>7, <1>8 DEF s

LEMMA Untouched == ASSUME Sound PROVE UntouchedPreserved
<1> DEFINE s == Sorted(Ops)
           N == Len(s)
<1>1. PICK d : /\ d[0] = Begin
               /\ \A n \in 1 .. N : d[n] = Apply(d[n - 1], s[n])
               /\ Bytes = d[N].out \o SubSeq(raw, d[N].cursor, Len(raw))
  BY BytesLoop
<1>2. /\ N \in Nat /\ s \in [1 .. N -> Ops]
      /\ \A o \in Ops : \E i \in 1 .. N : s[i] = o
  BY SortedOps
<1> DEFINE S == {n \in Nat : n <= N => Looped(d[n], n)}
<1>3. 0 \in S
  BY <1>1, LoopStarts
<1>4. ASSUME NEW n \in Nat, n \in S PROVE n + 1 \in S
  <2>1. SUFFICES ASSUME n + 1 <= N PROVE Looped(d[n + 1], n + 1)
    OBVIOUS
  <2>2. n + 1 \in 1 .. N /\ (n + 1) - 1 = n /\ n <= N
    BY <1>2, <2>1
  <2>3. Looped(d[n], (n + 1) - 1)
    BY <1>4, <2>2
  <2>4. Looped(Apply(d[n], s[n + 1]), n + 1)
    BY <2>2, <2>3, LoopStep
  <2>5. d[n + 1] = Apply(d[n], s[n + 1])
    BY <1>1, <2>2
  <2>6. QED
    BY <2>4, <2>5
<1>5. Looped(d[N], N)
  <2>1. Nat \subseteq S
    <3> HIDE DEF S
    <3>1. QED
      BY <1>3, <1>4, Induct
  <2>2. QED
    BY <1>2, <2>1
<1> DEFINE c == d[N].cursor
           out == d[N].out
<1>6. /\ Len(raw) \in Nat /\ DOMAIN raw = 1 .. Len(raw) /\ TypeOK
      /\ c \in 1 .. Len(raw) + 1 /\ InPlace(out, (1 .. c - 1) \ Touched)
      /\ \A m \in 1 .. N : s[m].end <= c
  BY <1>5, RawFacts DEF Looped, Sound
<1>7. Bytes = out \o SubSeq(raw, c, Len(raw))
  BY <1>1
<1> HIDE DEF s, N, c, out
<1>8. \A i \in c .. Len(raw) : i \notin Touched
  BY <1>5, Behind DEF c, N, s
<1>9. InPlace(Bytes, ((1 .. c - 1) \ Touched) \cup (c .. Len(raw)))
  <2>1. Len(raw) \in c - 1 .. Len(raw)
    BY <1>6
  <2>2. (1 .. c - 1) \ Touched \subseteq 1 .. c - 1
    OBVIOUS
  <2>3. QED
    BY <1>6, <1>7, <2>1, <2>2, AddOld
<1>10. ((1 .. c - 1) \ Touched) \cup (c .. Len(raw)) = DOMAIN raw \ Touched
  <2>1. (1 .. c - 1) \cup (c .. Len(raw)) = 1 .. Len(raw)
    BY <1>6
  <2>2. QED
    BY <1>6, <1>8, <2>1
<1>11. QED
  BY <1>9, <1>10 DEF InPlace, UntouchedPreserved

\* Whatever the edits, and in whatever order they were made, Bytes keeps every cell of the
\* source outside the deleted lines and the replaced values, once and in its place
\* (document.go:298-367): overlapping operations, several edits of one line and insertions
\* at one place included.
THEOREM KeepsTheRest == Spec => []UntouchedPreserved
<1>1. TypeOK /\ Indexed /\ OneEditPerEntry /\ NothingOnlyInMemory => UntouchedPreserved
  BY Untouched DEF Sound
<1>2. QED
  BY <1>1, TypeCorrect, IndexFixed, EditsConsistent, PendingHasInsertion, PTL

-----------------------------------------------------------------------------
(* What a copied piece of a text keeps.                                    *)

\* The m cells of s from c on stand in w from n on.
Copied(w, n, s, c, m) == \A j \in 0 .. m - 1 : w[n + j] = s[c + j]

\* Nothing but text stands before c on its line.
Fresh(s, c) == \A j \in 1 .. c - 1 : SameLine(s, j, c) => s[j].t = "text"

\* What stands before a place decides what starts there.
LEMMA SameBefore ==
  ASSUME NEW s, NEW w, NEW k \in Nat, \A i \in 1 .. k - 1 : w[i] = s[i]
  PROVE  /\ Fresh(w, k) <=> Fresh(s, k)
         /\ \A P : InTable(w, k, P) <=> InTable(s, k, P)
<1>1. \A i \in 1 .. k - 1 : SameLine(w, i, k) <=> SameLine(s, i, k)
  BY DEF SameLine
<1>2. Fresh(w, k) <=> Fresh(s, k)
  BY <1>1 DEF Fresh
<1>3. ASSUME NEW P PROVE InTable(w, k, P) <=> InTable(s, k, P)
  <2>1. ASSUME NEW h \in 1 .. k - 1
        PROVE  w[h] = s[h] /\ \A j \in h + 1 .. k - 1 : w[j] = s[j]
    OBVIOUS
  <2>2. QED
    BY <2>1 DEF InTable
<1>4. QED
  BY <1>2, <1>3

\* A place of a copied piece starts its line in the copy if it does in the original,
LEMMA CopyFresh ==
  ASSUME NEW s, NEW w, NEW n \in Nat \ {0}, NEW c \in Nat \ {0}, NEW m \in Nat,
         Copied(w, n, s, c, m), Fresh(s, c) => Fresh(w, n), NEW j \in 0 .. m, Fresh(s, c + j)
  PROVE  Fresh(w, n + j)
<1>1. SUFFICES ASSUME NEW i \in 1 .. n + j - 1, SameLine(w, i, n + j) PROVE w[i].t = "text"
  BY DEF Fresh
<1>2. ASSUME NEW a \in 0 .. j - 1 PROVE w[n + a] = s[c + a]
  BY DEF Copied
<1>3. CASE i >= n
  <2>1. PICK a \in 0 .. j - 1 : i = n + a
    <3>1. i - n \in 0 .. j - 1 /\ i = n + (i - n)
      BY <1>3
    <3>2. QED
      BY <3>1
  <2>2. SameLine(s, c + a, c + j)
    <3>1. SUFFICES ASSUME NEW x \in c + a .. c + j - 1 PROVE s[x].t # "nl"
      BY DEF SameLine
    <3>2. x - c \in 0 .. j - 1 /\ c + (x - c) = x /\ n + (x - c) \in i .. n + j - 1
      BY <2>1
    <3>3. w[n + (x - c)].t # "nl"
      BY <1>1, <3>2 DEF SameLine
    <3>4. QED
      BY <1>2, <3>2, <3>3
  <2>3. c + a \in 1 .. c + j - 1
    BY <2>1
  <2>4. s[c + a].t = "text"
    BY <2>2, <2>3 DEF Fresh
  <2>5. QED
    BY <1>2, <2>1, <2>4
<1>4. CASE i < n
  <2>1. \A x \in c .. c + j - 1 : s[x].t # "nl"
    <3>1. ASSUME NEW x \in c .. c + j - 1 PROVE s[x].t # "nl"
      <4>1. x - c \in 0 .. j - 1 /\ c + (x - c) = x /\ n + (x - c) \in i .. n + j - 1
        BY <1>4
      <4>2. w[n + (x - c)].t # "nl"
        BY <1>1, <4>1 DEF SameLine
      <4>3. QED
        BY <1>2, <4>1, <4>2
    <3>2. QED
      BY <3>1
  <2>2. Fresh(s, c)
    <3>1. SUFFICES ASSUME NEW x \in 1 .. c - 1, SameLine(s, x, c) PROVE s[x].t = "text"
      BY DEF Fresh
    <3>2. SameLine(s, x, c + j)
      <4>1. ASSUME NEW y \in x .. c + j - 1 PROVE s[y].t # "nl"
        <5>1. y \in x .. c - 1 \/ y \in c .. c + j - 1
          OBVIOUS
        <5>2. QED
          BY <2>1, <3>1, <5>1 DEF SameLine
      <4>2. QED
        BY <4>1 DEF SameLine
    <3>3. x \in 1 .. c + j - 1
      OBVIOUS
    <3>4. QED
      BY <3>2, <3>3 DEF Fresh
  <2>3. SameLine(w, i, n)
    <3>1. \A y \in i .. n - 1 : y \in i .. n + j - 1
      OBVIOUS
    <3>2. QED
      BY <1>1, <3>1 DEF SameLine
  <2>4. i \in 1 .. n - 1 /\ Fresh(w, n)
    BY <1>4, <2>2
  <2>5. QED
    BY <2>3, <2>4 DEF Fresh
<1>5. QED
  BY <1>3, <1>4

\* The table of a place is that of a place before it, unless a header stands between.
NoHeader(s, c, k) == \A h \in c .. k - 1 : s[h].t # "header"
LastHeader(s, c, k, P) == \E h \in c .. k - 1 : /\ s[h].t = "header" /\ s[h].path = P
                                                /\ NoHeader(s, h + 1, k)

LEMMA TableSplit ==
  ASSUME NEW s, NEW c \in Nat \ {0}, NEW k \in Nat, c <= k, NEW P
  PROVE  InTable(s, k, P) <=> \/ LastHeader(s, c, k, P)
                              \/ NoHeader(s, c, k) /\ InTable(s, c, P)
<1>1. ASSUME NEW h \in 1 .. k - 1, s[h].t = "header", s[h].path = P, NoHeader(s, h + 1, k)
      PROVE  LastHeader(s, c, k, P) \/ (NoHeader(s, c, k) /\ InTable(s, c, P))
  <2>1. CASE h >= c
    BY <1>1, <2>1 DEF LastHeader
  <2>2. CASE h < c
    <3>1. h \in 1 .. c - 1 /\ \A j \in h + 1 .. c - 1 : s[j].t # "header"
      BY <1>1, <2>2 DEF NoHeader
    <3>2. NoHeader(s, c, k)
      BY <1>1, <2>2 DEF NoHeader
    <3>3. QED
      BY <1>1, <3>1, <3>2 DEF InTable
  <2>3. QED
    BY <2>1, <2>2
<1>2. ASSUME P = << >>, \A h \in 1 .. k - 1 : s[h].t # "header"
      PROVE  NoHeader(s, c, k) /\ InTable(s, c, P)
  BY <1>2 DEF NoHeader, InTable
<1>3. ASSUME LastHeader(s, c, k, P) PROVE InTable(s, k, P)
  <2>1. PICK h \in c .. k - 1 : s[h].t = "header" /\ s[h].path = P /\ NoHeader(s, h + 1, k)
    BY <1>3 DEF LastHeader
  <2>2. h \in 1 .. k - 1
    OBVIOUS
  <2>3. QED
    BY <2>1, <2>2 DEF InTable, NoHeader
<1>4. ASSUME NoHeader(s, c, k), InTable(s, c, P) PROVE InTable(s, k, P)
  <2>1. CASE P = << >> /\ \A h \in 1 .. c - 1 : s[h].t # "header"
    <3>1. \A h \in 1 .. k - 1 : h \in 1 .. c - 1 \/ h \in c .. k - 1
      OBVIOUS
    <3>2. QED
      BY <1>4, <2>1, <3>1 DEF InTable, NoHeader
  <2>2. ASSUME NEW h \in 1 .. c - 1, s[h].t = "header", s[h].path = P,
               \A j \in h + 1 .. c - 1 : s[j].t # "header"
        PROVE  InTable(s, k, P)
    <3>1. \A j \in h + 1 .. k - 1 : j \in h + 1 .. c - 1 \/ j \in c .. k - 1
      OBVIOUS
    <3>2. h \in 1 .. k - 1
      OBVIOUS
    <3>3. QED
      BY <1>4, <2>2, <3>1, <3>2 DEF InTable, NoHeader
  <2>3. QED
    BY <1>4, <2>1, <2>2 DEF InTable
<1>5. ASSUME InTable(s, k, P)
      PROVE  LastHeader(s, c, k, P) \/ (NoHeader(s, c, k) /\ InTable(s, c, P))
  <2>1. CASE P = << >> /\ \A h \in 1 .. k - 1 : s[h].t # "header"
    BY <1>2, <2>1
  <2>2. CASE \E h \in 1 .. k - 1 : s[h].t = "header" /\ s[h].path = P /\ NoHeader(s, h + 1, k)
    BY <1>1, <2>2
  <2>3. QED
    BY <1>5, <2>1, <2>2 DEF InTable, NoHeader
<1>6. QED
  BY <1>3, <1>4, <1>5

\* and belongs to the same table.
LEMMA CopyTable ==
  ASSUME NEW s, NEW w, NEW n \in Nat \ {0}, NEW c \in Nat \ {0}, NEW m \in Nat,
         Copied(w, n, s, c, m), NEW P, InTable(w, n, P) <=> InTable(s, c, P), NEW j \in 0 .. m
  PROVE  InTable(w, n + j, P) <=> InTable(s, c + j, P)
<1>1. ASSUME NEW a \in 0 .. j - 1 PROVE w[n + a] = s[c + a]
  BY DEF Copied
<1>2. ASSUME NEW a \in 0 .. j PROVE NoHeader(w, n + a, n + j) <=> NoHeader(s, c + a, c + j)
  <2>1. ASSUME NoHeader(w, n + a, n + j), NEW x \in c + a .. c + j - 1 PROVE s[x].t # "header"
    <3>1. x - c \in 0 .. j - 1 /\ c + (x - c) = x /\ n + (x - c) \in n + a .. n + j - 1
      OBVIOUS
    <3>2. QED
      BY <1>1, <2>1, <3>1 DEF NoHeader
  <2>2. ASSUME NoHeader(s, c + a, c + j), NEW x \in n + a .. n + j - 1 PROVE w[x].t # "header"
    <3>1. x - n \in 0 .. j - 1 /\ n + (x - n) = x /\ c + (x - n) \in c + a .. c + j - 1
      OBVIOUS
    <3>2. QED
      BY <1>1, <2>2, <3>1 DEF NoHeader
  <2>3. QED
    BY <2>1, <2>2 DEF NoHeader
<1>3. LastHeader(w, n, n + j, P) <=> LastHeader(s, c, c + j, P)
  <2>1. ASSUME LastHeader(w, n, n + j, P) PROVE LastHeader(s, c, c + j, P)
    <3>1. PICK h \in n .. n + j - 1 : /\ w[h].t = "header" /\ w[h].path = P
                                      /\ NoHeader(w, h + 1, n + j)
      BY <2>1 DEF LastHeader
    <3>2. PICK a \in 0 .. j - 1 : h = n + a
      <4>1. h - n \in 0 .. j - 1 /\ h = n + (h - n)
        OBVIOUS
      <4>2. QED
        BY <4>1
    <3>3. a + 1 \in 0 .. j /\ h + 1 = n + (a + 1) /\ c + (a + 1) = (c + a) + 1
      BY <3>2
    <3>4. NoHeader(s, (c + a) + 1, c + j) /\ s[c + a] = w[h]
      BY <1>1, <1>2, <3>1, <3>2, <3>3
    <3>5. c + a \in c .. c + j - 1
      OBVIOUS
    <3>6. QED
      BY <3>1, <3>4, <3>5 DEF LastHeader
  <2>2. ASSUME LastHeader(s, c, c + j, P) PROVE LastHeader(w, n, n + j, P)
    <3>1. PICK h \in c .. c + j - 1 : /\ s[h].t = "header" /\ s[h].path = P
                                      /\ NoHeader(s, h + 1, c + j)
      BY <2>2 DEF LastHeader
    <3>2. PICK a \in 0 .. j - 1 : h = c + a
      <4>1. h - c \in 0 .. j - 1 /\ h = c + (h - c)
        OBVIOUS
      <4>2. QED
        BY <4>1
    <3>3. a + 1 \in 0 .. j /\ h + 1 = c + (a + 1) /\ n + (a + 1) = (n + a) + 1
      BY <3>2
    <3>4. NoHeader(w, (n + a) + 1, n + j) /\ w[n + a] = s[h]
      BY <1>1, <1>2, <3>1, <3>2, <3>3
    <3>5. n + a \in n .. n + j - 1
      OBVIOUS
    <3>6. QED
      BY <3>1, <3>4, <3>5 DEF LastHeader
  <2>3. QED
    BY <2>1, <2>2
<1>4. NoHeader(w, n, n + j) <=> NoHeader(s, c, c + j)
  <2>1. 0 \in 0 .. j /\ n + 0 = n /\ c + 0 = c
    OBVIOUS
  <2>2. QED
    BY <1>2, <2>1
<1>5. /\ InTable(w, n + j, P) <=> \/ LastHeader(w, n, n + j, P)
                                  \/ NoHeader(w, n, n + j) /\ InTable(w, n, P)
      /\ InTable(s, c + j, P) <=> \/ LastHeader(s, c, c + j, P)
                                  \/ NoHeader(s, c, c + j) /\ InTable(s, c, P)
  <2>1. n + j \in Nat /\ n <= n + j /\ c + j \in Nat /\ c <= c + j
    OBVIOUS
  <2>2. QED
    BY <2>1, TableSplit
<1>6. QED
  BY <1>3, <1>4, <1>5

-----------------------------------------------------------------------------
(* What the loop has written so far, as a text.                            *)

\* The two texts side by side.
LEMMA Joined ==
  ASSUME NEW out \in Seq(Cells), NEW t \in Seq(Cells)
  PROVE  /\ out \o t \in Seq(Cells) /\ Len(out \o t) = Len(out) + Len(t)
         /\ Len(out) \in Nat /\ Len(t) \in Nat
         /\ DOMAIN out = 1 .. Len(out) /\ DOMAIN t = 1 .. Len(t)
         /\ DOMAIN (out \o t) = 1 .. Len(out) + Len(t)
         /\ \A i \in DOMAIN out : i \in DOMAIN (out \o t) /\ (out \o t)[i] = out[i]
         /\ \A j \in DOMAIN t : Len(out) + j \in DOMAIN (out \o t) /\ (out \o t)[Len(out) + j] = t[j]
         /\ \A i \in DOMAIN (out \o t) : i \in DOMAIN out \/ \E j \in DOMAIN t : i = Len(out) + j
<1> DEFINE w == out \o t
           n == Len(out)
<1>1. /\ n \in Nat /\ Len(t) \in Nat /\ DOMAIN out = 1 .. n /\ DOMAIN t = 1 .. Len(t)
  OBVIOUS
<1>2. /\ w \in Seq(Cells) /\ Len(w) = n + Len(t)
      /\ \A i \in 1 .. n + Len(t) : w[i] = IF i <= n THEN out[i] ELSE t[i - n]
  BY ConcatProperties
<1> HIDE DEF w, n
<1>3. DOMAIN w = 1 .. n + Len(t)
  BY <1>2
<1>4. ASSUME NEW i \in 1 .. n PROVE i \in DOMAIN w /\ w[i] = out[i]
  BY <1>1, <1>2, <1>3
<1>5. ASSUME NEW j \in 1 .. Len(t) PROVE n + j \in DOMAIN w /\ w[n + j] = t[j]
  <2>1. n + j \in 1 .. n + Len(t) /\ ~(n + j <= n) /\ (n + j) - n = j
    BY <1>1
  <2>2. QED
    BY <1>2, <1>3, <2>1
<1>6. ASSUME NEW i \in DOMAIN w PROVE i \in 1 .. n \/ \E j \in 1 .. Len(t) : i = n + j
  <2>1. i \in 1 .. n \/ (i - n \in 1 .. Len(t) /\ i = n + (i - n))
    BY <1>1, <1>3
  <2>2. QED
    BY <2>1
<1>7. QED
  BY <1>1, <1>2, <1>3, <1>4, <1>5, <1>6 DEF w, n

\* What stands behind the key of the entry at k: its value, or what replaces it.
Carries(k, cell) ==
  \/ k + 1 \notin Touched /\ cell = raw[k + 1]
  \/ \E p \in Paths \ deletions : k \in EntriesAt(raw, p) /\ replacements[p] = <<cell>>

\* The key and the value that the insertion x puts in.
Writes(key, cell, x) == key.path = insertions[x].path /\ cell.value = pending[insertions[x].path]

Valued(s) == \A i \in KeysOf(s) : i < Len(s) /\ (s[i].src # 0 => Carries(s[i].src, s[i + 1]))

\* A key the document writes itself stands outside every table.
Placed(s, i) == IF s[i].src # 0 THEN \A P : InTable(s, i, P) <=> InTable(raw, s[i].src, P)
                                ELSE InTable(s, i, << >>)
Tabled(s) == \A i \in KeysOf(s) : Placed(s, i)

NewKeys(s) == {i \in KeysOf(s) : s[i].src = 0}
Inserted(s, X) ==
  /\ \A i \in NewKeys(s) : \E x \in X : Writes(s[i], s[i + 1], x)
  /\ \A x \in X : \E i \in NewKeys(s) : Writes(s[i], s[i + 1], x)
  /\ \A i, j \in NewKeys(s) : s[i].path = s[j].path => i = j

\* The text before the cursor c, with the insertions X, is one that reads as it should, and
\* what follows goes on where the source does at c.
Good(out, c, X) ==
  /\ out \in Seq(Cells) /\ c \in 1 .. Len(raw) + 1
  /\ c = 1 \/ raw[c - 1].t # "key"
  /\ LinesWhole(out) /\ Valued(out) /\ Tabled(out) /\ Inserted(out, X)
  /\ Fresh(raw, c) => Fresh(out, Len(out) + 1)
  /\ \A P : InTable(out, Len(out) + 1, P) <=> InTable(raw, c, P)

LEMMA KeyTyped ==
  ASSUME NEW s, NEW i \in KeysOf(s)
  PROVE  i \in DOMAIN s /\ s[i].t = "key"
BY DEF KeysOf

\* The keys of two texts side by side are those of the one and those of the other;
LEMMA KeysJoined ==
  ASSUME NEW out \in Seq(Cells), NEW t \in Seq(Cells)
  PROVE  /\ \A i \in KeysOf(out) : i \in KeysOf(out \o t)
         /\ \A j \in KeysOf(t) : Len(out) + j \in KeysOf(out \o t)
         /\ \A i \in KeysOf(out \o t) : i \in KeysOf(out) \/ \E j \in KeysOf(t) : i = Len(out) + j
<1> DEFINE w == out \o t
           n == Len(out)
<1>1. /\ \A i \in DOMAIN out : i \in DOMAIN w /\ w[i] = out[i]
      /\ \A j \in DOMAIN t : n + j \in DOMAIN w /\ w[n + j] = t[j]
      /\ \A i \in DOMAIN w : i \in DOMAIN out \/ \E j \in DOMAIN t : i = n + j
  BY Joined
<1> HIDE DEF w, n
<1>2. ASSUME NEW i \in KeysOf(out) PROVE i \in KeysOf(w)
  BY <1>1 DEF KeysOf
<1>3. ASSUME NEW j \in KeysOf(t) PROVE n + j \in KeysOf(w)
  BY <1>1 DEF KeysOf
<1>4. ASSUME NEW i \in KeysOf(w) PROVE i \in KeysOf(out) \/ \E j \in KeysOf(t) : i = n + j
  <2>1. i \in DOMAIN w /\ w[i].t = "key"
    BY DEF KeysOf
  <2>2. CASE i \in DOMAIN out
    BY <1>1, <2>1, <2>2 DEF KeysOf
  <2>3. ASSUME NEW j \in DOMAIN t, i = n + j PROVE j \in KeysOf(t)
    BY <1>1, <2>1, <2>3 DEF KeysOf
  <2>4. QED
    BY <1>1, <2>1, <2>2, <2>3
<1>5. QED
  BY <1>2, <1>3, <1>4 DEF w, n

\* and what a text promises of its keys holds when both parts promise it.
LEMMA ValuedGrows ==
  ASSUME NEW out \in Seq(Cells), NEW t \in Seq(Cells), Valued(out), Valued(t)
  PROVE  Valued(out \o t)
<1> DEFINE w == out \o t
           n == Len(out)
<1>1. /\ n \in Nat /\ Len(t) \in Nat /\ Len(w) = n + Len(t)
      /\ DOMAIN out = 1 .. n /\ DOMAIN t = 1 .. Len(t)
      /\ \A i \in DOMAIN out : w[i] = out[i]
      /\ \A j \in DOMAIN t : w[n + j] = t[j]
  BY Joined
<1>2. \A i \in KeysOf(w) : i \in KeysOf(out) \/ \E j \in KeysOf(t) : i = n + j
  BY KeysJoined
<1> HIDE DEF w, n
<1>3. ASSUME NEW i \in KeysOf(w)
      PROVE  i < Len(w) /\ (w[i].src # 0 => Carries(w[i].src, w[i + 1]))
  <2>1. CASE i \in KeysOf(out)
    <3>1. i \in 1 .. n /\ i < n /\ (out[i].src # 0 => Carries(out[i].src, out[i + 1]))
      BY <1>1, <2>1, KeyTyped DEF Valued, n
    <3>2. i + 1 \in 1 .. n /\ i < Len(w)
      BY <1>1, <3>1
    <3>3. w[i] = out[i] /\ w[i + 1] = out[i + 1]
      BY <1>1, <3>1, <3>2
    <3>4. QED
      BY <3>1, <3>2, <3>3
  <2>2. ASSUME NEW j \in KeysOf(t), i = n + j
        PROVE  i < Len(w) /\ (w[i].src # 0 => Carries(w[i].src, w[i + 1]))
    <3>1. j \in 1 .. Len(t) /\ j < Len(t) /\ (t[j].src # 0 => Carries(t[j].src, t[j + 1]))
      BY <1>1, <2>2, KeyTyped DEF Valued
    <3>2. j + 1 \in 1 .. Len(t) /\ i < Len(w) /\ i + 1 = n + (j + 1)
      BY <1>1, <2>2, <3>1
    <3>3. w[i] = t[j] /\ w[i + 1] = t[j + 1]
      BY <1>1, <2>2, <3>1, <3>2
    <3>4. QED
      BY <3>1, <3>2, <3>3
  <2>3. QED
    BY <1>2, <2>1, <2>2
<1>4. QED
  BY <1>3 DEF Valued, w

LEMMA TabledGrows ==
  ASSUME NEW out \in Seq(Cells), NEW t \in Seq(Cells), Tabled(out),
         \A j \in KeysOf(t) : Placed(out \o t, Len(out) + j)
  PROVE  Tabled(out \o t)
<1> DEFINE w == out \o t
           n == Len(out)
<1>1. /\ n \in Nat /\ DOMAIN out = 1 .. n
      /\ \A i \in DOMAIN out : w[i] = out[i]
  BY Joined
<1>2. \A i \in KeysOf(w) : i \in KeysOf(out) \/ \E j \in KeysOf(t) : i = n + j
  BY KeysJoined
<1>3. \A j \in KeysOf(t) : Placed(w, n + j)
  OBVIOUS
<1> HIDE DEF w, n
<1>4. ASSUME NEW i \in KeysOf(w) PROVE Placed(w, i)
  <2>1. CASE i \in KeysOf(out)
    <3>1. i \in 1 .. n
      BY <1>1, <2>1, KeyTyped
    <3>2. w[i] = out[i] /\ \A P : InTable(w, i, P) <=> InTable(out, i, P)
      <4>1. i \in Nat /\ \A x \in 1 .. i - 1 : w[x] = out[x]
        BY <1>1, <3>1
      <4>2. QED
        BY <1>1, <3>1, <4>1, SameBefore
    <3>3. Placed(out, i)
      BY <2>1 DEF Tabled
    <3>4. QED
      BY <3>2, <3>3 DEF Placed
  <2>2. ASSUME NEW j \in KeysOf(t), i = n + j PROVE Placed(w, i)
    BY <1>3, <2>2
  <2>3. QED
    BY <1>2, <2>1, <2>2
<1>5. QED
  BY <1>4 DEF Tabled, w

LEMMA LinesGrow ==
  ASSUME NEW out \in Seq(Cells), NEW t \in Seq(Cells), LinesWhole(out),
         \A j \in Starters(t) : Fresh(out \o t, Len(out) + j)
  PROVE  LinesWhole(out \o t)
<1> DEFINE w == out \o t
           n == Len(out)
<1>1. /\ n \in Nat /\ DOMAIN out = 1 .. n
      /\ \A i \in DOMAIN out : w[i] = out[i]
      /\ \A j \in DOMAIN t : w[n + j] = t[j]
      /\ \A i \in DOMAIN w : i \in DOMAIN out \/ \E j \in DOMAIN t : i = n + j
  BY Joined
<1>2. \A j \in Starters(t) : Fresh(w, n + j)
  OBVIOUS
<1> HIDE DEF w, n
<1>3. ASSUME NEW i \in Starters(w) PROVE Fresh(w, i)
  <2>1. i \in DOMAIN w /\ w[i].t \in {"key", "header"}
    BY DEF Starters
  <2>2. CASE i \in DOMAIN out
    <3>1. i \in 1 .. n /\ w[i] = out[i]
      BY <1>1, <2>2
    <3>2. Fresh(out, i)
      <4>1. i \in Starters(out)
        BY <2>1, <2>2, <3>1 DEF Starters
      <4>2. QED
        BY <4>1 DEF LinesWhole, Fresh
    <3>3. i \in Nat /\ \A x \in 1 .. i - 1 : w[x] = out[x]
      BY <1>1, <3>1
    <3>4. QED
      BY <3>2, <3>3, SameBefore
  <2>3. ASSUME NEW j \in DOMAIN t, i = n + j PROVE Fresh(w, i)
    <3>1. j \in Starters(t)
      BY <1>1, <2>1, <2>3 DEF Starters
    <3>2. QED
      BY <1>2, <2>3, <3>1
  <2>4. QED
    BY <1>1, <2>1, <2>2, <2>3
<1>4. LinesWhole(w)
  BY <1>3 DEF LinesWhole, Fresh
<1>5. QED
  BY <1>4 DEF w

\* New keys come from the piece that is put in, if it has any.
LEMMA NewKeysJoined ==
  ASSUME NEW out \in Seq(Cells), NEW t \in Seq(Cells), Valued(out), Valued(t)
  PROVE  /\ \A i \in NewKeys(out) : /\ i \in NewKeys(out \o t)
                                    /\ (out \o t)[i] = out[i] /\ (out \o t)[i + 1] = out[i + 1]
         /\ \A j \in NewKeys(t) : /\ Len(out) + j \in NewKeys(out \o t)
                                  /\ (out \o t)[Len(out) + j] = t[j]
                                  /\ (out \o t)[(Len(out) + j) + 1] = t[j + 1]
         /\ \A i \in NewKeys(out \o t) :
              i \in NewKeys(out) \/ \E j \in NewKeys(t) : i = Len(out) + j
<1> DEFINE w == out \o t
           n == Len(out)
<1>1. /\ n \in Nat /\ Len(t) \in Nat
      /\ DOMAIN out = 1 .. n /\ DOMAIN t = 1 .. Len(t)
      /\ \A i \in DOMAIN out : w[i] = out[i]
      /\ \A j \in DOMAIN t : w[n + j] = t[j]
  BY Joined
<1>2. /\ \A i \in KeysOf(out) : i \in KeysOf(w)
      /\ \A j \in KeysOf(t) : n + j \in KeysOf(w)
      /\ \A i \in KeysOf(w) : i \in KeysOf(out) \/ \E j \in KeysOf(t) : i = n + j
  BY KeysJoined
<1>3. \A i \in KeysOf(out) : i \in 1 .. n /\ i + 1 \in 1 .. n
  <2>1. ASSUME NEW i \in KeysOf(out) PROVE i \in 1 .. n /\ i < n
    BY <1>1, KeyTyped DEF Valued
  <2>2. QED
    BY <1>1, <2>1
<1>4. \A j \in KeysOf(t) : j \in 1 .. Len(t) /\ j + 1 \in 1 .. Len(t) /\ (n + j) + 1 = n + (j + 1)
  <2>1. ASSUME NEW j \in KeysOf(t) PROVE j \in 1 .. Len(t) /\ j < Len(t)
    BY <1>1, KeyTyped DEF Valued
  <2>2. QED
    BY <1>1, <2>1
<1> HIDE DEF w, n
<1>5. ASSUME NEW i \in NewKeys(out)
      PROVE  i \in NewKeys(w) /\ w[i] = out[i] /\ w[i + 1] = out[i + 1]
  <2>1. i \in KeysOf(out) /\ out[i].src = 0
    BY DEF NewKeys
  <2>2. w[i] = out[i] /\ w[i + 1] = out[i + 1]
    BY <1>1, <1>3, <2>1
  <2>3. QED
    BY <1>2, <2>1, <2>2 DEF NewKeys
<1>6. ASSUME NEW j \in NewKeys(t)
      PROVE  n + j \in NewKeys(w) /\ w[n + j] = t[j] /\ w[(n + j) + 1] = t[j + 1]
  <2>1. j \in KeysOf(t) /\ t[j].src = 0
    BY DEF NewKeys
  <2>2. w[n + j] = t[j] /\ w[(n + j) + 1] = t[j + 1]
    BY <1>1, <1>4, <2>1
  <2>3. QED
    BY <1>2, <2>1, <2>2 DEF NewKeys
<1>7. ASSUME NEW i \in NewKeys(w) PROVE i \in NewKeys(out) \/ \E j \in NewKeys(t) : i = n + j
  <2>1. i \in KeysOf(w) /\ w[i].src = 0
    BY DEF NewKeys
  <2>2. CASE i \in KeysOf(out)
    BY <1>1, <1>3, <2>1, <2>2 DEF NewKeys
  <2>3. ASSUME NEW j \in KeysOf(t), i = n + j PROVE j \in NewKeys(t)
    BY <1>1, <1>4, <2>1, <2>3 DEF NewKeys
  <2>4. QED
    BY <1>2, <2>1, <2>2, <2>3
<1>8. QED
  BY <1>5, <1>6, <1>7 DEF w, n

\* A piece of the source inserts nothing,
LEMMA NothingInserted ==
  ASSUME NEW out \in Seq(Cells), NEW t \in Seq(Cells), Valued(out), Valued(t),
         \A j \in KeysOf(t) : t[j].src # 0, NEW X, Inserted(out, X)
  PROVE  Inserted(out \o t, X)
<1> DEFINE w == out \o t
           n == Len(out)
<1>1. /\ \A i \in NewKeys(out) : i \in NewKeys(w) /\ w[i] = out[i] /\ w[i + 1] = out[i + 1]
      /\ \A a \in NewKeys(t) : n + a \in NewKeys(w) /\ w[n + a] = t[a] /\ w[(n + a) + 1] = t[a + 1]
      /\ \A i \in NewKeys(w) : i \in NewKeys(out) \/ \E a \in NewKeys(t) : i = n + a
  BY NewKeysJoined
<1> HIDE DEF w, n
<1>2. \A i \in NewKeys(w) : i \in NewKeys(out)
  BY <1>1 DEF NewKeys
<1>3. Inserted(w, X)
  BY <1>1, <1>2 DEF Inserted
<1>4. QED
  BY <1>3 DEF w

\* and a piece with one new key inserts that.
LEMMA OneInserted ==
  ASSUME NEW out \in Seq(Cells), NEW t \in Seq(Cells), Valued(out), Valued(t),
         NEW j, NewKeys(t) = {j}, NEW x, Writes(t[j], t[j + 1], x), NEW X, Inserted(out, X),
         \A y \in X : insertions[y].path # insertions[x].path
  PROVE  Inserted(out \o t, X \cup {x})
<1> DEFINE w == out \o t
           n == Len(out)
           k == n + j
<1>0. /\ \A i \in NewKeys(out) : i \in NewKeys(w) /\ w[i] = out[i] /\ w[i + 1] = out[i + 1]
      /\ \A a \in NewKeys(t) : n + a \in NewKeys(w) /\ w[n + a] = t[a] /\ w[(n + a) + 1] = t[a + 1]
      /\ \A i \in NewKeys(w) : i \in NewKeys(out) \/ \E a \in NewKeys(t) : i = n + a
  BY NewKeysJoined
<1> HIDE DEF w, n
<1>1. /\ \A i \in NewKeys(out) : i \in NewKeys(w) /\ w[i] = out[i] /\ w[i + 1] = out[i + 1]
      /\ k \in NewKeys(w) /\ w[k] = t[j] /\ w[k + 1] = t[j + 1]
      /\ \A i \in NewKeys(w) : i \in NewKeys(out) \/ i = k
  BY <1>0
<1> HIDE DEF k
<1>2. Writes(w[k], w[k + 1], x)
  BY <1>1
<1>3. \A i \in NewKeys(out) : \E y \in X : Writes(w[i], w[i + 1], y)
  BY <1>1 DEF Inserted
<1>4. \A y \in X : \E i \in NewKeys(w) : Writes(w[i], w[i + 1], y)
  BY <1>1 DEF Inserted
<1>5. \A i \in NewKeys(out) : w[i].path # w[k].path
  BY <1>2, <1>3 DEF Writes
<1>6. ASSUME NEW i \in NewKeys(w), NEW h \in NewKeys(w), w[i].path = w[h].path PROVE i = h
  <2>1. CASE i = k \/ h = k
    BY <1>1, <1>5, <1>6, <2>1
  <2>2. CASE i \in NewKeys(out) /\ h \in NewKeys(out)
    BY <1>1, <1>6, <2>2 DEF Inserted
  <2>3. QED
    BY <1>1, <2>1, <2>2
<1>7. Inserted(w, X \cup {x})
  BY <1>1, <1>2, <1>3, <1>4, <1>6 DEF Inserted
<1>8. QED
  BY <1>7 DEF w

-----------------------------------------------------------------------------
(* The loop keeps a text good: what it copies, drops and replaces.         *)

\* A line break starts a line.
LEMMA FreshAfterBreak ==
  ASSUME NEW s, NEW c \in Nat, c = 1 \/ (c > 1 /\ s[c - 1].t = "nl")
  PROVE  Fresh(s, c)
<1>1. SUFFICES ASSUME NEW j \in 1 .. c - 1, SameLine(s, j, c) PROVE FALSE
  BY DEF Fresh
<1>2. c - 1 \in j .. c - 1 /\ s[c - 1].t = "nl"
  OBVIOUS
<1>3. QED
  BY <1>1, <1>2 DEF SameLine

\* The source between two operations is carried over as it is.
LEMMA GoodOld ==
  ASSUME Sound, LinesWhole(raw), NEW X, NEW out, NEW c, Good(out, c, X),
         NEW e \in c .. Len(raw) + 1, e = 1 \/ raw[e - 1].t # "key",
         \A i \in c .. e - 1 : i \notin Touched
  PROVE  Good(out \o SubSeq(raw, c, e - 1), e, X)
<1> DEFINE t == SubSeq(raw, c, e - 1)
           w == out \o t
           n == Len(out)
<1>1. /\ raw \in Seq(Cells) /\ WellFormed(raw) /\ Len(raw) \in Nat /\ DOMAIN raw = 1 .. Len(raw)
      /\ c \in 1 .. Len(raw) + 1 /\ out \in Seq(Cells)
  BY RawFacts DEF Sound, Good
<1>2. /\ t \in Seq(Cells) /\ Len(t) = e - c /\ DOMAIN t = 1 .. e - c
      /\ \A i \in 1 .. e - c : t[i] = raw[c + i - 1]
  <2>1. \A i \in c .. e - 1 : raw[i] \in Cells
    BY <1>1
  <2>2. c \in Int /\ e - 1 \in Int
    BY <1>1
  <2>3. /\ t \in Seq(Cells) /\ Len(t) = IF c <= e - 1 THEN (e - 1) - c + 1 ELSE 0
        /\ \A i \in 1 .. (e - 1) - c + 1 : t[i] = raw[c + i - 1]
    BY <2>1, <2>2, SubSeqProperties
  <2> HIDE DEF t
  <2>4. Len(t) = e - c /\ (e - 1) - c + 1 = e - c
    BY <1>1, <2>3
  <2>5. QED
    BY <2>3, <2>4
<1> HIDE DEF t
<1>3. /\ n \in Nat /\ w \in Seq(Cells) /\ Len(w) = n + Len(t) /\ DOMAIN out = 1 .. n
      /\ \A i \in DOMAIN out : w[i] = out[i]
      /\ \A j \in DOMAIN t : w[n + j] = t[j]
  BY <1>1, <1>2, Joined
<1> HIDE DEF w, n
<1>4. /\ c \in Nat \ {0} /\ n + 1 \in Nat \ {0} /\ e - c \in Nat /\ e = c + (e - c)
      /\ Len(w) + 1 = (n + 1) + (e - c)
  <2>1. c \in Nat /\ c >= 1 /\ e \in Nat /\ c <= e /\ n \in Nat
    BY <1>1, <1>3
  <2>2. Len(w) = n + (e - c)
    BY <1>2, <1>3
  <2>3. QED
    BY <2>1, <2>2
<1>5. Copied(w, n + 1, raw, c, e - c)
  <2>1. ASSUME NEW j \in 0 .. (e - c) - 1 PROVE w[(n + 1) + j] = raw[c + j]
    <3>1. j + 1 \in 1 .. e - c /\ (n + 1) + j = n + (j + 1) /\ c + (j + 1) - 1 = c + j
      BY <1>3, <1>4
    <3>2. t[j + 1] = raw[c + j] /\ w[n + (j + 1)] = t[j + 1]
      BY <1>2, <1>3, <3>1
    <3>3. QED
      BY <3>1, <3>2
  <2>2. QED
    BY <2>1 DEF Copied
<1>6. ASSUME NEW j \in 0 .. e - c
      PROVE  /\ Fresh(raw, c + j) => Fresh(w, (n + 1) + j)
             /\ \A P : InTable(w, (n + 1) + j, P) <=> InTable(raw, c + j, P)
  <2>1. \A i \in 1 .. (n + 1) - 1 : w[i] = out[i]
    BY <1>3
  <2>2. /\ Fresh(w, n + 1) <=> Fresh(out, n + 1)
        /\ \A P : InTable(w, n + 1, P) <=> InTable(out, n + 1, P)
    BY <1>4, <2>1, SameBefore
  <2>3. Fresh(raw, c) => Fresh(w, n + 1)
    BY <2>2 DEF Good, n
  <2>4. \A P : InTable(w, n + 1, P) <=> InTable(raw, c, P)
    BY <2>2 DEF Good, n
  <2>5. Fresh(raw, c + j) => Fresh(w, (n + 1) + j)
    BY <1>4, <1>5, <2>3, CopyFresh
  <2>6. ASSUME NEW P PROVE InTable(w, (n + 1) + j, P) <=> InTable(raw, c + j, P)
    <3>1. InTable(w, n + 1, P) <=> InTable(raw, c, P)
      BY <2>4
    <3>2. QED
      BY <1>4, <1>5, <3>1, CopyTable
  <2>7. QED
    BY <2>5, <2>6
<1>7. ASSUME NEW j \in 1 .. e - c
      PROVE  /\ j - 1 \in 0 .. e - c /\ (n + 1) + (j - 1) = n + j /\ c + (j - 1) \in DOMAIN raw
             /\ t[j] = raw[c + (j - 1)] /\ t[j].src = c + (j - 1) /\ t[j].src # 0
             /\ w[n + j] = t[j]
  <2>1. j - 1 \in 0 .. e - c /\ (n + 1) + (j - 1) = n + j /\ c + (j - 1) \in 1 .. Len(raw)
        /\ c + (j - 1) = c + j - 1 /\ c + (j - 1) # 0
    <3>1. c \in Nat /\ c >= 1 /\ e \in Nat /\ c <= e /\ n \in Nat /\ e <= Len(raw) + 1 /\ j \in Nat
      BY <1>1, <1>3
    <3>2. QED
      BY <1>1, <3>1
  <2>2. t[j] = raw[c + (j - 1)]
    BY <1>2, <2>1
  <2>3. QED
    BY <1>1, <1>2, <1>3, <2>1, <2>2 DEF WellFormed
<1>8. \A j \in Starters(t) : Fresh(w, n + j)
  <2>1. ASSUME NEW j \in Starters(t) PROVE Fresh(w, n + j)
    <3>1. j \in 1 .. e - c /\ t[j].t \in {"key", "header"}
      BY <1>2 DEF Starters
    <3>2. c + (j - 1) \in Starters(raw)
      BY <1>7, <3>1 DEF Starters
    <3>3. Fresh(raw, c + (j - 1))
      BY <3>2 DEF LinesWhole, Fresh
    <3>4. QED
      BY <1>6, <1>7, <3>1, <3>3
  <2>2. QED
    BY <2>1
<1>9. \A j \in KeysOf(t) : Placed(w, n + j)
  <2>1. ASSUME NEW j \in KeysOf(t) PROVE Placed(w, n + j)
    <3>1. j \in 1 .. e - c
      BY <1>2 DEF KeysOf
    <3>2. \A P : InTable(w, n + j, P) <=> InTable(raw, c + (j - 1), P)
      BY <1>6, <1>7, <3>1
    <3>3. w[n + j].src = c + (j - 1) /\ w[n + j].src # 0
      BY <1>7, <3>1
    <3>4. QED
      BY <3>2, <3>3 DEF Placed
  <2>2. QED
    BY <2>1
<1>10. Valued(t)
  <2>1. ASSUME NEW j \in KeysOf(t) PROVE j < Len(t) /\ (t[j].src # 0 => Carries(t[j].src, t[j + 1]))
    <3>1. j \in 1 .. e - c /\ t[j].t = "key"
      BY <1>2 DEF KeysOf
    <3>2. j < e - c
      <4>1. SUFFICES ASSUME j = e - c PROVE FALSE
        BY <1>4, <3>1
      <4>2. c + (j - 1) = e - 1 /\ e # 1
        BY <1>1, <1>4, <3>1, <4>1
      <4>3. QED
        BY <1>7, <3>1, <4>2
    <3>3. j + 1 \in 1 .. e - c /\ c + ((j + 1) - 1) = (c + (j - 1)) + 1 /\ c + ((j + 1) - 1) \in c .. e - 1
      BY <1>4, <3>1, <3>2
    <3>4. t[j + 1] = raw[(c + (j - 1)) + 1] /\ (c + (j - 1)) + 1 \notin Touched
      BY <1>7, <3>3
    <3>5. t[j].src = c + (j - 1)
      BY <1>7, <3>1
    <3>6. QED
      BY <1>2, <3>2, <3>4, <3>5 DEF Carries
  <2>2. QED
    BY <2>1 DEF Valued
<1>11. \A j \in KeysOf(t) : t[j].src # 0
  BY <1>2, <1>7 DEF KeysOf
<1>12. Fresh(raw, e) => Fresh(w, Len(w) + 1)
  <2>1. e - c \in 0 .. e - c
    BY <1>4
  <2>2. QED
    BY <1>4, <1>6, <2>1
<1>13. \A P : InTable(w, Len(w) + 1, P) <=> InTable(raw, e, P)
  <2>1. e - c \in 0 .. e - c
    BY <1>4
  <2>2. QED
    BY <1>4, <1>6, <2>1
<1>14. LinesWhole(w) /\ Valued(w) /\ Tabled(w) /\ Inserted(w, X)
  <2>1. LinesWhole(out) /\ Valued(out) /\ Tabled(out) /\ Inserted(out, X)
    BY DEF Good
  <2>2. LinesWhole(w)
    BY <1>1, <1>2, <1>8, <2>1, LinesGrow DEF w, n
  <2>3. Valued(w)
    BY <1>1, <1>2, <1>10, <2>1, ValuedGrows DEF w, n
  <2>4. Tabled(w)
    BY <1>1, <1>2, <1>9, <2>1, TabledGrows DEF w, n
  <2>5. Inserted(w, X)
    BY <1>1, <1>2, <1>10, <1>11, <2>1, NothingInserted DEF w
  <2>6. QED
    BY <2>2, <2>3, <2>4, <2>5
<1>15. e \in 1 .. Len(raw) + 1
  BY <1>1
<1>16. Good(w, e, X)
  BY <1>3, <1>12, <1>13, <1>14, <1>15 DEF Good
<1>17. QED
  BY <1>16 DEF w, t

\* A deleted line leaves no trace: it has no header, and what follows starts a line as it did.
LEMMA DeletedLine ==
  ASSUME Sound, LinesWhole(raw), NEW k \in KeysOf(raw)
  PROVE  /\ \A h \in LineStart(raw, k) .. LineEnd(raw, k) - 1 :
              h # k => raw[h].t \notin {"key", "header"}
         /\ Fresh(raw, LineStart(raw, k))
<1> DEFINE b == LineStart(raw, k)
           e == LineEnd(raw, k)
<1>1. raw \in Seq(Cells) /\ WellFormed(raw) /\ DOMAIN raw = 1 .. Len(raw) /\ Len(raw) \in Nat
  BY RawFacts DEF Sound
<1>2. b \in 1 .. k /\ (b = 1 \/ raw[b - 1].t = "nl")
  BY <1>1, StartOfLine
<1>3. {i \in DOMAIN raw : SameLine(raw, i, k) /\ SameLine(raw, k, i)} = b .. e - 1
  BY <1>1, SpanIsLine
<1>4. k \in Nat /\ k \in DOMAIN raw /\ raw[k].t = "key"
  BY <1>1 DEF KeysOf
<1> HIDE DEF b, e
<1>5. Fresh(raw, b)
  <2>1. b \in Nat /\ (b = 1 \/ (b > 1 /\ raw[b - 1].t = "nl"))
    BY <1>2, <1>4
  <2>2. QED
    BY <2>1, FreshAfterBreak
<1>6. ASSUME NEW h \in b .. e - 1, h # k, raw[h].t \in {"key", "header"} PROVE FALSE
  <2>1. h \in DOMAIN raw /\ SameLine(raw, h, k) /\ SameLine(raw, k, h)
    BY <1>3
  <2>2. h \in Starters(raw) /\ k \in Starters(raw)
    BY <1>4, <1>6, <2>1 DEF Starters
  <2>3. h \in Nat /\ h >= 1
    BY <1>1, <2>1
  <2>4. CASE h < k
    <3>1. h \in 1 .. k - 1
      BY <1>4, <2>3, <2>4
    <3>2. raw[h].t = "text"
      BY <2>1, <2>2, <3>1 DEF LinesWhole
    <3>3. QED
      BY <1>6, <3>2
  <2>5. CASE k < h
    <3>1. k \in 1 .. h - 1
      BY <1>1, <1>4, <2>3, <2>5
    <3>2. raw[k].t = "text"
      BY <2>1, <2>2, <3>1 DEF LinesWhole
    <3>3. QED
      BY <1>4, <3>2
  <2>6. QED
    BY <1>4, <1>6, <2>3, <2>4, <2>5
<1>7. QED
  BY <1>5, <1>6 DEF b, e

\* A deleted line takes no key and no header but its own.
LEMMA GoodDeletion ==
  ASSUME Sound, LinesWhole(raw), NEW X, NEW out, NEW k \in KeysOf(raw),
         Good(out, LineStart(raw, k), X)
  PROVE  Good(out, LineEnd(raw, k), X)
<1> DEFINE b == LineStart(raw, k)
           e == LineEnd(raw, k)
<1>1. raw \in Seq(Cells) /\ WellFormed(raw) /\ DOMAIN raw = 1 .. Len(raw) /\ Len(raw) \in Nat
  BY RawFacts DEF Sound
<1>2. b \in 1 .. k /\ k \in Nat /\ k >= 1
  BY <1>1, StartOfLine, NotBreaks
<1>3. e \in k + 2 .. Len(raw) + 1 /\ (e = Len(raw) + 1 \/ (e > k + 2 /\ raw[e - 1].t = "nl"))
  BY <1>1, EndOfLine
<1>4. /\ \A h \in b .. e - 1 : h # k => raw[h].t \notin {"key", "header"}
      /\ Fresh(raw, b)
  BY DeletedLine
<1>5. raw[k].t = "key" /\ Good(out, b, X)
  BY DEF KeysOf
<1> HIDE DEF b, e
<1>6. NoHeader(raw, b, e)
  BY <1>4, <1>5 DEF NoHeader
<1>7. ASSUME NEW P PROVE InTable(raw, e, P) <=> InTable(raw, b, P)
  <2>1. b \in Nat \ {0} /\ e \in Nat /\ b <= e
    BY <1>1, <1>2, <1>3
  <2>2. InTable(raw, e, P) <=> \/ LastHeader(raw, b, e, P)
                               \/ NoHeader(raw, b, e) /\ InTable(raw, b, P)
    BY <2>1, TableSplit
  <2>3. ~LastHeader(raw, b, e, P)
    BY <1>6 DEF LastHeader, NoHeader
  <2>4. QED
    BY <1>6, <2>2, <2>3
<1>8. raw[e - 1].t # "key"
  <2>1. CASE e = Len(raw) + 1
    <3>1. e - 1 = Len(raw) /\ ~(e - 1 < Len(raw))
      BY <1>1, <2>1
    <3>2. QED
      BY <1>1, <1>3, <3>1 DEF WellFormed, KeysOf
  <2>2. QED
    BY <1>3, <2>1
<1>9. e \in 1 .. Len(raw) + 1
  BY <1>1, <1>2, <1>3
<1>10. Fresh(out, Len(out) + 1) /\ \A P : InTable(out, Len(out) + 1, P) <=> InTable(raw, e, P)
  BY <1>4, <1>5, <1>7 DEF Good
<1>11. QED
  BY <1>5, <1>8, <1>9, <1>10 DEF Good, e

\* The cells of a piece of two, and of a line that is put in.
LEMMA Pieces ==
  ASSUME NEW a \in Cells, NEW b \in Cells, NEW d \in Cells
  PROVE  /\ <<a, b>> \in Seq(Cells) /\ Len(<<a, b>>) = 2 /\ DOMAIN <<a, b>> = 1 .. 2
         /\ <<a, b>>[1] = a /\ <<a, b>>[2] = b
         /\ <<a, b, d>> \in Seq(Cells) /\ Len(<<a, b, d>>) = 3 /\ DOMAIN <<a, b, d>> = 1 .. 3
         /\ <<a, b, d>>[1] = a /\ <<a, b, d>>[2] = b /\ <<a, b, d>>[3] = d
         /\ <<a>> \in Seq(Cells) /\ Len(<<a>>) = 1 /\ DOMAIN <<a>> = 1 .. 1 /\ <<a>>[1] = a
OBVIOUS

\* A key with the value that replaces its own.
LEMMA GoodReplacement ==
  ASSUME Sound, LinesWhole(raw), NEW X, NEW out, NEW k \in KeysOf(raw), Good(out, k, X),
         NEW cell \in Cells, cell.t = "value", Carries(k, cell)
  PROVE  Good(out \o <<raw[k], cell>>, k + 2, X)
<1> DEFINE t == <<raw[k], cell>>
           w == out \o t
           n == Len(out)
<1>1. /\ raw \in Seq(Cells) /\ WellFormed(raw) /\ Len(raw) \in Nat /\ DOMAIN raw = 1 .. Len(raw)
      /\ out \in Seq(Cells)
  BY RawFacts DEF Sound, Good
<1>2. k \in Nat /\ k >= 1 /\ k < Len(raw) /\ raw[k].t = "key" /\ raw[k + 1].t = "value"
      /\ raw[k].src = k /\ raw[k] \in Cells
  BY <1>1 DEF WellFormed, KeysOf
<1>3. t \in Seq(Cells) /\ Len(t) = 2 /\ DOMAIN t = 1 .. 2 /\ t[1] = raw[k] /\ t[2] = cell
  BY <1>2, Pieces
<1> HIDE DEF t
<1>4. /\ n \in Nat /\ w \in Seq(Cells) /\ Len(w) = n + Len(t) /\ DOMAIN out = 1 .. n
      /\ \A i \in DOMAIN out : w[i] = out[i]
      /\ \A j \in DOMAIN t : w[n + j] = t[j]
  BY <1>1, <1>3, Joined
<1> HIDE DEF w, n
<1>5. w[n + 1] = raw[k] /\ w[n + 2] = cell /\ Len(w) = n + 2
  BY <1>3, <1>4
<1>6. /\ Fresh(w, n + 1)
      /\ \A P : InTable(w, n + 1, P) <=> InTable(raw, k, P)
  <2>1. n + 1 \in Nat /\ \A i \in 1 .. (n + 1) - 1 : w[i] = out[i]
    BY <1>4
  <2>2. /\ Fresh(w, n + 1) <=> Fresh(out, n + 1)
        /\ \A P : InTable(w, n + 1, P) <=> InTable(out, n + 1, P)
    BY <2>1, SameBefore
  <2>3. Fresh(raw, k)
    BY <1>1, <1>2 DEF LinesWhole, Fresh, Starters
  <2>4. QED
    BY <2>2, <2>3 DEF Good, n
<1>7. \A j \in Starters(t) : j = 1
  BY <1>3 DEF Starters
<1>8. \A j \in KeysOf(t) : j = 1
  BY <1>3 DEF KeysOf
<1>9. \A j \in Starters(t) : Fresh(w, n + j)
  BY <1>6, <1>7
<1>10. \A j \in KeysOf(t) : Placed(w, n + j)
  BY <1>2, <1>5, <1>6, <1>8 DEF Placed
<1>11. Valued(t)
  BY <1>2, <1>3, <1>8 DEF Valued
<1>12. \A j \in KeysOf(t) : t[j].src # 0
  <2>1. t[1].src # 0
    BY <1>2, <1>3
  <2>2. QED
    BY <1>8, <2>1
<1>13. LinesWhole(w) /\ Valued(w) /\ Tabled(w) /\ Inserted(w, X)
  <2>1. LinesWhole(out) /\ Valued(out) /\ Tabled(out) /\ Inserted(out, X)
    BY DEF Good
  <2>2. LinesWhole(w)
    BY <1>1, <1>3, <1>9, <2>1, LinesGrow DEF w, n
  <2>3. Valued(w)
    BY <1>1, <1>3, <1>11, <2>1, ValuedGrows DEF w, n
  <2>4. Tabled(w)
    BY <1>1, <1>3, <1>10, <2>1, TabledGrows DEF w, n
  <2>5. Inserted(w, X)
    BY <1>1, <1>3, <1>11, <1>12, <2>1, NothingInserted DEF w
  <2>6. QED
    BY <2>2, <2>3, <2>4, <2>5
<1>14. ~Fresh(raw, k + 2)
  <2>1. SameLine(raw, k + 1, k + 2)
    BY <1>2 DEF SameLine
  <2>2. k + 1 \in 1 .. (k + 2) - 1
    BY <1>2
  <2>3. QED
    BY <1>2, <2>1, <2>2 DEF Fresh
<1>15. ASSUME NEW P PROVE InTable(w, Len(w) + 1, P) <=> InTable(raw, k + 2, P)
  <2>1. NoHeader(w, n + 1, n + 3) /\ NoHeader(raw, k, k + 2)
    <3>1. \A h \in n + 1 .. (n + 3) - 1 : h = n + 1 \/ h = n + 2
      BY <1>4
    <3>2. \A h \in k .. (k + 2) - 1 : h = k \/ h = k + 1
      BY <1>2
    <3>3. QED
      BY <1>2, <1>5, <3>1, <3>2 DEF NoHeader
  <2>2. ~LastHeader(w, n + 1, n + 3, P) /\ ~LastHeader(raw, k, k + 2, P)
    BY <2>1 DEF NoHeader, LastHeader
  <2>3. /\ InTable(w, n + 3, P) <=> \/ LastHeader(w, n + 1, n + 3, P)
                                    \/ NoHeader(w, n + 1, n + 3) /\ InTable(w, n + 1, P)
        /\ InTable(raw, k + 2, P) <=> \/ LastHeader(raw, k, k + 2, P)
                                      \/ NoHeader(raw, k, k + 2) /\ InTable(raw, k, P)
    <3>1. /\ n + 1 \in Nat \ {0} /\ n + 3 \in Nat /\ n + 1 <= n + 3
          /\ k \in Nat \ {0} /\ k + 2 \in Nat /\ k <= k + 2
      BY <1>2, <1>4
    <3>2. QED
      BY <3>1, TableSplit
  <2>4. Len(w) + 1 = n + 3
    BY <1>4, <1>5
  <2>5. QED
    BY <1>6, <2>1, <2>2, <2>3, <2>4
<1>16. k + 2 \in 1 .. Len(raw) + 1 /\ (k + 2) - 1 = k + 1
  BY <1>1, <1>2
<1>17. Good(w, k + 2, X)
  BY <1>2, <1>4, <1>13, <1>14, <1>15, <1>16 DEF Good
<1>18. QED
  BY <1>17 DEF w, t

-----------------------------------------------------------------------------
(* The loop keeps a text good: what it inserts.                            *)

\* The line that an insertion puts in.
Line(x) == <<KeyCell(insertions[x].path), ValueCell(pending[insertions[x].path], FALSE), LineBreak>>

LEMMA LineCells ==
  ASSUME TypeOK, NEW x \in DOMAIN insertions, Live(x)
  PROVE  /\ Line(x) \in Seq(Cells) /\ Len(Line(x)) = 3 /\ DOMAIN Line(x) = 1 .. 3
         /\ Line(x)[1].t = "key" /\ Line(x)[1].src = 0 /\ Line(x)[1].path = insertions[x].path
         /\ Line(x)[2].t = "value" /\ Line(x)[2].value = pending[insertions[x].path]
         /\ Line(x)[3].t = "nl"
<1> DEFINE a == KeyCell(insertions[x].path)
           b == ValueCell(pending[insertions[x].path], FALSE)
           d == LineBreak
<1>1. /\ a.t = "key" /\ a.src = 0 /\ a.path = insertions[x].path
      /\ b.t = "value" /\ b.value = pending[insertions[x].path] /\ d.t = "nl"
  BY DEF KeyCell, ValueCell, LineBreak, Cell
<1>2. Line(x) \in Seq(Cells)
  BY NewLine DEF New, Line
<1>3. Line(x) = <<a, b, d>>
  BY Zenon DEF Line
<1> HIDE DEF a, b, d
<1>4. Len(Line(x)) = 3 /\ DOMAIN Line(x) = 1 .. 3
      /\ Line(x)[1] = a /\ Line(x)[2] = b /\ Line(x)[3] = d
  BY <1>3
<1>5. QED
  BY <1>1, <1>2, <1>4

\* An insertion stands between two lines, outside every table.
LEMMA InsertionShape ==
  ASSUME Sound, Hygienic, NEW x \in DOMAIN insertions, Live(x)
  PROVE  /\ InsertionOp(x).end = InsertionOp(x).start
         /\ InsertionOp(x).start \in 1 .. Len(raw) + 1
         /\ InsertionOp(x).order = Len(raw) + x
         /\ InTable(raw, InsertionOp(x).start, << >>)
         /\ \/ InsertionOp(x).start = Len(raw) + 1
            \/ InsertionOp(x).start > 1 /\ raw[InsertionOp(x).start - 1].t = "nl"
         /\ \/ /\ InsertionOp(x).text = Line(x)
               /\ \/ InsertionOp(x).start = 1
                  \/ InsertionOp(x).start > 1 /\ raw[InsertionOp(x).start - 1].t = "nl"
            \/ InsertionOp(x).text = <<LineBreak>> \o Line(x)
<1> DEFINE ins == insertions[x]
           pos == IF ins.after = None THEN Len(raw) + 1 ELSE LineEnd(raw, byPath[ins.after])
           o == InsertionOp(x)
<1>1. /\ raw \in Seq(Cells) /\ WellFormed(raw) /\ Len(raw) \in Nat
      /\ DOMAIN raw = 1 .. Len(raw) /\ KeysOf(raw) \subseteq 1 .. Len(raw)
  BY RawFacts DEF Sound
<1>2. o = Op(pos, pos, IF ins.after = None THEN AppendPrefix \o Line(x) ELSE Line(x), Len(raw) + x)
  BY Zenon DEF InsertionOp, Line
<1> HIDE DEF o
<1>3. o.start = pos /\ o.end = pos /\ o.order = Len(raw) + x
      /\ o.text = IF ins.after = None THEN AppendPrefix \o Line(x) ELSE Line(x)
  BY <1>2 DEF Op
<1>4. InTable(raw, o.start, << >>) /\ (ins.after # None => raw[o.start - 1].t = "nl")
  BY DEF Hygienic, o
<1>5. CASE ins.after # None
  <2>1. ins.after \in Paths /\ HasEntry(ins.after)
    BY <1>5, InsertionTyped DEF Sound, NothingOnlyInMemory
  <2>2. byPath[ins.after] \in KeysOf(raw)
    BY <2>1, EntryTyped DEF Sound
  <2>3. PICK k \in KeysOf(raw) : k = byPath[ins.after]
    BY <2>2
  <2>4. LineEnd(raw, k) \in k + 2 .. Len(raw) + 1 /\ k \in Nat /\ k >= 1
    BY <1>1, EndOfLine
  <2>5. pos = LineEnd(raw, k)
    BY <1>5, <2>3
  <2> HIDE DEF pos
  <2>6. pos \in 1 .. Len(raw) + 1 /\ pos > 1
    BY <1>1, <2>4, <2>5
  <2>7. raw[o.start - 1].t = "nl" /\ o.text = Line(x)
    BY <1>3, <1>4, <1>5
  <2>8. QED
    BY <1>3, <1>4, <2>6, <2>7 DEF o
<1>6. CASE ins.after = None
  <2>1. o.start = Len(raw) + 1 /\ o.text = AppendPrefix \o Line(x) /\ o.start \in 1 .. Len(raw) + 1
    BY <1>1, <1>3, <1>6
  <2>2. Line(x) \in Seq(Cells)
    BY LineCells DEF Sound
  <2>3. CASE raw # << >> /\ Last(raw).t # "nl"
    <3>1. AppendPrefix = <<LineBreak>>
      BY <2>3, Zenon DEF AppendPrefix
    <3>2. QED
      BY <1>3, <1>4, <2>1, <3>1 DEF o
  <2>4. CASE ~(raw # << >> /\ Last(raw).t # "nl")
    <3>1. AppendPrefix = << >>
      BY <2>4, Zenon DEF AppendPrefix
    <3>2. o.text = Line(x)
      BY <2>1, <2>2, <3>1, ConcatEmptySeq
    <3>3. o.start = 1 \/ (o.start > 1 /\ raw[o.start - 1].t = "nl")
      <4>1. CASE raw = << >>
        BY <2>1, <4>1
      <4>2. CASE raw # << >>
        <5>1. Last(raw) = raw[Len(raw)] /\ Len(raw) >= 1 /\ (Len(raw) + 1) - 1 = Len(raw)
          BY <1>1, <4>2, EmptySeq DEF Last
        <5>2. QED
          BY <1>1, <2>1, <2>4, <4>2, <5>1
      <4>3. QED
        BY <4>1, <4>2
    <3>4. QED
      BY <1>3, <1>4, <2>1, <3>2, <3>3 DEF o
  <2>5. QED
    BY <2>3, <2>4
<1>7. QED
  BY <1>5, <1>6

\* An inserted line.
LEMMA GoodLine ==
  ASSUME Sound, NEW X, NEW out, NEW pos, Good(out, pos, X), Fresh(out, Len(out) + 1),
         InTable(raw, pos, << >>), NEW x \in DOMAIN insertions, Live(x),
         \A y \in X : insertions[y].path # insertions[x].path
  PROVE  Good(out \o Line(x), pos, X \cup {x})
<1> DEFINE t == Line(x)
           w == out \o t
           n == Len(out)
<1>1. out \in Seq(Cells)
  BY DEF Good
<1>2. /\ t \in Seq(Cells) /\ Len(t) = 3 /\ DOMAIN t = 1 .. 3
      /\ t[1].t = "key" /\ t[1].src = 0 /\ t[2].t = "value" /\ t[3].t = "nl"
      /\ Writes(t[1], t[2], x)
  BY LineCells DEF Writes, Sound
<1> HIDE DEF t
<1>3. /\ n \in Nat /\ w \in Seq(Cells) /\ Len(w) = n + Len(t) /\ DOMAIN out = 1 .. n
      /\ \A i \in DOMAIN out : w[i] = out[i]
      /\ \A j \in DOMAIN t : w[n + j] = t[j]
  BY <1>1, <1>2, Joined
<1> HIDE DEF w, n
<1>4. w[n + 1] = t[1] /\ w[n + 2] = t[2] /\ w[n + 3] = t[3] /\ Len(w) = n + 3
  BY <1>2, <1>3
<1>5. Fresh(w, n + 1) /\ \A P : InTable(w, n + 1, P) <=> InTable(raw, pos, P)
  <2>1. n + 1 \in Nat /\ \A i \in 1 .. (n + 1) - 1 : w[i] = out[i]
    BY <1>3
  <2>2. /\ Fresh(w, n + 1) <=> Fresh(out, n + 1)
        /\ \A P : InTable(w, n + 1, P) <=> InTable(out, n + 1, P)
    BY <2>1, SameBefore
  <2>3. Fresh(out, n + 1) /\ \A P : InTable(out, n + 1, P) <=> InTable(raw, pos, P)
    BY DEF Good, n
  <2>4. QED
    BY <2>2, <2>3
<1>6. \A j \in Starters(t) : j = 1
  BY <1>2 DEF Starters
<1>7. \A j \in KeysOf(t) : j = 1
  BY <1>2 DEF KeysOf
<1>8. \A j \in Starters(t) : Fresh(w, n + j)
  BY <1>5, <1>6
<1>9. \A j \in KeysOf(t) : Placed(w, n + j)
  <2>1. Placed(w, n + 1)
    <3>1. w[n + 1].src = 0 /\ InTable(w, n + 1, << >>)
      BY <1>2, <1>4, <1>5
    <3>2. QED
      BY <3>1 DEF Placed
  <2>2. QED
    BY <1>7, <2>1
<1>10. Valued(t)
  <2>1. ASSUME NEW j \in KeysOf(t) PROVE j < Len(t) /\ t[j].src = 0
    <3>1. j = 1
      BY <1>7
    <3>2. QED
      BY <1>2, <3>1
  <2>2. QED
    BY <2>1 DEF Valued
<1>11. NewKeys(t) = {1}
  <2>1. 1 \in KeysOf(t) /\ t[1].src = 0
    BY <1>2 DEF KeysOf
  <2>2. QED
    BY <1>7, <2>1 DEF NewKeys
<1>12. LinesWhole(w) /\ Valued(w) /\ Tabled(w) /\ Inserted(w, X \cup {x})
  <2>1. LinesWhole(out) /\ Valued(out) /\ Tabled(out) /\ Inserted(out, X)
    BY DEF Good
  <2>2. LinesWhole(w)
    BY <1>1, <1>2, <1>8, <2>1, LinesGrow DEF w, n
  <2>3. Valued(w)
    BY <1>1, <1>2, <1>10, <2>1, ValuedGrows DEF w, n
  <2>4. Tabled(w)
    BY <1>1, <1>2, <1>9, <2>1, TabledGrows DEF w, n
  <2>5. Writes(t[1], t[1 + 1], x)
    BY <1>2
  <2>6. Inserted(w, X \cup {x})
    BY <1>1, <1>2, <1>10, <1>11, <2>1, <2>5, OneInserted DEF w
  <2>7. QED
    BY <2>2, <2>3, <2>4, <2>6
<1>13. Fresh(w, Len(w) + 1)
  <2>1. Len(w) + 1 \in Nat /\ Len(w) + 1 > 1 /\ (Len(w) + 1) - 1 = n + 3
    BY <1>3, <1>4
  <2>2. w[(Len(w) + 1) - 1].t = "nl"
    BY <1>2, <1>4, <2>1
  <2>3. QED
    BY <2>1, <2>2, FreshAfterBreak
<1>14. ASSUME NEW P PROVE InTable(w, Len(w) + 1, P) <=> InTable(raw, pos, P)
  <2>1. NoHeader(w, n + 1, n + 4)
    <3>1. \A h \in n + 1 .. (n + 4) - 1 : h = n + 1 \/ h = n + 2 \/ h = n + 3
      BY <1>3
    <3>2. w[n + 1].t # "header" /\ w[n + 2].t # "header" /\ w[n + 3].t # "header"
      BY <1>2, <1>4
    <3>3. QED
      BY <3>1, <3>2 DEF NoHeader
  <2>2. ~LastHeader(w, n + 1, n + 4, P)
    BY <2>1 DEF NoHeader, LastHeader
  <2>3. InTable(w, n + 4, P) <=> \/ LastHeader(w, n + 1, n + 4, P)
                                 \/ NoHeader(w, n + 1, n + 4) /\ InTable(w, n + 1, P)
    <3>1. n + 1 \in Nat \ {0} /\ n + 4 \in Nat /\ n + 1 <= n + 4
      BY <1>3
    <3>2. QED
      BY <3>1, TableSplit
  <2>4. Len(w) + 1 = n + 4
    BY <1>3, <1>4
  <2>5. QED
    BY <1>5, <2>1, <2>2, <2>3, <2>4
<1>15. Good(w, pos, X \cup {x})
  BY <1>3, <1>12, <1>13, <1>14 DEF Good
<1>16. QED
  BY <1>15 DEF w, t

\* The line break that an appended line needs on an unfinished last line.
LEMMA GoodBreak ==
  ASSUME NEW X, NEW out, NEW pos, Good(out, pos, X)
  PROVE  Good(out \o <<LineBreak>>, pos, X) /\ Fresh(out \o <<LineBreak>>, Len(out \o <<LineBreak>>) + 1)
<1> DEFINE t == <<LineBreak>>
           w == out \o t
           n == Len(out)
<1>1. out \in Seq(Cells)
  BY DEF Good
<1>2. LineBreak \in Cells /\ LineBreak.t = "nl"
  BY EmptySeq DEF LineBreak, Cell, Cells, CellTypes
<1>3. t \in Seq(Cells) /\ Len(t) = 1 /\ DOMAIN t = 1 .. 1 /\ t[1].t = "nl"
  BY <1>2, Pieces
<1> HIDE DEF t
<1>4. /\ n \in Nat /\ w \in Seq(Cells) /\ Len(w) = n + Len(t) /\ DOMAIN out = 1 .. n
      /\ \A i \in DOMAIN out : w[i] = out[i]
      /\ \A j \in DOMAIN t : w[n + j] = t[j]
  BY <1>1, <1>3, Joined
<1> HIDE DEF w, n
<1>5. w[n + 1].t = "nl" /\ Len(w) = n + 1
  BY <1>3, <1>4
<1>6. \A P : InTable(w, n + 1, P) <=> InTable(raw, pos, P)
  <2>1. n + 1 \in Nat /\ \A i \in 1 .. (n + 1) - 1 : w[i] = out[i]
    BY <1>4
  <2>2. \A P : InTable(w, n + 1, P) <=> InTable(out, n + 1, P)
    BY <2>1, SameBefore
  <2>3. QED
    BY <2>2 DEF Good, n
<1>7. /\ \A j : j \notin Starters(t)
      /\ \A j : j \notin KeysOf(t)
  <2>1. ASSUME NEW j \in DOMAIN t PROVE t[j].t = "nl"
    BY <1>3
  <2>2. QED
    BY <2>1 DEF Starters, KeysOf
<1>8. Valued(t)
  BY <1>7 DEF Valued
<1>9. LinesWhole(w) /\ Valued(w) /\ Tabled(w) /\ Inserted(w, X)
  <2>1. LinesWhole(out) /\ Valued(out) /\ Tabled(out) /\ Inserted(out, X)
    BY DEF Good
  <2>2. LinesWhole(w)
    BY <1>1, <1>3, <1>7, <2>1, LinesGrow DEF w, n
  <2>3. Valued(w)
    BY <1>1, <1>3, <1>8, <2>1, ValuedGrows DEF w, n
  <2>4. Tabled(w)
    BY <1>1, <1>3, <1>7, <2>1, TabledGrows DEF w, n
  <2>5. Inserted(w, X)
    BY <1>1, <1>3, <1>8, <1>7, <2>1, NothingInserted DEF w
  <2>6. QED
    BY <2>2, <2>3, <2>4, <2>5
<1>10. Fresh(w, Len(w) + 1)
  <2>1. Len(w) + 1 \in Nat /\ Len(w) + 1 > 1 /\ (Len(w) + 1) - 1 = n + 1
    BY <1>4, <1>5
  <2>2. w[(Len(w) + 1) - 1].t = "nl"
    BY <1>5, <2>1
  <2>3. QED
    BY <2>1, <2>2, FreshAfterBreak
<1>11. ASSUME NEW P PROVE InTable(w, Len(w) + 1, P) <=> InTable(raw, pos, P)
  <2>1. NoHeader(w, n + 1, n + 2)
    <3>1. \A h \in n + 1 .. (n + 2) - 1 : h = n + 1
      BY <1>4
    <3>2. QED
      BY <1>5, <3>1 DEF NoHeader
  <2>2. ~LastHeader(w, n + 1, n + 2, P)
    BY <2>1 DEF NoHeader, LastHeader
  <2>3. InTable(w, n + 2, P) <=> \/ LastHeader(w, n + 1, n + 2, P)
                                 \/ NoHeader(w, n + 1, n + 2) /\ InTable(w, n + 1, P)
    <3>1. n + 1 \in Nat \ {0} /\ n + 2 \in Nat /\ n + 1 <= n + 2
      BY <1>4
    <3>2. QED
      BY <3>1, TableSplit
  <2>4. Len(w) + 1 = n + 2
    BY <1>4, <1>5
  <2>5. QED
    BY <1>6, <2>1, <2>2, <2>3, <2>4
<1>12. Good(w, pos, X)
  BY <1>4, <1>9, <1>10, <1>11 DEF Good
<1>13. QED
  BY <1>10, <1>12 DEF w, t

\* An insertion puts in its entry, and what follows it goes on as before.
LEMMA GoodInsertion ==
  ASSUME Sound, Hygienic, NEW X, X \subseteq DOMAIN insertions, NEW out,
         NEW x \in DOMAIN insertions, Live(x), x \notin X,
         Good(out, InsertionOp(x).start, X)
  PROVE  Good(out \o InsertionOp(x).text, InsertionOp(x).start, X \cup {x})
<1> DEFINE pos == InsertionOp(x).start
           text == InsertionOp(x).text
<1>1. /\ pos \in 1 .. Len(raw) + 1 /\ InTable(raw, pos, << >>)
      /\ \/ text = Line(x) /\ (pos = 1 \/ (pos > 1 /\ raw[pos - 1].t = "nl"))
         \/ text = <<LineBreak>> \o Line(x)
  BY InsertionShape
<1>2. \A y \in X : insertions[y].path # insertions[x].path
  BY DEF Hygienic
<1>3. Good(out, pos, X)
  OBVIOUS
<1> HIDE DEF pos, text
<1>4. CASE text = Line(x) /\ (pos = 1 \/ (pos > 1 /\ raw[pos - 1].t = "nl"))
  <2>1. Fresh(raw, pos)
    <3>1. pos \in Nat
      BY <1>1, RawFacts DEF Sound
    <3>2. QED
      BY <1>4, <3>1, FreshAfterBreak
  <2>2. Fresh(out, Len(out) + 1)
    BY <1>3, <2>1 DEF Good
  <2>3. QED
    BY <1>1, <1>2, <1>3, <1>4, <2>2, GoodLine DEF pos, text
<1>5. CASE text = <<LineBreak>> \o Line(x)
  <2> DEFINE more == out \o <<LineBreak>>
  <2>1. Good(more, pos, X) /\ Fresh(more, Len(more) + 1)
    BY <1>3, GoodBreak
  <2> HIDE DEF more
  <2>2. Good(more \o Line(x), pos, X \cup {x})
    BY <1>1, <1>2, <2>1, GoodLine
  <2>3. more \o Line(x) = out \o text
    <3>1. LineBreak \in Cells
      BY EmptySeq DEF LineBreak, Cell, Cells, CellTypes
    <3>2. out \in Seq(Cells) /\ <<LineBreak>> \in Seq(Cells) /\ Line(x) \in Seq(Cells)
      BY <1>3, <3>1, LineCells DEF Good, Sound
    <3>3. QED
      BY <1>5, <3>2, ConcatAssociative DEF more
  <2>4. QED
    BY <2>2, <2>3 DEF pos, text
<1>6. QED
  BY <1>1, <1>4, <1>5

-----------------------------------------------------------------------------
(* The loop keeps a text good: every operation.                            *)

\* An insertion is never passed over: it stands at the end of a line.
LEMMA NeverPassedOver ==
  ASSUME Sound, Hygienic, NEW n \in 1 .. Len(Sorted(Ops)), NEW done, Looped(done, n - 1),
         NEW x \in DOMAIN insertions, Live(x), Sorted(Ops)[n] = InsertionOp(x),
         Sorted(Ops)[n].start < done.cursor
  PROVE  FALSE
<1> DEFINE s == Sorted(Ops)
           op == s[n]
           c == done.cursor
<1>1. /\ Len(s) \in Nat /\ \A i, j \in 1 .. Len(s) : i < j => Before(s[i], s[j])
  BY SortedOps
<1>2. /\ raw \in Seq(Cells) /\ WellFormed(raw) /\ Len(raw) \in Nat /\ c \in 1 .. Len(raw) + 1
      /\ c = 1 \/ \E m \in 1 .. n - 1 : s[m].end = c
  BY RawFacts DEF Looped, Sound
<1>3. \A i \in 1 .. Len(s) :
         /\ s[i] \in Ops /\ s[i].start \in Nat /\ s[i].end \in Nat
         /\ 1 <= s[i].start /\ s[i].start <= s[i].end /\ s[i].end <= Len(raw) + 1
  BY SortedSpans
<1>4. /\ op.end = op.start
      /\ op.start = Len(raw) + 1 \/ (op.start > 1 /\ raw[op.start - 1].t = "nl")
  BY InsertionShape
<1>5. op.start < c
  OBVIOUS
<1> HIDE DEF s, c
<1>6. n \in Nat /\ n >= 1 /\ n <= Len(s) /\ n \in 1 .. Len(s)
  BY <1>1 DEF s
<1> HIDE DEF op
<1>7. op = s[n] /\ op.start \in Nat /\ op.start >= 1
  BY <1>3, <1>6 DEF op
<1>8. PICK m \in 1 .. n - 1 : s[m].end = c
  BY <1>2, <1>5, <1>7
<1>9. m \in 1 .. Len(s) /\ m < n
  BY <1>1, <1>6
<1> DEFINE q == s[m]
<1>10. /\ q \in Ops /\ q.start \in Nat /\ q.end = c /\ Before(q, op)
  BY <1>1, <1>3, <1>6, <1>7, <1>8, <1>9
<1> HIDE DEF q
<1>11. q.start < op.start /\ op.start < q.end
  BY <1>2, <1>4, <1>5, <1>7, <1>10 DEF Before
<1>12. IsDeletion(q) \/ IsReplacement(q) \/ IsInsertion(q)
  BY <1>10, OpKinds DEF Sound
<1>13. CASE IsInsertion(q)
  <2>1. q.end = q.start
    BY <1>13, InsertionShape DEF IsInsertion
  <2>2. QED
    BY <1>7, <1>10, <1>11, <2>1
<1>14. CASE IsReplacement(q)
  <2>1. PICK k \in KeysOf(raw) : q.start = k + 1 /\ q.end = k + 2
    BY <1>14 DEF IsReplacement, EntriesAt, Op
  <2>2. k \in Nat
    BY <1>2, NotBreaks
  <2>3. QED
    BY <1>7, <1>11, <2>1, <2>2
<1>15. CASE IsDeletion(q)
  <2>1. PICK k \in KeysOf(raw) : q.start = LineStart(raw, k) /\ q.end = LineEnd(raw, k)
    BY <1>15 DEF IsDeletion, EntriesAt, Op
  <2>2. k \in Nat /\ k >= 1 /\ raw[k].t # "nl" /\ raw[k + 1].t # "nl"
    BY <1>2, NotBreaks
  <2>3. /\ q.start \in 1 .. k /\ \A j \in q.start .. k - 1 : raw[j].t # "nl"
        /\ q.end \in k + 2 .. Len(raw) + 1 /\ \A j \in k + 2 .. q.end - 2 : raw[j].t # "nl"
    BY <1>2, <2>1, StartOfLine, EndOfLine
  <2>4. CASE op.start = Len(raw) + 1
    BY <1>2, <1>10, <1>11, <2>4
  <2>5. CASE op.start > 1 /\ raw[op.start - 1].t = "nl"
    <3>1. \/ op.start - 1 \in q.start .. k - 1 \/ op.start - 1 = k \/ op.start - 1 = k + 1
          \/ op.start - 1 \in k + 2 .. q.end - 2
      <4>1. q.start \in Nat /\ q.end \in Nat /\ k \in Nat /\ op.start \in Nat
        BY <1>2, <1>7, <1>10, <2>2
      <4>2. q.start <= op.start - 1 /\ op.start - 1 <= q.end - 2 /\ op.start - 1 \in Int
        BY <1>11, <4>1
      <4>3. ASSUME NEW z \in Int, q.start <= z, z <= q.end - 2
            PROVE  z \in q.start .. k - 1 \/ z = k \/ z = k + 1 \/ z \in k + 2 .. q.end - 2
        BY <4>1, <4>3
      <4>4. QED
        BY <4>2, <4>3
    <3>2. QED
      BY <2>2, <2>3, <2>5, <3>1
  <2>6. QED
    BY <1>4, <2>4, <2>5
<1>16. QED
  BY <1>12, <1>13, <1>14, <1>15

\* The insertions among the first n operations.
Put(n) == {x \in DOMAIN insertions : Live(x) /\ \E m \in 1 .. n : Sorted(Ops)[m] = InsertionOp(x)}

\* Each insertion is put in once.
LEMMA PutGrows ==
  ASSUME Sound, NEW n \in 1 .. Len(Sorted(Ops))
  PROVE  /\ \A x \in DOMAIN insertions : Live(x) /\ Sorted(Ops)[n] = InsertionOp(x) =>
              x \notin Put(n - 1) /\ Put(n) = Put(n - 1) \cup {x}
         /\ ~IsInsertion(Sorted(Ops)[n]) => Put(n) = Put(n - 1)
<1> DEFINE s == Sorted(Ops)
<1>1. Len(s) \in Nat /\ \A i, j \in 1 .. Len(s) : i < j => Before(s[i], s[j])
  BY SortedOps
<1>2. \A i \in 1 .. Len(s) : s[i].start \in Nat /\ s[i].end \in Nat
  BY SortedSpans
<1>3. \A x \in DOMAIN insertions : InsertionOp(x).order = Len(raw) + x /\ x \in Nat
  <2>1. insertions \in Seq([after : Paths \cup {None}, path : Paths])
    BY DEF Sound, TypeOK
  <2>2. QED
    BY <2>1 DEF InsertionOp, Op
<1>4. Len(raw) \in Nat
  BY RawFacts DEF Sound
<1> HIDE DEF s
<1>5. /\ n \in Nat /\ n >= 1 /\ n <= Len(s) /\ n \in 1 .. Len(s)
      /\ \A m \in 1 .. n : m = n \/ m \in 1 .. n - 1
      /\ \A m \in 1 .. n - 1 : m \in 1 .. n /\ m \in 1 .. Len(s) /\ m < n
  BY <1>1 DEF s
<1>6. \A x, y \in DOMAIN insertions : InsertionOp(x) = InsertionOp(y) => x = y
  <2>1. ASSUME NEW x \in DOMAIN insertions, NEW y \in DOMAIN insertions,
               InsertionOp(x) = InsertionOp(y)
        PROVE  x = y
    <3>1. Len(raw) + x = Len(raw) + y /\ x \in Nat /\ y \in Nat
      BY <1>3, <2>1
    <3>2. QED
      BY <1>4, <3>1
  <2>2. QED
    BY <2>1
<1>7. ASSUME NEW x \in DOMAIN insertions, Live(x), s[n] = InsertionOp(x)
      PROVE  x \notin Put(n - 1) /\ Put(n) = Put(n - 1) \cup {x}
  <2>1. ASSUME NEW m \in 1 .. n - 1, s[m] = InsertionOp(x) PROVE FALSE
    <3>1. s[m] = s[n] /\ s[n].start \in Nat /\ s[n].end \in Nat
      BY <1>2, <1>5, <1>7, <2>1
    <3>2. Before(s[m], s[n])
      BY <1>1, <1>5
    <3>3. s[n].order = Len(raw) + x /\ x \in Nat
      BY <1>3, <1>7
    <3>4. QED
      BY <1>4, <3>1, <3>2, <3>3 DEF Before
  <2>2. x \notin Put(n - 1)
    BY <2>1 DEF Put, s
  <2>3. x \in Put(n) /\ \A y \in Put(n - 1) : y \in Put(n)
    BY <1>5, <1>7 DEF Put, s
  <2>4. \A y \in Put(n) : y = x \/ y \in Put(n - 1)
    BY <1>5, <1>6, <1>7 DEF Put, s
  <2>5. QED
    BY <2>2, <2>3, <2>4
<1>8. ASSUME ~IsInsertion(s[n]) PROVE Put(n) = Put(n - 1)
  <2>1. \A x \in DOMAIN insertions : ~(Live(x) /\ s[n] = InsertionOp(x))
    BY <1>8 DEF IsInsertion
  <2>2. \A y \in Put(n) : y \in Put(n - 1)
    BY <1>5, <2>1 DEF Put, s
  <2>3. \A y \in Put(n - 1) : y \in Put(n)
    BY <1>5 DEF Put, s
  <2>4. QED
    BY <2>2, <2>3
<1>9. QED
  BY <1>7, <1>8 DEF s

\* The text of a replacement is one cell, the new value.
LEMMA ReplacementCell ==
  ASSUME Sound, NEW p \in Paths, replacements[p] # << >>
  PROVE  \E cell \in Cells : /\ replacements[p] = <<cell>> /\ cell.t = "value"
                             /\ cell.value = values[byPath[p]]
<1>1. HasEntry(p) /\ replacements[p] = Formatted(p, values[byPath[p]])
  BY DEF Sound, OneEditPerEntry
<1> DEFINE v == values[byPath[p]]
           lit == /\ HasEntry(p) /\ raw[byPath[p] + 1].literal
                  /\ raw[byPath[p] + 1].value \in Strings /\ v \in LiteralSafe
           cell == ValueCell(v, lit)
<1>2. replacements[p] = <<cell>>
  BY <1>1, Zenon DEF Formatted
<1> HIDE DEF lit, v
<1>3. cell.t = "value" /\ cell.value = v
  BY DEF ValueCell, Cell
<1>4. replacements[p] \in Seq(Cells)
  BY DEF Sound, TypeOK
<1> HIDE DEF cell
<1>5. cell \in Cells
  <2>1. <<cell>> \in Seq(Cells)
    BY <1>2, <1>4
  <2>2. 1 \in 1 .. Len(<<cell>>) /\ <<cell>>[1] = cell
    OBVIOUS
  <2>3. QED
    BY <2>1, <2>2, ElementOfSeq
<1>6. QED
  BY <1>2, <1>3, <1>5 DEF v

LEMMA Associative ==
  ASSUME NEW s \in Seq(Cells), NEW t \in Seq(Cells), NEW u \in Seq(Cells)
  PROVE  (s \o t) \o u = s \o (t \o u)
BY ConcatAssociative

Regrouped(s, t, x, y) == (s \o (t \o x)) \o y = (s \o t) \o (x \o y)

LEMMA Regroup ==
  ASSUME NEW s \in Seq(Cells), NEW t \in Seq(Cells), NEW x \in Seq(Cells), NEW y \in Seq(Cells)
  PROVE  Regrouped(s, t, x, y)
<1>1. PICK r \in Seq(Cells) : r = s \o t
  BY ConcatProperties
<1>2. s \o (t \o x) = (s \o t) \o x
  BY Associative
<1>3. (r \o x) \o y = r \o (x \o y)
  BY Associative
<1>4. QED
  BY <1>1, <1>2, <1>3 DEF Regrouped

LEMMA TwoCells ==
  ASSUME NEW a \in Cells, NEW b \in Cells
  PROVE  <<a>> \in Seq(Cells) /\ <<b>> \in Seq(Cells) /\ <<a>> \o <<b>> = <<a, b>>
<1>1. <<a>> \in Seq(Cells) /\ <<b>> \in Seq(Cells)
  OBVIOUS
<1>2. <<a, b>> \in Seq(Cells) /\ Len(<<a, b>>) = 2 /\ <<a, b>>[1] = a /\ <<a, b>>[2] = b
  OBVIOUS
<1>3. /\ <<a>> \o <<b>> \in Seq(Cells) /\ Len(<<a>> \o <<b>>) = 2
      /\ (<<a>> \o <<b>>)[1] = a /\ (<<a>> \o <<b>>)[2] = b
  OBVIOUS
<1>4. \A i \in 1 .. 2 : i = 1 \/ i = 2
  OBVIOUS
<1>5. QED
  BY <1>1, <1>2, <1>3, <1>4, SeqEqual

\* An operation leaves the text good.
LEMMA GoodStep ==
  ASSUME Sound, Hygienic, NEW n \in 1 .. Len(Sorted(Ops)), NEW done, Looped(done, n - 1),
         Good(done.out, done.cursor, Put(n - 1))
  PROVE  Good(Apply(done, Sorted(Ops)[n]).out, Apply(done, Sorted(Ops)[n]).cursor, Put(n))
<1> DEFINE op == Sorted(Ops)[n]
           c == done.cursor
           out == done.out
           more == Apply(done, op)
           mid(e) == out \o SubSeq(raw, c, e - 1)
<1>1. /\ raw \in Seq(Cells) /\ WellFormed(raw) /\ Len(raw) \in Nat /\ DOMAIN raw = 1 .. Len(raw)
      /\ LinesWhole(raw)
  BY RawFacts DEF Sound, Hygienic
<1>2. /\ op \in Ops /\ op.start \in Nat /\ op.end \in Nat
      /\ 1 <= op.start /\ op.start <= op.end /\ op.end <= Len(raw) + 1
  BY SortedSpans
<1>3. \A i \in c .. op.start - 1 : i \notin Touched
  BY Ahead
<1>4. Good(out, c, Put(n - 1)) /\ c \in 1 .. Len(raw) + 1 /\ (c = 1 \/ raw[c - 1].t # "key")
      /\ out \in Seq(Cells)
  BY DEF Good
<1>5. /\ \A x \in DOMAIN insertions : Live(x) /\ op = InsertionOp(x) =>
              x \notin Put(n - 1) /\ Put(n) = Put(n - 1) \cup {x}
      /\ ~IsInsertion(op) => Put(n) = Put(n - 1)
  BY PutGrows
<1>6. \A x \in DOMAIN insertions : Live(x) /\ op = InsertionOp(x) => ~(op.start < c)
  BY NeverPassedOver
<1>7. /\ op.start < c => more = done
      /\ ~(op.start < c) => more.out = mid(op.start) \o op.text /\ more.cursor = op.end
  BY DEF Apply
<1>8. Put(n - 1) \subseteq DOMAIN insertions
  BY DEF Put
<1> HIDE DEF op, c, out, more
<1>9. ASSUME NEW e \in c .. op.start, e = 1 \/ raw[e - 1].t # "key"
      PROVE  Good(mid(e), e, Put(n - 1))
  <2>1. e \in c .. Len(raw) + 1 /\ \A i \in c .. e - 1 : i \notin Touched
    BY <1>1, <1>2, <1>3, <1>4
  <2>2. QED
    BY <1>1, <1>4, <1>9, <2>1, GoodOld
<1>. SUFFICES Good(more.out, more.cursor, Put(n))
  BY DEF more, op
<1>10. ASSUME NEW x \in DOMAIN insertions, Live(x), op = InsertionOp(x)
       PROVE  Good(more.out, more.cursor, Put(n))
  <2>1. /\ op.end = op.start
        /\ op.start = Len(raw) + 1 \/ (op.start > 1 /\ raw[op.start - 1].t = "nl")
    BY <1>10, InsertionShape
  <2>2. ~(op.start < c) /\ more.out = mid(op.start) \o op.text /\ more.cursor = op.start
    BY <1>6, <1>7, <1>10, <2>1
  <2>3. op.start = 1 \/ raw[op.start - 1].t # "key"
    <3>1. CASE op.start = Len(raw) + 1
      <4>1. op.start - 1 = Len(raw) /\ ~(op.start - 1 < Len(raw))
        BY <1>1, <3>1
      <4>2. op.start - 1 \notin KeysOf(raw)
        BY <1>1, <4>1 DEF WellFormed
      <4>3. Len(raw) = 0 \/ Len(raw) \in 1 .. Len(raw)
        BY <1>1
      <4>4. QED
        BY <1>1, <3>1, <4>1, <4>2, <4>3 DEF KeysOf
    <3>2. QED
      BY <2>1, <3>1
  <2>4. Good(mid(op.start), op.start, Put(n - 1))
    <3>1. op.start \in c .. op.start
      BY <1>1, <1>2, <1>4, <2>2
    <3>2. QED
      BY <1>9, <2>3, <3>1
  <2> HIDE DEF mid
  <2>5. Good(mid(op.start) \o op.text, op.start, Put(n - 1) \cup {x})
    BY <1>5, <1>8, <1>10, <2>4, GoodInsertion
  <2>6. QED
    BY <1>5, <1>10, <2>2, <2>5
<1>11. CASE ~IsInsertion(op) /\ op.start < c
  BY <1>4, <1>5, <1>7, <1>11 DEF c, out
<1>12. ASSUME NEW k \in KeysOf(raw), ~(op.start < c), ~IsInsertion(op),
              op = Op(LineStart(raw, k), LineEnd(raw, k), << >>, k)
       PROVE  Good(more.out, more.cursor, Put(n))
  <2>1. op.start = LineStart(raw, k) /\ op.end = LineEnd(raw, k) /\ op.text = << >>
    BY <1>12 DEF Op
  <2>2. op.start = 1 \/ raw[op.start - 1].t = "nl"
    BY <1>1, <2>1, StartOfLine
  <2>3. Good(mid(op.start), op.start, Put(n - 1))
    <3>1. op.start \in c .. op.start
      BY <1>2, <1>4, <1>12
    <3>2. QED
      BY <1>9, <2>2, <3>1
  <2> HIDE DEF mid
  <2>4. Good(mid(op.start), op.end, Put(n - 1))
    BY <1>1, <2>1, <2>3, GoodDeletion
  <2>5. more.out = mid(op.start) /\ more.cursor = op.end
    <3>1. mid(op.start) \in Seq(Cells)
      BY <2>3 DEF Good
    <3>2. mid(op.start) \o << >> = mid(op.start)
      BY <3>1, ConcatEmptySeq
    <3>3. QED
      BY <1>7, <1>12, <2>1, <3>2
  <2>6. QED
    BY <1>5, <1>12, <2>4, <2>5
<1>13. ASSUME NEW k \in KeysOf(raw), NEW p \in Paths \ deletions, k \in EntriesAt(raw, p),
              replacements[p] # << >>, ~(op.start < c), ~IsInsertion(op),
              op = Op(k + 1, k + 2, replacements[p], k)
       PROVE  Good(more.out, more.cursor, Put(n))
  <2>1. op.start = k + 1 /\ op.end = k + 2 /\ op.text = replacements[p]
    BY <1>13 DEF Op
  <2>2. PICK cell \in Cells : replacements[p] = <<cell>> /\ cell.t = "value"
    BY <1>13, ReplacementCell
  <2>3. k \in Nat /\ k >= 1 /\ k < Len(raw) /\ raw[k].t = "key" /\ raw[k] \in Cells
    BY <1>1 DEF WellFormed, KeysOf
  <2>4. k \in c .. op.start
    <3>1. c # k + 1
      <4>1. SUFFICES ASSUME c = k + 1 PROVE FALSE
        OBVIOUS
      <4>2. c - 1 = k /\ c # 1
        BY <2>3, <4>1
      <4>3. QED
        BY <1>4, <2>3, <4>2
    <3>2. QED
      BY <1>4, <1>13, <2>1, <2>3, <3>1
  <2>5. k = 1 \/ raw[k - 1].t # "key"
    <3>1. SUFFICES ASSUME k # 1, raw[k - 1].t = "key" PROVE FALSE
      OBVIOUS
    <3>2. k - 1 \in KeysOf(raw)
      BY <1>1, <2>3, <3>1 DEF KeysOf
    <3>3. raw[(k - 1) + 1].t = "value" /\ (k - 1) + 1 = k
      BY <1>1, <2>3, <3>2 DEF WellFormed
    <3>4. QED
      BY <2>3, <3>3
  <2>6. Good(mid(k), k, Put(n - 1))
    BY <1>9, <2>4, <2>5
  <2>7. Carries(k, cell)
    BY <1>13, <2>2 DEF Carries
  <2>8. mid(k) \in Seq(Cells)
    BY <2>6 DEF Good
  <2>9. Good(mid(k) \o <<raw[k], cell>>, k + 2, Put(n - 1))
    <3> HIDE DEF mid
    <3>1. QED
      BY <1>1, <2>2, <2>6, <2>7, GoodReplacement
  <2>10. mid(k) \o <<raw[k], cell>> = mid(k + 1) \o <<cell>>
    <3>1. SubSeq(raw, c, k) = SubSeq(raw, c, k - 1) \o <<raw[k]>>
      <4>1. c \in 1 .. Len(raw) /\ k \in c .. Len(raw)
        BY <1>1, <1>4, <2>3, <2>4
      <4>2. QED
        BY <1>1, <4>1, SubSeqRecursiveSecond
    <3>2. SubSeq(raw, c, k - 1) \in Seq(Cells)
      <4>1. c \in Int /\ k - 1 \in Int /\ \A i \in c .. k - 1 : raw[i] \in Cells
        BY <1>1, <1>4, <2>3
      <4>2. QED
        BY <4>1, SubSeqProperties
    <3>3. (k + 1) - 1 = k
      BY <2>3
    <3>4. (out \o (SubSeq(raw, c, k - 1) \o <<raw[k]>>)) \o <<cell>>
            = (out \o SubSeq(raw, c, k - 1)) \o <<raw[k], cell>>
      <4>1. PICK a \in Seq(Cells), b \in Seq(Cells) : a = <<raw[k]>> /\ b = <<cell>>
        BY <2>3, TwoCells
      <4>2. a \o b = <<raw[k], cell>>
        BY <2>3, <4>1, TwoCells
      <4>3. PICK x \in Seq(Cells), y \in Seq(Cells) : x = out /\ y = SubSeq(raw, c, k - 1)
        BY <1>4, <3>2
      <4>4. Regrouped(x, y, a, b)
        BY Regroup
      <4>5. QED
        BY <4>1, <4>2, <4>3, <4>4 DEF Regrouped
    <3>5. QED
      BY <3>1, <3>3, <3>4
  <2>11. more.out = mid(k + 1) \o <<cell>> /\ more.cursor = k + 2
    BY <1>7, <1>13, <2>1, <2>2
  <2> HIDE DEF mid
  <2>12. QED
    BY <1>5, <1>13, <2>9, <2>10, <2>11
<1>14. CASE IsInsertion(op)
  BY <1>10, <1>14 DEF IsInsertion
<1>15. CASE ~IsInsertion(op) /\ ~(op.start < c)
  <2>1. IsDeletion(op) \/ IsReplacement(op)
    BY <1>2, <1>15, OpKinds DEF Sound
  <2>2. CASE IsDeletion(op)
    BY <1>12, <1>15, <2>2 DEF IsDeletion, EntriesAt
  <2>3. CASE IsReplacement(op)
    BY <1>13, <1>15, <2>3 DEF IsReplacement, EntriesAt
  <2>4. QED
    BY <2>1, <2>2, <2>3
<1>16. QED
  BY <1>11, <1>14, <1>15 DEF op, more

\* The loop starts from nothing.
LEMMA GoodStart == ASSUME Sound, Hygienic PROVE Good(Begin.out, Begin.cursor, Put(0))
<1>1. Len(raw) \in Nat /\ Begin.cursor = 1 /\ Begin.out = << >> /\ Len(<< >>) = 0
      /\ << >> \in Seq(Cells)
  BY RawFacts, EmptySeq DEF Sound, Begin
<1>2. Put(0) = {}
  BY DEF Put
<1>3. DOMAIN << >> = {}
  OBVIOUS
<1>4. LinesWhole(<< >>) /\ Valued(<< >>) /\ Tabled(<< >>) /\ Inserted(<< >>, {})
  BY <1>3 DEF LinesWhole, Starters, Valued, Tabled, Inserted, NewKeys, KeysOf
<1>5. Fresh(<< >>, 0 + 1) /\ \A P : InTable(<< >>, 0 + 1, P) <=> InTable(raw, 1, P)
  BY DEF Fresh, InTable
<1>6. 1 \in 1 .. Len(raw) + 1
  BY <1>1
<1>7. Good(<< >>, 1, {})
  BY <1>1, <1>4, <1>5, <1>6 DEF Good
<1>8. QED
  BY <1>1, <1>2, <1>7

\* Bytes, as a text with every insertion that can be written.
LEMMA GoodBytes ==
  ASSUME Sound, Hygienic
  PROVE  Good(Bytes, Len(raw) + 1, {x \in DOMAIN insertions : Live(x)})
<1> DEFINE s == Sorted(Ops)
           N == Len(s)
           X == {x \in DOMAIN insertions : Live(x)}
<1>1. PICK d : /\ d[0] = Begin
               /\ \A n \in 1 .. N : d[n] = Apply(d[n - 1], s[n])
               /\ Bytes = d[N].out \o SubSeq(raw, d[N].cursor, Len(raw))
  BY BytesLoop
<1>2. N \in Nat /\ \A o \in Ops : \E i \in 1 .. N : s[i] = o
  BY SortedOps
<1> DEFINE S == {n \in Nat : n <= N =>
                   Looped(d[n], n) /\ Good(d[n].out, d[n].cursor, Put(n))}
<1>3. 0 \in S
  BY <1>1, LoopStarts, GoodStart
<1>4. ASSUME NEW n \in Nat, n \in S PROVE n + 1 \in S
  <2>1. SUFFICES ASSUME n + 1 <= N
                 PROVE  Looped(d[n + 1], n + 1) /\ Good(d[n + 1].out, d[n + 1].cursor, Put(n + 1))
    OBVIOUS
  <2>2. n + 1 \in 1 .. N /\ (n + 1) - 1 = n /\ n <= N
    BY <1>2, <2>1
  <2>3. /\ Looped(d[n], (n + 1) - 1)
        /\ Good(d[n].out, d[n].cursor, Put((n + 1) - 1))
    BY <1>4, <2>2
  <2>4. Looped(Apply(d[n], s[n + 1]), n + 1)
    BY <2>2, <2>3, LoopStep
  <2>5. Good(Apply(d[n], s[n + 1]).out, Apply(d[n], s[n + 1]).cursor, Put(n + 1))
    BY <2>2, <2>3, GoodStep
  <2>6. d[n + 1] = Apply(d[n], s[n + 1])
    BY <1>1, <2>2
  <2>7. QED
    BY <2>4, <2>5, <2>6
<1>5. Looped(d[N], N) /\ Good(d[N].out, d[N].cursor, Put(N))
  <2>1. Nat \subseteq S
    <3> HIDE DEF S
    <3>1. QED
      BY <1>3, <1>4, Induct
  <2>2. QED
    BY <1>2, <2>1
<1>6. Put(N) = X
  <2>1. ASSUME NEW x \in X PROVE \E m \in 1 .. N : s[m] = InsertionOp(x)
    <3>1. InsertionOp(x) \in Ops
      BY <2>1 DEF Ops
    <3>2. QED
      BY <1>2, <3>1
  <2>2. QED
    BY <2>1 DEF Put
<1> DEFINE c == d[N].cursor
           out == d[N].out
<1>7. /\ raw \in Seq(Cells) /\ WellFormed(raw) /\ Len(raw) \in Nat /\ DOMAIN raw = 1 .. Len(raw)
      /\ LinesWhole(raw)
  BY RawFacts DEF Sound, Hygienic
<1>8. Good(out, c, X) /\ c \in 1 .. Len(raw) + 1
  BY <1>5, <1>6 DEF Good
<1>9. \A i \in c .. Len(raw) : i \notin Touched
  BY <1>5, Behind
<1>10. Bytes = out \o SubSeq(raw, c, Len(raw))
  BY <1>1
<1> HIDE DEF s, N, X, c, out
<1>11. Len(raw) = 0 \/ raw[Len(raw)].t # "key"
  <2>1. Len(raw) \notin KeysOf(raw)
    BY <1>7 DEF WellFormed
  <2>2. Len(raw) = 0 \/ Len(raw) \in 1 .. Len(raw)
    BY <1>7
  <2>3. QED
    BY <1>7, <2>1, <2>2 DEF KeysOf
<1>12. PICK e \in c .. Len(raw) + 1 : e = Len(raw) + 1 /\ e - 1 = Len(raw)
  BY <1>7, <1>8
<1>13. e = 1 \/ raw[e - 1].t # "key"
  BY <1>7, <1>11, <1>12
<1>14. \A i \in c .. e - 1 : i \notin Touched
  BY <1>9, <1>12
<1>15. Good(out \o SubSeq(raw, c, e - 1), e, X)
  BY <1>7, <1>8, <1>13, <1>14, GoodOld
<1>16. QED
  BY <1>10, <1>12, <1>15 DEF X

-----------------------------------------------------------------------------
(* The bytes read back.                                                    *)

\* What follows the key of an entry that is not deleted.
LEMMA CarriedValue ==
  ASSUME Sound, NEW p \in Paths \ deletions, NEW k \in EntriesAt(raw, p), NEW cell, Carries(k, cell)
  PROVE  /\ replacements[p] = << >> => cell = raw[k + 1]
         /\ replacements[p] # << >> => cell.value = values[byPath[p]]
<1>1. raw \in Seq(Cells)
  BY RawFacts DEF Sound
<1>2. ASSUME NEW q \in Paths, k \in EntriesAt(raw, q) PROVE q = p
  BY <1>1, <1>2, OnePath DEF EntriesAt
<1>3. CASE replacements[p] = << >>
  <2>1. ASSUME replacements[p] = <<cell>> PROVE FALSE
    BY <1>3, <2>1
  <2>2. QED
    BY <1>2, <1>3, <2>1 DEF Carries
<1>4. CASE replacements[p] # << >>
  <2>1. k + 1 \in Touched
    BY <1>4 DEF Touched
  <2>2. replacements[p] = <<cell>>
    BY <1>2, <2>1 DEF Carries
  <2>3. PICK new \in Cells : replacements[p] = <<new>> /\ new.value = values[byPath[p]]
    BY <1>4, ReplacementCell
  <2>4. new = cell
    BY <2>2, <2>3
  <2>5. QED
    BY <1>4, <2>3, <2>4
<1>5. QED
  BY <1>3, <1>4

\* No edit of another entry touches a key.
LEMMA KeyUntouched ==
  ASSUME Sound, LinesWhole(raw), NEW p \in Paths \ deletions, NEW k \in EntriesAt(raw, p)
  PROVE  k \in DOMAIN raw \ Touched
<1>1. /\ raw \in Seq(Cells) /\ WellFormed(raw) /\ DOMAIN raw = 1 .. Len(raw)
      /\ k \in KeysOf(raw) /\ k \in DOMAIN raw /\ raw[k].t = "key"
  BY RawFacts DEF Sound, EntriesAt, KeysOf
<1>2. SUFFICES ASSUME k \in Touched PROVE FALSE
  BY <1>1
<1>3. PICK q \in Paths :
        \/ q \in deletions /\ \E n \in EntriesAt(raw, q) : SameLine(raw, k, n) /\ SameLine(raw, n, k)
        \/ \E n \in EntriesAt(raw, q) : k = n + 1
  BY <1>2 DEF Touched
<1>4. ASSUME NEW n \in EntriesAt(raw, q), k = n + 1 PROVE FALSE
  BY <1>1, <1>4 DEF EntriesAt, WellFormed
<1>5. ASSUME NEW n \in EntriesAt(raw, q), q \in deletions,
             SameLine(raw, k, n), SameLine(raw, n, k)
      PROVE  FALSE
  <2>1. n \in KeysOf(raw)
    BY DEF EntriesAt
  <2>2. k \in LineStart(raw, n) .. LineEnd(raw, n) - 1
    BY <1>1, <1>5, <2>1, SpanIsLine
  <2>3. k = n
    BY <1>1, <2>1, <2>2, DeletedLine
  <2>4. p = q
    BY <1>1, <1>5, <2>3, OnePath DEF EntriesAt
  <2>5. QED
    BY <1>5, <2>4
<1>6. QED
  BY <1>3, <1>4, <1>5

\* The entries of the bytes: those of the source with the path they had, each under its own
\* path, and those of the insertions.
EntryKept(out, i, p) == /\ out[i].src \in EntriesAt(raw, p) /\ out[i].src \notin Touched
                        /\ Carries(out[i].src, out[i + 1])
EntryPut(out, i, p) == /\ i \in NewKeys(out) /\ out[i].path = p /\ ~HasEntry(p)
                       /\ out[i + 1].value = pending[p]

LEMMA EntriesOfBytes ==
  ASSUME Sound, Hygienic, UntouchedPreserved, NEW out, out = Bytes, NEW p \in Paths,
         NEW i \in EntriesAt(out, p)
  PROVE  EntryKept(out, i, p) \/ EntryPut(out, i, p)
<1> DEFINE X == {x \in DOMAIN insertions : Live(x)}
<1>1. Good(out, Len(raw) + 1, X)
  BY GoodBytes
<1>2. /\ raw \in Seq(Cells) /\ DOMAIN raw = 1 .. Len(raw) /\ out \in Seq(Cells)
      /\ Valued(out) /\ Tabled(out) /\ Inserted(out, X)
  BY <1>1, RawFacts DEF Good, Sound
<1>3. i \in KeysOf(out) /\ i \in DOMAIN out /\ i \in Nat /\ out[i].t = "key" /\ HasPath(out, i, p)
  BY <1>2 DEF EntriesAt, KeysOf
<1>4. Placed(out, i) /\ (out[i].src # 0 => Carries(out[i].src, out[i + 1]))
  BY <1>2, <1>3 DEF Tabled, Valued
<1> HIDE DEF X
<1>5. CASE out[i].src # 0
  <2>1. out[i].src \in DOMAIN raw \ Touched /\ out[i] = raw[out[i].src]
    BY <1>3, <1>5 DEF UntouchedPreserved, Own
  <2>2. HasPath(raw, out[i].src, p)
    BY <1>3, <1>4, <1>5, <2>1 DEF HasPath, Placed
  <2>3. QED
    BY <1>3, <1>4, <1>5, <2>1, <2>2 DEF EntryKept, EntriesAt, KeysOf
<1>6. CASE out[i].src = 0
  <2>1. i \in NewKeys(out)
    BY <1>3, <1>6 DEF NewKeys
  <2>2. PICK x \in X : Writes(out[i], out[i + 1], x)
    BY <1>2, <2>1 DEF Inserted
  <2>3. x \in DOMAIN insertions /\ ~HasEntry(insertions[x].path)
        /\ out[i].path = insertions[x].path /\ out[i + 1].value = pending[insertions[x].path]
        /\ insertions[x].path \in Paths
    BY <2>2, InsertionTyped DEF X, Hygienic, Writes, Sound
  <2>4. PICK n \in 0 .. Len(p) : InTable(out, i, SubSeq(p, 1, n)) /\ p = SubSeq(p, 1, n) \o out[i].path
    BY <1>3 DEF HasPath
  <2>5. SubSeq(p, 1, n) = << >>
    BY <1>2, <1>3, <1>4, <1>6, <2>4, OneTable DEF Placed
  <2>6. p = out[i].path
    <3>1. << >> \o insertions[x].path = insertions[x].path
      BY <2>3, PathsAssumption, ConcatEmptySeq
    <3>2. QED
      BY <2>3, <2>4, <2>5, <3>1
  <2>7. QED
    BY <2>1, <2>3, <2>6 DEF EntryPut
<1>7. QED
  BY <1>5, <1>6

\* An entry that is not deleted is still there.
LEMMA EntryStays ==
  ASSUME Sound, Hygienic, UntouchedPreserved, NEW out, out = Bytes, NEW p \in Paths \ deletions,
         NEW k \in EntriesAt(raw, p)
  PROVE  \E i \in EntriesAt(out, p) : out[i].src = k
<1>1. /\ raw \in Seq(Cells) /\ DOMAIN raw = 1 .. Len(raw) /\ k \in KeysOf(raw)
      /\ k \in Nat /\ k >= 1 /\ raw[k].t = "key" /\ HasPath(raw, k, p) /\ LinesWhole(raw)
  BY RawFacts DEF Sound, EntriesAt, KeysOf, Hygienic
<1>2. k \in DOMAIN raw \ Touched
  BY <1>1, KeyUntouched
<1>3. PICK i \in Own(out) : out[i].src = k /\ out[i] = raw[k]
  BY <1>2 DEF UntouchedPreserved
<1>4. i \in KeysOf(out)
  BY <1>1, <1>3 DEF Own, KeysOf
<1>5. Placed(out, i)
  BY <1>4, GoodBytes DEF Good, Tabled
<1>6. HasPath(out, i, p)
  <2>1. k # 0
    BY <1>1
  <2>2. \A P : InTable(out, i, P) <=> InTable(raw, k, P)
    BY <1>3, <1>5, <2>1 DEF Placed
  <2>3. QED
    BY <1>1, <1>3, <2>2 DEF HasPath
<1>7. QED
  BY <1>3, <1>4, <1>6 DEF EntriesAt

\* An insertion that can be written is there.
LEMMA InsertionThere ==
  ASSUME Sound, Hygienic, NEW out, out = Bytes, NEW p \in Paths, NEW x \in DOMAIN insertions,
         insertions[x].path = p, Live(x)
  PROVE  \E i \in EntriesAt(out, p) : out[i + 1].value = pending[p]
<1>1. /\ Tabled(out) /\ Inserted(out, {y \in DOMAIN insertions : Live(y)})
  BY GoodBytes DEF Good
<1>2. PICK i \in NewKeys(out) : Writes(out[i], out[i + 1], x)
  BY <1>1 DEF Inserted
<1>3. /\ i \in KeysOf(out) /\ out[i].src = 0 /\ out[i].path = p /\ out[i + 1].value = pending[p]
  BY <1>2 DEF NewKeys, Writes
<1>4. InTable(out, i, << >>)
  BY <1>1, <1>3 DEF Tabled, Placed
<1>5. HasPath(out, i, p)
  <2>1. p \in Seq(STRING)
    BY PathsAssumption
  <2>2. SubSeq(p, 1, 0) = << >> /\ 0 \in 0 .. Len(p) /\ << >> \o p = p
    BY <2>1, ConcatEmptySeq
  <2>3. QED
    BY <1>3, <1>4, <2>2 DEF HasPath
<1>6. QED
  BY <1>3, <1>5 DEF EntriesAt

LEMMA AtMostOne ==
  ASSUME NEW S, IsFiniteSet(S)
  PROVE  Cardinality(S) <= 1 <=> \A a, b \in S : a = b
<1>1. ASSUME Cardinality(S) <= 1, NEW a \in S, NEW b \in S, a # b PROVE FALSE
  <2>1. IsFiniteSet({a}) /\ Cardinality({a}) = 1
    BY FS_Singleton
  <2>2. Cardinality({a} \cup {b}) = 2
    BY <1>1, <2>1, FS_AddElement
  <2>3. Cardinality({a} \cup {b}) <= Cardinality(S) /\ Cardinality(S) \in Nat
    BY FS_Subset, FS_CardinalityType
  <2>4. QED
    BY <1>1, <2>2, <2>3
<1>2. ASSUME \A a, b \in S : a = b PROVE Cardinality(S) <= 1
  <2>1. CASE S = {}
    BY <2>1, FS_EmptySet
  <2>2. ASSUME NEW a \in S PROVE Cardinality(S) <= 1
    <3>1. S = {a}
      BY <1>2
    <3>2. QED
      BY <3>1, FS_Singleton
  <2>3. QED
    BY <2>1, <2>2
<1>3. QED
  BY <1>1, <1>2

\* A text has finitely many entries.
LEMMA FewEntries ==
  ASSUME NEW s \in Seq(Cells), NEW p
  PROVE  IsFiniteSet(EntriesAt(s, p))
<1>1. EntriesAt(s, p) \subseteq 1 .. Len(s) /\ Len(s) \in Nat
  BY DEF EntriesAt, KeysOf
<1>2. IsFiniteSet(1 .. Len(s))
  BY <1>1, FS_Interval
<1>3. QED
  BY <1>1, <1>2, FS_Subset

\* No path of the bytes is assigned twice.
LEMMA NothingTwice ==
  ASSUME Sound, Hygienic, UntouchedPreserved, NEW out, out = Bytes
  PROVE  NoRepeats(out)
<1>1. out \in Seq(Cells) /\ raw \in Seq(Cells) /\ NoRepeats(raw)
      /\ Inserted(out, {x \in DOMAIN insertions : Live(x)}) /\ DOMAIN raw = 1 .. Len(raw)
  BY GoodBytes, RawFacts DEF Good, Sound, Hygienic
<1>2. SUFFICES ASSUME NEW p \in Paths PROVE \A i, j \in EntriesAt(out, p) : i = j
  BY <1>1, FewEntries, AtMostOne DEF NoRepeats
<1>3. \A k, n \in EntriesAt(raw, p) : k = n
  BY <1>1, FewEntries, AtMostOne DEF NoRepeats
<1>4. \A i \in EntriesAt(out, p) : EntryKept(out, i, p) \/ EntryPut(out, i, p)
  BY EntriesOfBytes
<1>5. ASSUME NEW i \in EntriesAt(out, p), EntryKept(out, i, p) PROVE HasEntry(p) /\ i \in Own(out)
  <2>1. out[i].src \in EntriesAt(raw, p) /\ out[i].src # 0
    BY <1>1, <1>5 DEF EntryKept, EntriesAt, KeysOf
  <2>2. Latest(raw, p, byPath[p]) /\ 0 \notin EntriesAt(raw, p)
    BY <1>1 DEF Sound, Indexed, EntriesAt, KeysOf
  <2>3. HasEntry(p)
    BY <2>1, <2>2 DEF Latest, HasEntry
  <2>4. QED
    BY <2>1, <2>3 DEF Own, EntriesAt, KeysOf
<1>6. ASSUME NEW i \in EntriesAt(out, p), NEW j \in EntriesAt(out, p),
             EntryKept(out, i, p), EntryKept(out, j, p)
      PROVE  i = j
  <2>1. out[i].src = out[j].src /\ i \in Own(out) /\ j \in Own(out)
    BY <1>3, <1>5, <1>6 DEF EntryKept
  <2>2. i \in Nat /\ j \in Nat /\ out[i].src \in Nat
    BY <1>1, <1>6, <2>1 DEF EntryKept, EntriesAt, KeysOf, Own
  <2>3. ~(i < j) /\ ~(j < i)
    BY <2>1, <2>2 DEF UntouchedPreserved
  <2>4. QED
    BY <2>2, <2>3
<1>7. ASSUME NEW i \in EntriesAt(out, p), NEW j \in EntriesAt(out, p),
             EntryPut(out, i, p), EntryPut(out, j, p)
      PROVE  i = j
  BY <1>1, <1>7 DEF EntryPut, Inserted
<1>8. QED
  BY <1>4, <1>5, <1>6, <1>7 DEF EntryPut

\* What Get answers stands in the bytes.
Stands(s, p, v) == IF v = None THEN \A k \in EntriesAt(s, p) : s[k + 1].value \notin Parsable
                               ELSE \E k \in EntriesAt(s, p) : s[k + 1].value = v

\* An entry of the source reads back as Get answers for it,
LEMMA ReadsBackSource ==
  ASSUME Sound, CacheHonest, Hygienic, UntouchedPreserved, NEW out, out = Bytes,
         NEW p \in Paths, HasEntry(p)
  PROVE  Stands(out, p, Lookup(p))
<1> DEFINE k == byPath[p]
<1>1. k \in EntriesAt(raw, p) /\ k \in KeysOf(raw) /\ raw \in Seq(Cells) /\ k \in DOMAIN raw
  BY EntryTyped, RawFacts DEF Sound, Indexed, Latest, HasEntry, EntriesAt, KeysOf
<1>2. \A n \in EntriesAt(raw, p) : n = k
  BY <1>1, FewEntries, AtMostOne DEF Hygienic, NoRepeats
<1>3. \A i \in EntriesAt(out, p) :
        out[i].src = k /\ k \notin Touched /\ Carries(k, out[i + 1])
  BY <1>2, EntriesOfBytes DEF EntryKept, EntryPut
<1>4. CASE p \in deletions
  <2>1. k \in Touched
    <3>1. SameLine(raw, k, k)
      BY <1>1 DEF SameLine, KeysOf
    <3>2. QED
      BY <1>1, <1>4, <3>1 DEF Touched
  <2>2. Lookup(p) = None
    BY <1>4 DEF Lookup
  <2>3. QED
    BY <1>3, <2>1, <2>2 DEF Stands
<1>5. CASE p \notin deletions
  <2>1. Lookup(p) = EntryValue(k)
    BY <1>5 DEF Lookup
  <2>2. PICK i \in EntriesAt(out, p) : out[i].src = k
    BY <1>1, <1>5, EntryStays
  <2>3. CASE replacements[p] # << >>
    <3>1. values[k] # None
      BY <2>3 DEF Sound, OneEditPerEntry
    <3>2. out[i + 1].value = values[k]
      BY <1>1, <1>3, <1>5, <2>3, CarriedValue
    <3>3. QED
      BY <2>1, <3>1, <3>2 DEF Stands, EntryValue
  <2>4. CASE replacements[p] = << >>
    <3>1. values[k] \in {None, Parsed(k)}
      BY <1>5, <2>4 DEF CacheHonest
    <3>2. Lookup(p) = Parsed(k)
      BY <2>1, <3>1 DEF EntryValue
    <3>3. \A j \in EntriesAt(out, p) : out[j + 1] = raw[k + 1]
      BY <1>1, <1>3, <1>5, <2>4, CarriedValue
    <3>4. None \notin Parsable
      BY ValuesAssumption
    <3>5. QED
      BY <3>2, <3>3, <3>4 DEF Stands, Parsed
  <2>5. QED
    BY <2>3, <2>4
<1>6. QED
  BY <1>4, <1>5

\* and so does a path that has none.
LEMMA ReadsBackPending ==
  ASSUME Sound, Hygienic, UntouchedPreserved, NEW out, out = Bytes, NEW p \in Paths, ~HasEntry(p)
  PROVE  Stands(out, p, Lookup(p))
<1>1. Lookup(p) = pending[p]
  BY DEF Lookup
<1>2. \A i \in EntriesAt(out, p) : out[i + 1].value = pending[p]
  <2>1. ASSUME NEW i \in EntriesAt(out, p), EntryKept(out, i, p) PROVE FALSE
    <3>1. raw \in Seq(Cells) /\ 0 \notin EntriesAt(raw, p)
      BY RawFacts DEF Sound, EntriesAt, KeysOf
    <3>2. QED
      BY <2>1, <3>1 DEF EntryKept, Sound, Indexed, Latest, HasEntry
  <2>2. QED
    BY <2>1, EntriesOfBytes DEF EntryPut
<1>3. CASE pending[p] = None
  BY <1>1, <1>2, <1>3, ValuesAssumption DEF Stands
<1>4. CASE pending[p] # None
  <2>1. PICK x \in DOMAIN insertions : insertions[x].path = p
    BY <1>4 DEF Sound, NothingOnlyInMemory
  <2>2. Live(x)
    BY <1>4, <2>1 DEF Hygienic, Live
  <2>3. \E i \in EntriesAt(out, p) : out[i + 1].value = pending[p]
    BY <2>1, <2>2, InsertionThere
  <2>4. QED
    BY <1>1, <1>4, <2>3 DEF Stands
<1>5. QED
  BY <1>3, <1>4

\* What stands in a text that assigns no path twice is what is read of it.
LEMMA StandsIsRead ==
  ASSUME NEW s \in Seq(Cells), NoRepeats(s), NEW p \in Paths, NEW v, Stands(s, p, v)
  PROVE  ReadsAs(s, p, v)
<1>1. \A i, j \in EntriesAt(s, p) : i = j
  BY FewEntries, AtMostOne DEF NoRepeats
<1>2. None \notin Parsable
  BY ValuesAssumption
<1>3. QED
  BY <1>1, <1>2 DEF Stands, ReadsAs

\* A value of the bytes that is refused is one that Get answers,
LEMMA RefusedAnswered ==
  ASSUME Sound, Hygienic, UntouchedPreserved, NEW out, out = Bytes, NEW i \in KeysOf(out),
         out[i + 1].value \in Unreadable
  PROVE  \E p \in Paths : Lookup(p) \in Unreadable
<1> DEFINE X == {x \in DOMAIN insertions : Live(x)}
<1>1. /\ raw \in Seq(Cells) /\ DOMAIN raw = 1 .. Len(raw) /\ out \in Seq(Cells)
      /\ Valued(out) /\ Inserted(out, X)
  BY GoodBytes, RawFacts DEF Good, Sound
<1> HIDE DEF X
<1>2. CASE out[i].src # 0
  <2> DEFINE k == out[i].src
  <2>1. k \in DOMAIN raw /\ out[i] = raw[k]
    BY <1>2 DEF UntouchedPreserved, Own, KeysOf
  <2>2. k \in KeysOf(raw)
    BY <2>1 DEF KeysOf
  <2>3. raw[k + 1].value \notin Unreadable
    BY <2>2, SourcesAssumption DEF Sound, TypeOK, Accepted
  <2>4. Carries(k, out[i + 1])
    BY <1>1, <1>2 DEF Valued
  <2>5. PICK p \in Paths \ deletions :
          k \in EntriesAt(raw, p) /\ replacements[p] = <<out[i + 1]>>
    BY <2>3, <2>4 DEF Carries
  <2>6. replacements[p] # << >>
    BY <2>5
  <2>7. out[i + 1].value = values[byPath[p]]
    BY <2>4, <2>5, <2>6, CarriedValue
  <2>8. HasEntry(p) /\ values[byPath[p]] # None
    BY <2>5, <2>6 DEF Sound, OneEditPerEntry
  <2>9. Lookup(p) = values[byPath[p]]
    BY <2>5, <2>8 DEF Lookup, EntryValue
  <2>10. QED
    BY <2>5, <2>7, <2>9
<1>3. CASE out[i].src = 0
  <2>1. i \in NewKeys(out)
    BY <1>3 DEF NewKeys
  <2>2. PICK x \in X : Writes(out[i], out[i + 1], x)
    BY <1>1, <2>1 DEF Inserted
  <2>3. x \in DOMAIN insertions /\ ~HasEntry(insertions[x].path)
        /\ out[i + 1].value = pending[insertions[x].path] /\ insertions[x].path \in Paths
    BY <2>2, InsertionTyped DEF X, Hygienic, Writes, Sound
  <2>4. QED
    BY <2>3 DEF Lookup
<1>4. QED
  BY <1>2, <1>3

\* and the other way round.
LEMMA AnsweredRefused ==
  ASSUME NEW out, NEW p \in Paths, Stands(out, p, Lookup(p)), Lookup(p) \in Unreadable
  PROVE  ~Accepted(out)
<1>1. Lookup(p) # None
  BY ValuesAssumption
<1>2. PICK k \in EntriesAt(out, p) : out[k + 1].value = Lookup(p)
  BY <1>1 DEF Stands
<1>3. k \in KeysOf(out)
  BY DEF EntriesAt
<1>4. QED
  BY <1>2, <1>3 DEF Accepted

LEMMA Reads == ASSUME Sound, CacheHonest PROVE ReadBack
<1> SUFFICES ASSUME Hygienic, NEW out, out = Bytes
             PROVE  /\ LinesWhole(out) /\ NoRepeats(out)
                    /\ Accepted(out) <=> \A p \in Paths : Lookup(p) \notin Unreadable
                    /\ \A p \in Paths : ReadsAs(out, p, Lookup(p))
  BY DEF ReadBack
<1>1. UntouchedPreserved
  BY Untouched
<1>2. LinesWhole(out) /\ out \in Seq(Cells)
  BY GoodBytes DEF Good
<1>3. NoRepeats(out)
  BY <1>1, NothingTwice
<1>4. \A p \in Paths : Stands(out, p, Lookup(p))
  BY <1>1, ReadsBackSource, ReadsBackPending
<1>5. \A p \in Paths : ReadsAs(out, p, Lookup(p))
  BY <1>2, <1>3, <1>4, StandsIsRead
<1>6. ASSUME \A p \in Paths : Lookup(p) \notin Unreadable PROVE Accepted(out)
  BY <1>1, <1>6, RefusedAnswered DEF Accepted
<1>7. ASSUME NEW p \in Paths, Lookup(p) \in Unreadable PROVE ~Accepted(out)
  BY <1>4, <1>7, AnsweredRefused
<1>8. QED
  BY <1>2, <1>3, <1>5, <1>6, <1>7

\* Parsing the bytes again finds for every path what Get answers now, no path twice and no
\* key or header joined to another line, for every source and every sequence of calls whose
\* insertions are of paths of their own and stand outside the tables (document.go:179-367).
\* The bytes are refused exactly if Get answers a value whose text is: Set takes a Local* out
\* of range and an unsigned integer above MaxInt64 without an error (marshal.go:618-679).
THEOREM ReadsBackAsAnswered == Spec => []ReadBack
<1>1. TypeOK /\ Indexed /\ OneEditPerEntry /\ NothingOnlyInMemory /\ CacheHonest => ReadBack
  BY Reads DEF Sound
<1>2. QED
  BY <1>1, TypeCorrect, IndexFixed, EditsConsistent, PendingHasInsertion, CacheKept, PTL

=============================================================================
