------------------------------ MODULE Document ------------------------------
(***************************************************************************)
(* The format-preserving Document of document.go.  It keeps the source and *)
(* the spans of its key/value entries and collects edits: replacements of  *)
(* value spans, deletions of lines, insertions of new lines.  Get answers  *)
(* from the entries and the edits; Bytes applies the edits to the source.  *)
(*                                                                         *)
(* The source is a sequence of cells, one per token: a key with its '=', a *)
(* value, a table header, a line break, or other text (a comment, blanks). *)
(* An entry is named by the position of its key, its value is the next     *)
(* cell.  Spans are <<start, end>> with end excluded, as in the code.      *)
(***************************************************************************)
EXTENDS Integers, Sequences, FiniteSets, SequencesExt

CONSTANTS
  Sources,        \* the documents ParseDocument accepts
  Paths,          \* the paths of the calls, as sequences of segments
  Values,         \* the values of the calls and of the sources
  Given,          \* those of the calls
  Strings,        \* the values that are strings
  LiteralSafe,    \* the strings literalStringSafe accepts
  Formattable,    \* the values writeValue can write
  Parsable,       \* the values parseRawDocumentValue can read
  Unreadable,     \* the values whose text ParseDocument refuses
  None,           \* no value
  MaxInsertions   \* bound on the length of the insertion list

VARIABLES
  raw,            \* the source
  byPath,         \* for each path the key of its last entry, 0 if it has none
  values,         \* the cached value of each entry
  replacements,   \* for each path the text of its new value, empty if none
  deletions,      \* the paths whose lines are deleted
  insertions,     \* the insertions, in the order of the calls
  pending,        \* the value of each inserted path
  answer          \* history: the last call, and for Get what it found

edits == <<values, replacements, deletions, insertions, pending>>
vars  == <<raw, byPath, values, replacements, deletions, insertions, pending, answer>>

\* src is the cell's position in the source, 0 for a cell the document writes itself.
Cell(t, path, value, literal, src) ==
  [t |-> t, path |-> path, value |-> value, literal |-> literal, src |-> src]
CellTypes == {"key", "value", "header", "nl", "text"}
Cells == [t : CellTypes, path : Seq(STRING), value : Values \cup {None},
          literal : BOOLEAN, src : Nat]

KeyCell(path)       == Cell("key", path, None, FALSE, 0)
ValueCell(v, lit)   == Cell("value", << >>, v, lit, 0)
LineBreak           == Cell("nl", << >>, None, FALSE, 0)

-----------------------------------------------------------------------------
(* ParseDocument: which entries a text has.                                *)

KeysOf(s) == {k \in DOMAIN s : s[k].t = "key"}

\* The table a key belongs to is the last header before it.
InTable(s, k, path) ==
  \/ path = << >> /\ \A h \in 1 .. k - 1 : s[h].t # "header"
  \/ \E h \in 1 .. k - 1 : /\ s[h].t = "header" /\ s[h].path = path
                           /\ \A j \in h + 1 .. k - 1 : s[j].t # "header"

\* The path of the entry at k: the table's path, then the key's own.
HasPath(s, k, p) == \E n \in 0 .. Len(p) :
  InTable(s, k, SubSeq(p, 1, n)) /\ p = SubSeq(p, 1, n) \o s[k].path

EntriesAt(s, p) == {k \in KeysOf(s) : HasPath(s, k, p)}

\* byPath is overwritten by every later entry of the same path.
Latest(s, p, k) == IF EntriesAt(s, p) = {} THEN k = 0
                   ELSE k \in EntriesAt(s, p) /\ \A j \in EntriesAt(s, p) : j <= k

WellFormed(s) ==
  /\ \A i \in DOMAIN s : s[i].src = i
  /\ \A k \in KeysOf(s) : k < Len(s) /\ s[k + 1].t = "value"

\* ParseDocument reads the text of every value.
Accepted(s) == \A k \in KeysOf(s) : s[k + 1].value \notin Unreadable

ASSUME SourcesAssumption == /\ Sources \subseteq Seq(Cells)
                            /\ \A s \in Sources : WellFormed(s) /\ Accepted(s)
ASSUME PathsAssumption == Paths \subseteq Seq(STRING)
\* What writeValue can write need not be readable: a Local* out of range is written as
\* nothing, and an unsigned integer above MaxInt64 as it is.
ASSUME ValuesAssumption ==
  /\ None \notin Values /\ LiteralSafe \subseteq Strings
  /\ Given \cup Strings \cup Formattable \cup Parsable \cup Unreadable \subseteq Values
  /\ Parsable \cap Unreadable = {}
ASSUME BoundAssumption == MaxInsertions \in Nat

\* Mutant: the line span ends before its line break.
LineEndShort(s, k) == CHOOSE e \in k + 2 .. Len(s) + 1 :
  /\ e = Len(s) + 1 \/ s[e].t = "nl"
  /\ \A j \in k + 2 .. e - 1 : s[j].t # "nl"

\* lineSpan: back to the previous line break, forward past the next one.
LineStart(s, k) == CHOOSE b \in 1 .. k :
  /\ b = 1 \/ s[b - 1].t = "nl"
  /\ \A j \in b .. k - 1 : s[j].t # "nl"
LineEnd(s, k) == CHOOSE e \in k + 2 .. Len(s) + 1 :
  /\ e = Len(s) + 1 \/ (e > k + 2 /\ s[e - 1].t = "nl")
  /\ \A j \in k + 2 .. e - 2 : s[j].t # "nl"

-----------------------------------------------------------------------------
(* The calls.                                                              *)

Call(op, p, v) == [op |-> op, path |-> p, value |-> v]

\* A call given a path that does not parse, or whose guard fails, changes nothing.
Refused ==
  /\ answer' = Call("refused", << >>, None)
  /\ UNCHANGED <<raw, byPath, edits>>

HasEntry(p) == byPath[p] # 0

\* The value of an entry: the cached one, else what its source text parses to.
Parsed(k) == IF raw[k + 1].value \in Parsable THEN raw[k + 1].value ELSE None
EntryValue(k) == IF values[k] # None THEN values[k] ELSE Parsed(k)

\* What Get answers for p.
Lookup(p) == IF HasEntry(p) THEN IF p \in deletions THEN None ELSE EntryValue(byPath[p])
             ELSE pending[p]

Get(p) ==
  /\ answer' = Call("get", p, Lookup(p))
  /\ values' = IF HasEntry(p) /\ p \notin deletions
               THEN [values EXCEPT ![byPath[p]] = EntryValue(byPath[p])] ELSE values
  /\ UNCHANGED <<raw, byPath, replacements, deletions, insertions, pending>>

\* formatStringLike keeps single quotes when the new string can carry them; everything
\* else is written in its canonical form.
Formatted(p, v) ==
  LET literal == /\ HasEntry(p) /\ raw[byPath[p] + 1].literal
                 /\ raw[byPath[p] + 1].value \in Strings /\ v \in LiteralSafe
  IN  <<ValueCell(v, literal)>>

\* Mutant: the cached value of the entry is left as it was.
SetEntryStale(p, v) ==
  /\ replacements' = [replacements EXCEPT ![p] = Formatted(p, v)]
  /\ deletions' = deletions \ {p}
  /\ pending' = [pending EXCEPT ![p] = None]
  /\ UNCHANGED <<raw, byPath, values, insertions>>

SetEntry(p, v) ==
  /\ values' = [values EXCEPT ![byPath[p]] = v]
  /\ replacements' = [replacements EXCEPT ![p] = Formatted(p, v)]
  /\ deletions' = deletions \ {p}
  /\ pending' = [pending EXCEPT ![p] = None]
  /\ UNCHANGED <<raw, byPath, insertions>>

\* Mutant: a second insertion at the same place overwrites the first.
InsertReplacing(after, p, v) ==
  /\ Len(insertions) < MaxInsertions
  /\ pending' = [pending EXCEPT ![p] = v]
  /\ insertions' = SelectSeq(insertions, LAMBDA i : i.after # after)
                     \o <<[after |-> after, path |-> p]>>
  /\ UNCHANGED <<raw, byPath, values, replacements, deletions>>

\* The list of insertions only grows; pending holds the value that will be written.
Insert(after, p, v) ==
  /\ Len(insertions) < MaxInsertions
  /\ pending' = [pending EXCEPT ![p] = v]
  /\ insertions' = Append(insertions, [after |-> after, path |-> p])
  /\ UNCHANGED <<raw, byPath, values, replacements, deletions>>

Set(p, v) ==
  \/ v \notin Formattable /\ Refused
  \/ /\ v \in Formattable
     /\ answer' = Call("set", p, v)
     /\ \/ HasEntry(p) /\ SetEntry(p, v)
        \/ ~HasEntry(p) /\ Insert(None, p, v)

\* The value is not looked at until Bytes writes it.
InsertAfter(after, p, v) ==
  \/ (~HasEntry(after) \/ after \in deletions) /\ Refused
  \/ /\ HasEntry(after) /\ after \notin deletions
     /\ answer' = Call("insert", p, v)
     /\ Insert(after, p, v)

\* Mutant: a pending replacement survives the deletion of its entry.
DeleteEntryOnly(p) ==
  /\ deletions' = deletions \cup {p}
  /\ UNCHANGED <<raw, byPath, values, replacements, insertions, pending>>

DeleteEntry(p) ==
  /\ deletions' = deletions \cup {p}
  /\ replacements' = [replacements EXCEPT ![p] = << >>]
  /\ UNCHANGED <<raw, byPath, values, insertions, pending>>

\* Mutant: the deletion of a pending insertion is recorded as one of a source line.
DeletePendingLine(p) ==
  /\ pending' = [pending EXCEPT ![p] = None]
  /\ deletions' = deletions \cup {p}
  /\ UNCHANGED <<raw, byPath, values, replacements, insertions>>

DeletePending(p) ==
  /\ pending' = [pending EXCEPT ![p] = None]
  /\ UNCHANGED <<raw, byPath, values, replacements, deletions, insertions>>

Delete(p) ==
  \/ /\ answer' = Call("delete", p, None)
     /\ \/ HasEntry(p) /\ DeleteEntry(p)
        \/ ~HasEntry(p) /\ pending[p] # None /\ DeletePending(p)
  \/ ~HasEntry(p) /\ pending[p] = None /\ Refused

-----------------------------------------------------------------------------
(* Bytes.                                                                  *)

Op(start, end, text, order) == [start |-> start, end |-> end, text |-> text, order |-> order]

EntryOps == UNION {
  IF p \in deletions
  THEN {Op(LineStart(raw, k), LineEnd(raw, k), << >>, k) : k \in EntriesAt(raw, p)}
  ELSE {Op(k + 1, k + 2, replacements[p], k) :
          k \in {e \in EntriesAt(raw, p) : replacements[p] # << >>}} : p \in Paths}

\* Only what is still pending and can be written is inserted.
Live(i) == pending[insertions[i].path] \in Formattable

\* Mutant: an appended line joins an unfinished last line.
AppendPrefixNone == << >>

\* An appended line starts a new one if the source does not end in a line break.
AppendPrefix == IF raw # << >> /\ Last(raw).t # "nl" THEN <<LineBreak>> ELSE << >>

InsertionOp(i) ==
  LET ins  == insertions[i]
      line == <<KeyCell(ins.path), ValueCell(pending[ins.path], FALSE), LineBreak>>
      pos  == IF ins.after = None THEN Len(raw) + 1 ELSE LineEnd(raw, byPath[ins.after])
  IN  Op(pos, pos, IF ins.after = None THEN AppendPrefix \o line ELSE line, Len(raw) + i)

Ops == EntryOps \cup {InsertionOp(i) : i \in {j \in DOMAIN insertions : Live(j)}}

Before(o, q) == \/ o.start < q.start
                \/ o.start = q.start /\ o.end < q.end
                \/ o.start = q.start /\ o.end = q.end /\ o.order < q.order

\* sort.SliceStable.
Sorted(S) == CHOOSE s \in SetToSeqs(S) : \A i, j \in DOMAIN s : i < j => Before(s[i], s[j])

\* An operation that starts before the cursor is passed over.
Apply(done, op) ==
  IF op.start < done.cursor THEN done
  ELSE [out |-> done.out \o SubSeq(raw, done.cursor, op.start - 1) \o op.text,
        cursor |-> op.end]

Bytes ==
  LET ops == Sorted(Ops)
      done[n \in 0 .. Len(ops)] == IF n = 0 THEN [out |-> << >>, cursor |-> 1]
                                   ELSE Apply(done[n - 1], ops[n])
      last == done[Len(ops)]
  IN  last.out \o SubSeq(raw, last.cursor, Len(raw))

-----------------------------------------------------------------------------
Init ==
  /\ raw \in Sources
  /\ byPath \in [Paths -> KeysOf(raw) \cup {0}]
  /\ \A p \in Paths : Latest(raw, p, byPath[p])
  /\ values = [k \in KeysOf(raw) |-> None]
  /\ replacements = [p \in Paths |-> << >>]
  /\ deletions = {}
  /\ insertions = << >>
  /\ pending = [p \in Paths |-> None]
  /\ answer = Call("parse", << >>, None)

\* A path that does not parse is refused by every call that is given one.
MalformedPath == Refused

Next ==
  \/ MalformedPath
  \/ \E p \in Paths : Get(p) \/ Delete(p)
  \/ \E p \in Paths, v \in Given : Set(p, v) \/ \E after \in Paths : InsertAfter(after, p, v)

Spec == Init /\ [][Next]_vars

-----------------------------------------------------------------------------
(* Properties.                                                             *)

TypeOK ==
  /\ raw \in Sources
  /\ byPath \in [Paths -> KeysOf(raw) \cup {0}]
  /\ values \in [KeysOf(raw) -> Values \cup {None}]
  /\ replacements \in [Paths -> Seq(Cells)]
  /\ deletions \subseteq {p \in Paths : HasEntry(p)}
  /\ insertions \in Seq([after : Paths \cup {None}, path : Paths])
  /\ pending \in [Paths -> Values \cup {None}]

\* An entry is never replaced and deleted at once, and what Get would answer for it is
\* what its replacement writes.
OneEditPerEntry ==
  \A p \in Paths : replacements[p] # << >> =>
    /\ HasEntry(p) /\ p \notin deletions /\ values[byPath[p]] # None
    /\ replacements[p] = Formatted(p, values[byPath[p]])

\* Every value Get answers from pending has an insertion that can write it, and an
\* insertion is anchored at an entry or at the end.
NothingOnlyInMemory ==
  /\ \A p \in Paths : pending[p] # None => \E i \in DOMAIN insertions : insertions[i].path = p
  /\ \A i \in DOMAIN insertions : insertions[i].after = None \/ HasEntry(insertions[i].after)

\* The lines an entry occupies, stated without lineSpan.
SameLine(s, i, j) == \A n \in i .. j - 1 : s[n].t # "nl"
Touched == UNION {
  IF p \in deletions
  THEN {i \in DOMAIN raw : \E k \in EntriesAt(raw, p) : SameLine(raw, i, k) /\ SameLine(raw, k, i)}
  ELSE {k + 1 : k \in {e \in EntriesAt(raw, p) : replacements[p] # << >>}} : p \in Paths}

\* Whatever the edits and their order, Bytes keeps every cell outside the deleted lines
\* and the replaced values, once and in its place; all else it writes is new.
Own(out) == {i \in DOMAIN out : out[i].src # 0}
UntouchedPreserved ==
  LET out == Bytes IN
  /\ {out[i].src : i \in Own(out)} = DOMAIN raw \ Touched
  /\ \A i \in Own(out) : out[i] = raw[out[i].src]
  /\ \A i, j \in Own(out) : i < j => out[i].src < out[j].src

\* A text reads back: every key and every header starts its line, no path is assigned twice.
Starters(s) == {k \in DOMAIN s : s[k].t \in {"key", "header"}}
LinesWhole(s) == \A k \in Starters(s) :
  \A j \in 1 .. k - 1 : SameLine(s, j, k) => s[j].t = "text"
NoRepeats(s) == \A p \in Paths : Cardinality(EntriesAt(s, p)) <= 1
ReadsAs(s, p, v) == IF v \in Parsable
                    THEN \E k \in EntriesAt(s, p) : s[k + 1].value = v
                    ELSE \A k \in EntriesAt(s, p) : s[k + 1].value \notin Parsable

\* Edits whose result the format can carry: every insertion is of a path of its own, can be
\* written, and is put outside every table, on a line of its own.
Hygienic ==
  /\ LinesWhole(raw) /\ NoRepeats(raw)
  /\ \A i \in DOMAIN insertions :
       LET ins == insertions[i]
           pos == InsertionOp(i).start IN
       /\ ~HasEntry(ins.path)
       /\ \A j \in DOMAIN insertions : j # i => insertions[j].path # ins.path
       /\ pending[ins.path] \in Formattable \cup {None}
       /\ InTable(raw, pos, << >>)
       /\ ins.after # None => raw[pos - 1].t = "nl"

\* Parsing the bytes again gives for every path what Get answers now, and they are a
\* document: no key or header joined to another line, no path assigned twice, and every
\* value read, unless Get answers one whose text ParseDocument refuses.
ReadBack ==
  Hygienic => LET out == Bytes IN
              /\ LinesWhole(out) /\ NoRepeats(out)
              /\ Accepted(out) <=> \A p \in Paths : Lookup(p) \notin Unreadable
              /\ \A p \in Paths : ReadsAs(out, p, Lookup(p))

\* Get, Set, InsertAfter and Delete are those of a store of values by path: a call changes
\* what later calls answer for its own path only, and reading (which fills the cache of
\* parsed values) changes nothing.
Store == INSTANCE PathStore WITH
           inSource <- {p \in Paths : HasEntry(p)},
           store <- [p \in Paths |-> Lookup(p)]
StoreSpec == Store!Spec

\* A claim of the documentation that does not hold.

\* document.go:209: "Set replaces path with value".  In a source without tables or repeats,
\* a path that is only ever Set is assigned at most once in the bytes.
SetReplaces ==
  (\A i \in DOMAIN raw : raw[i].t # "header") /\ NoRepeats(raw)
  /\ (\A i \in DOMAIN insertions : insertions[i].after = None)
    => NoRepeats(Bytes)

=============================================================================
