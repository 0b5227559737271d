------------------------------ MODULE Emission ------------------------------
(***************************************************************************)
(* Marshal of marshal.go and internal/reflectcache/encoder.go: the         *)
(* statements a Go value is written as.  One behaviour is one call.  The   *)
(* encoders call each other; the work that is left is a sequence of jobs.  *)
(*                                                                         *)
(* A value is a tree: a function from locations (numbers of fields or      *)
(* elements) to nodes.  A string is one of a few classes of text, a name   *)
(* likewise (NameText); what the two sets of writers make of them is       *)
(* ReadAs, in terms of what parseBasicStringBody reads back.               *)
(***************************************************************************)
EXTENDS Naturals, FiniteSets, SequencesExt

CONSTANTS Inputs,       \* the values
          Names,        \* of fields and map keys
          NameText,     \* [Names -> Texts]
          Unreadable,   \* what the reader refuses
          Garbled,      \* another text than the one that was meant
          Nowhere       \* no element, for TomlTree

\* "bell": a control character with a Go escape that TOML has not (\a, \v);
\* "tab": one both have; "broken": not UTF-8.
Texts == {"plain", "tab", "bell", "delete", "broken"}

TableKinds == {"any", "map", "struct"}   \* "any" is map[string]any
ListKinds  == {"anys", "list"}           \* "anys" is []any
LeafKinds  == {"string", "text", "literal", "local", "nil", "chan"}

\* names: of a table's entries, in the order of sorting; text: a string's, or
\* what MarshalText answers ("fails" for an error), or "invalid" for a local
\* date or time out of range and for an integer the reader has no room for;
\* raw: the string under a type with a MarshalText method, "literal" if it is
\* a number or a bool, "none" for any other type.
Node(kind, names, text, raw) == [kind |-> kind, names |-> names, text |-> text, raw |-> raw]

\* Values that a Go program can build; a list that starts with a table holds
\* nothing that is written in a way of its own.
ASSUME InputsAssumption ==
  /\ NameText \in [Names -> Texts]
  /\ \A v \in Inputs : /\ << >> \in DOMAIN v
                       /\ \A l \in DOMAIN v : v[l].kind \in TableKinds \cup ListKinds \cup LeafKinds
                       /\ \A l \in DOMAIN v : v[l].kind \in ListKinds /\ Append(l, 1) \in DOMAIN v
                            /\ v[Append(l, 1)].kind \in TableKinds =>
                              \A m \in DOMAIN v : Len(m) = Len(l) + 1 /\ IsPrefix(l, m) =>
                                v[m].kind \notin {"text", "local"}

VARIABLES v,        \* the value
          todo,     \* the jobs, the next one first
          out,      \* the statements written to the scratch buffer
          result    \* "encoding", "done" or "error"

vars == <<v, todo, out, result>>
-----------------------------------------------------------------------------
(* Values *)

Elements(l) == {m \in DOMAIN v : m # << >> /\ Front(m) = l}
Kind(l)     == v[l].kind

\* marshalFieldValue skips a field that is nil, and of fields with one name
\* the last one stands (structMarshalEntries).  Maps write every entry.
Visible(l) == {i \in DOMAIN v[l].names :
  Kind(l) = "struct" => /\ Kind(Append(l, i)) # "nil"
                        /\ \A j \in DOMAIN v[l].names :
                             j > i /\ v[l].names[j] = v[l].names[i] => Kind(Append(l, j)) = "nil"}

HasDuplicateNames(l) == ~IsInjective(v[l].names)

\* What is written of a value below base, and its place by names.
Kept(base) == {l \in DOMAIN v : IsPrefix(base, l) /\ \A i \in Len(base) + 1 .. Len(l) :
                 Kind(SubSeq(l, 1, i - 1)) \in TableKinds => l[i] \in Visible(SubSeq(l, 1, i - 1))}
Place(base, l, Name(_)) ==
  [i \in 1 .. Len(l) - Len(base) |->
     LET p == SubSeq(l, 1, Len(base) + i - 1) IN
     IF Kind(p) \in TableKinds THEN Name(v[p].names[l[Len(base) + i]]) ELSE l[Len(base) + i]]
-----------------------------------------------------------------------------
(* Tables and arrays of tables *)

\* isArrayOfTables looks at the first element only.
isArrayOfTables(l) == /\ Kind(l) \in ListKinds /\ Elements(l) # {}
                      /\ Kind(Append(l, 1)) \in TableKinds

\* Mutant of isArrayOfTablesAny: any list that is not empty.
isArrayOfTablesAnyNonEmpty(l) == Elements(l) # {}

\* isArrayOfTablesAny: hasNonEmptyTableLikeDescendantAny has no case that
\* answers true, so only empty maps are left.
isArrayOfTablesAny(l) == /\ Elements(l) # {}
                         /\ \A m \in Elements(l) : Kind(m) = "any" /\ Elements(m) = {}

isTableLike(l) == Kind(l) \in TableKinds \/ isArrayOfTables(l)

\* isTableLikeAny for what a map[string]any holds.
TableLike(l, any) == IF any /\ Kind(l) = "anys" THEN isArrayOfTablesAny(l)
                     ELSE isTableLike(l)
-----------------------------------------------------------------------------
(* Texts *)

\* What is read of a text written by appendBasicString and formatKey of
\* marshal.go (which refuse broken ones), or with fast by those of
\* encode_format.go: strconv.AppendQuote, but a string with no other special
\* character than DEL is written as it is.
ReadAs(text, fast, isName) ==
  CASE ~fast                              -> text
    [] fast /\ text = "bell"              -> Unreadable
    [] fast /\ text = "delete" /\ ~isName -> Unreadable
    [] fast /\ text = "broken"            -> Garbled
    [] OTHER                              -> text

ReadName(name, fast) ==
  CASE ReadAs(NameText[name], fast, TRUE) = NameText[name] -> name
    [] OTHER -> ReadAs(NameText[name], fast, TRUE)

\* The text of a leaf: writerForType takes a string, a number or a bool for what
\* its kind says before anything asks for a MarshalText method.  An invalid
\* Local* writes nothing, an unsigned integer is written as it is.
LeafText(l, fast) ==
  CASE Kind(l) = "string"                                  -> ReadAs(v[l].text, fast, FALSE)
    [] Kind(l) = "text" /\ fast /\ v[l].raw \in Texts       -> ReadAs(v[l].raw, fast, FALSE)
    [] Kind(l) = "text" /\ fast /\ v[l].raw = "literal"    -> "literal"
    [] Kind(l) = "text" /\ ~(fast /\ v[l].raw # "none")    -> v[l].text
    [] Kind(l) \in {"local", "literal"} /\ v[l].text = "invalid" -> Unreadable
    [] Kind(l) \in TableKinds                              -> "table"
    [] Kind(l) \in ListKinds                               -> "array"
    [] OTHER                                               -> Kind(l)

\* Whether the field's own writer is used and may write something else than
\* writeValue, which is what the fallback writes.
FastLeaf(l, fast) == /\ fast
                     /\ Kind(l) = "string" \/ (Kind(l) = "text" /\ v[l].raw # "none")
FastKey(l, fast)  == FastLeaf(l, fast) \/ (fast /\ Kind(l) = "literal")

\* writeValue, writeAnyValue, writeInlineTable fail somewhere in the value.
Refused(l, fast) ==
  ~FastLeaf(l, fast) /\ \E m \in Kept(l) :
    \/ Kind(m) \in {"nil", "chan"}
    \/ Kind(m) \in {"string", "text"} /\ v[m].text \in {"broken", "fails"}
    \/ Kind(m) \in TableKinds /\ \E i \in Visible(m) : NameText[v[m].names[i]] = "broken"
-----------------------------------------------------------------------------
(* Jobs *)

Document(l, path, any) == [do |-> "document", at |-> l, path |-> path, any |-> any]
Field(l, name, fast)   == [do |-> "field", at |-> l, name |-> name, fast |-> fast]
Header(path, array, strict) == [do |-> "header", path |-> path, array |-> array, strict |-> strict]

\* The jobs for the entries of a table that is no scalar.  encodeAnyMapDocument
\* asks isArrayOfTablesAny, so a []map[string]any or a list of structs is a table
\* there, which encodeDocument refuses.
Section(l, path, any, strict) ==
  LET inAny(m) == any /\ Kind(m) = "any"
  IN  IF Kind(l) = "anys" \/ (Kind(l) = "list" /\ ~any)
      THEN FlattenSeq([i \in 1..Cardinality(Elements(l)) |->
             <<Header(path, TRUE, strict), Document(Append(l, i), path, inAny(Append(l, i)))>>])
      ELSE <<Header(path, FALSE, strict), Document(l, path, inAny(l))>>

\* Mutant of Entries: one pass over the entries, as they come.
EntriesMixed(l, path, any) ==
  LET fast == Kind(l) = "struct" /\ ~HasDuplicateNames(l)
      order == SetToSortSeq(Visible(l), <)
  IN  FlattenSeq([i \in DOMAIN order |->
        LET m == Append(l, order[i])  name == v[l].names[order[i]] IN
        IF TableLike(m, any) THEN Section(m, Append(path, name), any, ~fast)
        ELSE <<Field(m, name, fast)>>])

\* encodeStructDocument, encodeMapDocument, encodeAnyMapDocument: the scalars,
\* then the tables.  A struct without duplicate names has its precomputed
\* encoder (buildStructEncoder).
Entries(l, path, any) ==
  LET fast == Kind(l) = "struct" /\ ~HasDuplicateNames(l)
      At(i) == Append(l, i)
      Name(i) == v[l].names[i]
      scalars == SetToSortSeq({i \in Visible(l) : ~TableLike(At(i), any)}, <)
      tables  == SetToSortSeq({i \in Visible(l) : TableLike(At(i), any)}, <)
  IN  [k \in DOMAIN scalars |-> Field(At(scalars[k]), Name(scalars[k]), fast)]
      \o FlattenSeq([k \in DOMAIN tables |->
           Section(At(tables[k]), Append(path, Name(tables[k])), any, ~fast)])

\* A statement as the reader finds it.
KeyStatement(job, fast) ==
  LET l == job.at
      Name(n) == n
      tree == [p \in {Place(l, m, Name) : m \in Kept(l)} |->
                 LET m == CHOOSE m \in Kept(l) : Place(l, m, Name) = p
                 IN  LeafText(m, m = l /\ FastLeaf(l, fast))]
  IN  [kind |-> "key", path |-> <<ReadName(job.name, FastKey(l, fast))>>, value |-> tree]
HeaderStatement(job) ==
  [kind |-> IF job.array THEN "array" ELSE "table", value |-> << >>,
   path |-> [i \in DOMAIN job.path |-> IF NameText[job.path[i]] = "broken" THEN Unreadable
                                       ELSE job.path[i]]]
-----------------------------------------------------------------------------
(* The call *)

Init == /\ v \in Inputs
        /\ todo = <<Document(<< >>, << >>, v[<< >>].kind = "any")>>
        /\ out = << >> /\ result = "encoding"

Next1(do) == result = "encoding" /\ todo # << >> /\ Head(todo).do = do

Fail == result' = "error" /\ UNCHANGED <<v, todo, out>>

\* encodeDocument: only maps and structs are documents.
EncodeDocument ==
  LET job == Head(todo) IN
  /\ Next1("document")
  /\ IF Kind(job.at) \notin TableKinds THEN Fail
     ELSE /\ todo' = Entries(job.at, job.path, job.any) \o Tail(todo)
          /\ UNCHANGED <<v, out, result>>

\* writeKeyValue, writeKeyValueAny, or the field's own writer.
WriteField ==
  LET job == Head(todo) IN
  /\ Next1("field")
  /\ IF \/ Refused(job.at, job.fast)
        \/ NameText[job.name] = "broken" /\ ~FastKey(job.at, job.fast)
     THEN Fail
     ELSE /\ out' = Append(out, KeyStatement(job, job.fast))
          /\ todo' = Tail(todo)
          /\ UNCHANGED <<v, result>>

\* writeHeader; encodeReflectcacheTable ignores its error.
WriteHeader ==
  LET job == Head(todo) IN
  /\ Next1("header")
  /\ IF job.strict /\ \E n \in Range(job.path) : NameText[n] = "broken" THEN Fail
     ELSE /\ out' = Append(out, HeaderStatement(job))
          /\ todo' = Tail(todo)
          /\ UNCHANGED <<v, result>>

Finish == /\ result = "encoding" /\ todo = << >>
          /\ result' = "done" /\ UNCHANGED <<v, todo, out>>

Next == EncodeDocument \/ WriteField \/ WriteHeader \/ Finish

Spec == Init /\ [][Next]_vars
-----------------------------------------------------------------------------
(* Reading back: the rules of TomlTree, statement by statement *)

Reader(r) == INSTANCE TomlTree WITH
  doc <- r.doc, current <- r.current, opened <- r.opened, sealed <- r.sealed,
  dotted <- {}, Values <- {}

Tree == INSTANCE TreeNodes

\* The node a path means: in an array of tables the last element.
Locate(doc, path) ==
  FoldLeft(LAMBDA loc, n :
             LET slot == Append(loc, n) IN
             IF slot \in DOMAIN doc /\ doc[slot] = "array"
             THEN Append(slot, Tree!Size(doc, slot)) ELSE slot,
           << >>, path)

Understand(r, s) ==
  LET target == CASE s.kind = "table" -> Locate(r.doc, s.path)
                  [] s.kind = "array" ->
                       LET slot == Append(Locate(r.doc, Front(s.path)), Last(s.path))
                       IN  Append(slot, Tree!Size(r.doc, slot) + 1)
                  [] s.kind = "key" -> r.current \o s.path
      allowed == CASE s.kind = "table" -> Reader(r)!MayOpen(target)
                   [] s.kind = "array" -> Reader(r)!MayAppend(target)
                   [] s.kind = "key"   -> Reader(r)!MayAssign(target)
      readable == /\ \A n \in Range(s.path) : n # Unreadable
                  /\ \A l \in DOMAIN s.value : s.value[l] # Unreadable
  IN  IF ~r.ok \/ ~readable \/ ~allowed THEN [r EXCEPT !.ok = FALSE]
      ELSE IF s.kind = "key"
           THEN [r EXCEPT !.doc = Tree!Put(r.doc, target, s.value),
                          !.sealed = @ \cup {target \o l : l \in DOMAIN s.value}]
           ELSE [r EXCEPT !.doc = Tree!Grow(r.doc, target), !.current = target,
                          !.opened = @ \cup {target}]

Read == FoldLeft(Understand, [doc |-> [l \in {<< >>} |-> "table"], current |-> << >>,
                              opened |-> {}, sealed |-> {}, ok |-> TRUE], out)

\* The tree the value means.
Meaning ==
  LET Name(n) == n IN
  [p \in {Place(<< >>, l, Name) : l \in Kept(<< >>)} |->
     LeafText(CHOOSE l \in Kept(<< >>) : Place(<< >>, l, Name) = p, FALSE)]
-----------------------------------------------------------------------------
(* Properties *)

\* What Marshal is known to get wrong: Local* values and unsigned integers out of
\* range, what encode_format.go writes in a way of its own, a list of which only
\* the first element is a table, and in nothing but map[string]any a list of
\* tables that is no []any.
SilentValue == \E l \in Kept(<< >>) : Kind(l) \in {"local", "literal"} /\ v[l].text = "invalid"
OwnText ==
  \E l \in Kept(<< >>) \ {<< >>} :
    LET p == Front(l)  name == v[p].names[Last(l)] IN
    /\ Kind(p) = "struct" /\ ~HasDuplicateNames(p)
    /\ \/ FastLeaf(l, TRUE) /\ LeafText(l, TRUE) # LeafText(l, FALSE)
       \/ FastKey(l, TRUE) /\ ReadName(name, TRUE) # name
       \/ NameText[name] = "broken"
MixedList == \E l \in Kept(<< >>) : /\ isArrayOfTables(l)
                                    /\ \E m \in Elements(l) : Kind(m) \notin TableKinds
TypedList == \E l \in Kept(<< >>) : /\ Kind(l) = "list" /\ isArrayOfTables(l)
                                    /\ \A i \in 0 .. Len(l) - 1 : Kind(SubSeq(l, 1, i)) = "any"

(* What Marshal returns without an error reads back as the value: no table  *)
(* is written twice, no key after the header of another table, elements of  *)
(* an array in order (marshal.go:186-232, 347-391; encoder.go:50).          *)
ReadsBack == result = "done" => SilentValue \/ OwnText \/ (Read.ok /\ Read.doc = Meaning)

(* Marshal fails only for a value that has no TOML text: a nil that is no   *)
(* field, a type TOML lacks, a text that is not UTF-8 or a failing          *)
(* MarshalText.                                                             *)
ErrorJustified ==
  result = "error" /\ ~MixedList /\ ~TypedList =>
    \/ Kind(<< >>) \notin TableKinds
    \/ Refused(<< >>, FALSE)

(* A struct is written the same with and without its precomputed encoder    *)
(* (TestMarshalPrecomputedStructEncoderMatchesFieldLoop, 367 of             *)
(* facade_test.go).                                                         *)
PrecomputedMatchesFieldLoop ==
  Next1("field") /\ Head(todo).fast /\ ~Refused(Head(todo).at, FALSE) =>
    KeyStatement(Head(todo), TRUE) = KeyStatement(Head(todo), FALSE)
=============================================================================
