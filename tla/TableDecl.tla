------------------------------ MODULE TableDecl ------------------------------
(***************************************************************************)
(* parseDocument of value.go: the statements of a document, one after the  *)
(* other, and which of them are refused because they define something a    *)
(* second time.  The code decides with maps indexed by encoded paths.      *)
(* Their values are contexts: the innermost array of tables on the path    *)
(* with the number of [[headers]] seen for it (its epoch).                 *)
(***************************************************************************)
EXTENDS TreeNodes

CONSTANTS HeaderPaths, KeyPaths,  \* the paths statements are written with
          Pieces,      \* [name -> its pieces between NUL characters]
          Values,      \* what a key may be assigned: trees, see TreeNodes
          Filters,     \* what a destination may ask for, see Known
          Nowhere,     \* a nil documentMap
          MaxEpoch,    \* bound on the [[headers]] for one path
          MaxNodes     \* bound on the tree: a larger one is not read on

VARIABLES filter,      \* what the destination asks for
          doc, current, currentPath,
          declaredTables, dottedKeyTables, closedInlineTables, arrayTableEpochs,
          inTable,     \* a header was read
          result,
          \* History that no guard reads: which statements made which nodes.
          opened, dotted, sealed

tables  == <<declaredTables, dottedKeyTables, closedInlineTables>>
history == <<opened, dotted, sealed>>
vars    == <<filter, doc, current, currentPath, tables, arrayTableEpochs,
             inTable, result, history>>

\* The nodes of a value are nested like those of the document.
IsTree(v) == /\ IsFiniteSet(DOMAIN v) /\ DOMAIN v \subseteq Seq(Names \cup Nat)
             /\ << >> \in DOMAIN v
             /\ \A l \in DOMAIN v : /\ l # << >> => Front(l) \in DOMAIN v
                                   /\ v[l] \in {"table", "array", "scalar"}

\* A field is reached through the fields around it.
IsFilter(f) == \A p \in f.fields \cup f.open :
  p \in Seq(Names) /\ \A i \in 1 .. Len(p) - 1 : SubSeq(p, 1, i) \in f.fields \cup f.open

ASSUME TreeAssumption ==
  /\ Names \cap Nat = {}
  /\ Pieces \in [Names -> Seq(STRING) \ {<< >>}]
  /\ HeaderPaths \cup KeyPaths \subseteq Seq(Names) \ {<< >>}
  /\ Nowhere \notin Seq(Names \cup Nat)
  /\ MaxEpoch \in Nat \ {0}
  /\ \A v \in Values : IsTree(v)
  /\ \A f \in Filters : IsFilter(f)

\* No name has a NUL in it, so that encoded paths are as different as paths.
Plain == \A n \in Names : /\ Len(Pieces[n]) = 1
                         /\ \A m \in Names : Pieces[m] = Pieces[n] => m = n

Answer(kind, path) == [kind |-> kind, path |-> path]
Reading == Answer("reading", << >>)
Root    == Answer("root", << >>)
-----------------------------------------------------------------------------
(* Paths, contexts and the filter *)

\* encodedKeyPath: the components joined with NUL.
Encode(path) == FoldLeft(LAMBDA acc, n : acc \o Pieces[n], << >>, path)

\* arrayTables has an entry whenever arrayTableEpochs has one.
arrayTables == DOMAIN arrayTableEpochs

NoContext == [prefix |-> << >>, epoch |-> 0]

declarationContext(path) ==
  LET counted == {i \in DOMAIN path : Encode(SubSeq(path, 1, i)) \in arrayTables}
      prefix  == Encode(SubSeq(path, 1, CHOOSE i \in counted : \A j \in counted : j <= i))
  IN  IF counted = {} THEN NoContext
      ELSE [prefix |-> prefix, epoch |-> arrayTableEpochs[prefix]]

\* existingContext, ok := table[path]; ok && existingContext == declContext
Recorded(table, path) == /\ Encode(path) \in DOMAIN table
                         /\ table[Encode(path)] = declarationContext(path)

\* The table with a record for each of the paths, in the present context.
Record(table, paths) ==
  LET encoded == {Encode(p) : p \in paths}
  IN  [e \in DOMAIN table \cup encoded |->
         IF e \in encoded
         THEN declarationContext(CHOOSE p \in paths : Encode(p) = e)
         ELSE table[e]]

\* Mutant of closedInlinePrefix: only the path itself is looked up.
closedInlinePath(path) == Recorded(closedInlineTables, path)

closedInlinePrefix(path) ==
  \E i \in DOMAIN path : Recorded(closedInlineTables, SubSeq(path, 1, i))

\* markClosedValuePaths: the tables and arrays of a value, but it does not
\* look into an array directly within an array.
ValuePaths(path, value) ==
  {path \o PathOf(l) : l \in {l \in DOMAIN value :
      /\ value[l] # "scalar"
      /\ \A i \in 2..Len(l) : l[i] \in Names \/ l[i - 1] \in Names}}

\* lookup and lookupPath: a struct asks for its fields, down to a field whose
\* type restricts nothing (the nil filter).
Known(path) == \/ path \in filter.fields
               \/ \E l \in Prefixes(path) : l \in filter.open
AsksForAll == << >> \in filter.open
-----------------------------------------------------------------------------
(* The tree *)

\* One component of ensureTableRaw: the table of that name, made if there is
\* none, or the last element if it is an array of tables.
Enter(loc, name) ==
  LET slot == Append(loc, name)
      last == Append(slot, Size(doc, slot))
  IN  CASE slot \notin DOMAIN doc -> slot
        [] slot \in DOMAIN doc /\ doc[slot] = "table" -> slot
        [] /\ slot \in DOMAIN doc /\ doc[slot] = "array"
           /\ last \in DOMAIN doc /\ doc[last] = "table" -> last
        [] OTHER -> Nowhere

ensureTable(path) ==
  FoldLeft(LAMBDA loc, n : IF loc = Nowhere THEN Nowhere ELSE Enter(loc, n),
           << >>, path)

\* appendArrayTableRaw and appendArrayTableKeyRaw: the place of the element.
appendArrayTable(path) ==
  LET parent == ensureTable(Front(path))
      slot   == Append(parent, Last(path))
  IN  IF parent = Nowhere THEN Nowhere
      ELSE IF slot \in DOMAIN doc /\ doc[slot] # "array" THEN Nowhere
      ELSE Append(slot, Size(doc, slot) + 1)

\* assignUniqueRaw: every component but the last is a table or missing, and
\* the last is missing.
AssignUnique(loc) ==
  /\ \A i \in Len(current) + 1 .. Len(loc) - 1 :
       SubSeq(loc, 1, i) \in DOMAIN doc => doc[SubSeq(loc, 1, i)] = "table"
  /\ loc \notin DOMAIN doc

\* Mutants of Inner: the first table is left out; the current path is not.
InnerShort(key)    == {currentPath \o SubSeq(key, 1, i) : i \in 2 .. Len(key) - 1}
InnerFromRoot(key) == LET full == currentPath \o key
                      IN  {SubSeq(full, 1, i) : i \in 1 .. Len(full) - 1}

\* The paths of the tables a dotted key passes through.
Inner(key) == {currentPath \o SubSeq(key, 1, i) : i \in 1 .. Len(key) - 1}
-----------------------------------------------------------------------------
(* The statements *)

Init == /\ filter \in Filters
        /\ doc = [l \in {<< >>} |-> "table"]
        /\ current = << >> /\ currentPath = << >>
        /\ declaredTables = << >> /\ dottedKeyTables = << >>
        /\ closedInlineTables = << >> /\ arrayTableEpochs = << >>
        /\ inTable = FALSE
        /\ result = Reading
        /\ opened = {} /\ dotted = {} /\ sealed = {}

Ready == result = Reading /\ Cardinality(DOMAIN doc) < MaxNodes

\* An error returns nil instead of the tree: what it leaves behind is dropped.
Refuse(kind, path) ==
  /\ result' = Answer(kind, path)
  /\ UNCHANGED <<filter, doc, current, currentPath, tables, arrayTableEpochs,
                 inTable, history>>

\* A section the filter does not know is read over.
SkipSection == /\ current' = Nowhere /\ currentPath' = << >> /\ inTable' = TRUE
               /\ UNCHANGED <<filter, doc, tables, result, history>>

\* The header's table becomes the current one.
EnterSection(loc, path) ==
  /\ doc' = Grow(doc, loc)
  /\ current' = loc /\ currentPath' = path /\ inTable' = TRUE
  /\ opened' = opened \cup {loc}
  /\ UNCHANGED <<filter, dottedKeyTables, closedInlineTables, result, dotted, sealed>>

TableClash(path) == \/ Encode(path) \in arrayTables
                    \/ Recorded(dottedKeyTables, path)
                    \/ closedInlinePrefix(path)
                    \/ Recorded(declaredTables, path)

\* [path]
TableHeader(path) ==
  LET next == ensureTable(path) IN
  /\ Ready
  /\ \/ /\ TableClash(path) \/ (Known(path) /\ next = Nowhere)
        /\ Refuse("table", path)
     \/ /\ ~TableClash(path) /\ ~Known(path)
        /\ SkipSection
        /\ UNCHANGED arrayTableEpochs
     \/ /\ ~TableClash(path) /\ Known(path) /\ next # Nowhere
        /\ EnterSection(next, path)
        /\ declaredTables' = Record(declaredTables, {path})
        /\ UNCHANGED arrayTableEpochs

ArrayClash(path) == \/ Encode(path) \in DOMAIN declaredTables
                    \/ Recorded(dottedKeyTables, path)
                    \/ closedInlinePrefix(path)

\* Mutant of CountElement: the first header of an array leaves the count at 0.
CountElementLate(path) ==
  arrayTableEpochs' = [e \in arrayTables \cup {Encode(path)} |->
                         IF e \notin arrayTables THEN 0
                         ELSE arrayTableEpochs[e] + (IF e = Encode(path) THEN 1 ELSE 0)]

CountElement(path) ==
  arrayTableEpochs' = [e \in arrayTables \cup {Encode(path)} |->
                         (IF e \in arrayTables THEN arrayTableEpochs[e] ELSE 0)
                         + (IF e = Encode(path) THEN 1 ELSE 0)]

\* [[path]]
ArrayTableHeader(path) ==
  LET next == appendArrayTable(path) IN
  /\ Ready
  /\ Encode(path) \in arrayTables => arrayTableEpochs[Encode(path)] < MaxEpoch
  /\ \/ /\ ArrayClash(path) \/ (Known(path) /\ next = Nowhere)
        /\ Refuse("array", path)
     \/ /\ ~ArrayClash(path) /\ ~Known(path)
        /\ SkipSection
        /\ CountElement(path)
     \/ /\ ~ArrayClash(path) /\ Known(path) /\ next # Nowhere
        /\ EnterSection(next, path)
        /\ CountElement(path)
        /\ UNCHANGED declaredTables

KeyClash(key) == \E p \in Inner(key) : \/ Encode(p) \in DOMAIN declaredTables
                                       \/ Recorded(closedInlineTables, p)

\* key = value; the simple key on the fast path does no more than this.
KeyValue(key, value) ==
  /\ Ready
  /\ \/ /\ current = Nowhere \/ ~Known(currentPath \o key)
        /\ UNCHANGED vars
     \/ /\ current # Nowhere /\ Known(currentPath \o key)
        /\ KeyClash(key) \/ ~AssignUnique(current \o key)
        /\ Refuse("key", key)
     \/ /\ current # Nowhere /\ Known(currentPath \o key)
        /\ ~KeyClash(key) /\ AssignUnique(current \o key)
        /\ doc' = Put(Grow(doc, Front(current \o key)), current \o key, value)
        /\ dottedKeyTables' = Record(dottedKeyTables, Inner(key))
        /\ closedInlineTables' =
             Record(closedInlineTables, ValuePaths(currentPath \o key, value))
        /\ dotted' = dotted \cup {current \o SubSeq(key, 1, i) : i \in 1..Len(key) - 1}
        /\ sealed' = sealed \cup {current \o key \o l : l \in DOMAIN value}
        /\ UNCHANGED <<filter, current, currentPath, declaredTables,
                       arrayTableEpochs, inTable, result, opened>>

\* Any other token, a bracket or brace that the reader hands out between the
\* statements: read over once there was a header.
StrayToken ==
  /\ Ready
  /\ IF inTable THEN UNCHANGED vars ELSE Refuse("stray", << >>)

\* Reading ends: at the end of the document, or at a key or value that the
\* reader, keyPath or parseNextValue refuses.
EndOfDocument ==
  /\ result = Reading
  /\ result' \in {Root, Answer("syntax", << >>)}
  /\ UNCHANGED <<filter, doc, current, currentPath, tables, arrayTableEpochs,
                 inTable, history>>

Next == \/ \E path \in HeaderPaths : TableHeader(path) \/ ArrayTableHeader(path)
        \/ \E key \in KeyPaths, value \in Values : KeyValue(key, value)
        \/ StrayToken \/ EndOfDocument

Spec == Init /\ [][Next]_vars
-----------------------------------------------------------------------------
(* Properties *)

Tree == INSTANCE TomlTree

(* The variables have the types of parseDocument's locals; every record     *)
(* names a context that some [[header]] has opened (value.go:1338).         *)
Contexts == [prefix : arrayTables, epoch : 1..MaxEpoch] \cup {NoContext}
TypeOK ==
  /\ filter \in Filters
  /\ << >> \in DOMAIN doc /\ \A l \in DOMAIN doc : doc[l] \in {"table", "array", "scalar"}
  /\ current = Nowhere \/ current \in DOMAIN doc
  /\ current # Nowhere => currentPath = PathOf(current)
  /\ inTable \in BOOLEAN /\ (current # << >> => inTable)
  /\ \A t \in {declaredTables, dottedKeyTables, closedInlineTables} :
       \A e \in DOMAIN t : t[e] \in Contexts
  /\ \A e \in arrayTables : arrayTableEpochs[e] \in 1..MaxEpoch
  /\ opened \cup dotted \cup sealed \subseteq DOMAIN doc

(* Whatever can still be reached in the tree is in the maps as what it is,  *)
(* under its path and in the present context, however many elements of      *)
(* arrays of tables began since: value.go:84-96, 121-131 and 214-222 look   *)
(* up the path of a statement and take an entry of another context for an   *)
(* entry of an element that is over.                                        *)
Bookkeeping ==
  \A l \in DOMAIN doc : Tree!Live(l) =>
    /\ l \in opened /\ Last(l) \in Names => Recorded(declaredTables, PathOf(l))
    /\ l \in dotted => Recorded(dottedKeyTables, PathOf(l))
    /\ l \in sealed /\ Front(l) \notin sealed /\ doc[l] # "scalar"
         => Recorded(closedInlineTables, PathOf(l))
    /\ doc[l] = "array" /\ l \notin sealed => Encode(PathOf(l)) \in arrayTables

(* The document does to its tree only what a TOML document may do: no table *)
(* is defined twice, nothing is added to a value or to a table of dotted    *)
(* keys by a header, nothing to an opened table by a dotted key             *)
(* (TestUnmarshal_TableAndKeyRedefinitionValidation, 1187 of                *)
(* decoder_token_test.go, gives the single cases).                          *)
TreeSpec == Tree!Spec

\* Whether the tree would allow the statement that was refused.
AllowedByTree ==
  LET path   == result.path
      parent == ensureTable(Front(path))
      slot   == Append(parent, Last(path))
  IN  CASE result.kind = "table" -> ensureTable(path) # Nowhere /\ Tree!MayOpen(ensureTable(path))
        [] result.kind = "array" -> parent # Nowhere /\ Tree!MayAppend(Append(slot, Size(doc, slot) + 1))
        [] result.kind = "key"   -> Tree!MayAssign(current \o path)

Refused == result.kind \in {"table", "array", "key"}

(* A destination that takes every key gets an error only for a document     *)
(* that breaks a rule of the tree, as long as no array of tables has a      *)
(* second element (see NoFalseRefusal for those that have).                 *)
RefusalJustified ==
  Refused /\ (\A e \in arrayTables : arrayTableEpochs[e] = 1) /\ AsksForAll
    => ~AllowedByTree

(* The tables below an array of tables may be defined anew for each element *)
(* (TestUnmarshal_ArrayTableSubtableMayRepeatPerElement, 1236 of            *)
(* decoder_token_test.go), so a refused document breaks a rule of the tree. *)
NoFalseRefusal == Refused /\ AsksForAll => ~AllowedByTree
=============================================================================
