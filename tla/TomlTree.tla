------------------------------ MODULE TomlTree ------------------------------
(***************************************************************************)
(* What the statements of a document may do to its tree.  Every rule is    *)
(* about the node a statement means: which statement made it and what may  *)
(* still be done to it.  parseDocument keeps no such marks; it has maps    *)
(* indexed by paths, and one path may mean another node later on.          *)
(***************************************************************************)
EXTENDS TreeNodes

CONSTANTS Values,    \* what a key may be assigned
          Nowhere    \* no table

VARIABLES doc,       \* the tree
          current,   \* the table the next keys belong to
          opened,    \* tables and array elements a header has opened
          dotted,    \* tables a dotted key has made or filled
          sealed     \* nodes that came with a value

vars == <<doc, current, opened, dotted, sealed>>

Init == /\ doc = [l \in {<< >>} |-> "table"]
        /\ current = << >>
        /\ opened = {} /\ dotted = {} /\ sealed = {}

\* Only the last element of an array of tables can still be reached.
Live(loc) == \A i \in DOMAIN loc :
               loc[i] \in Names \/ loc[i] = Size(doc, SubSeq(loc, 1, i - 1))

\* Nothing on the way to loc is in the way.
Clear(loc) == \A l \in Prefixes(loc) :
                /\ l \notin sealed
                /\ l \in DOMAIN doc => doc[l] = KindOnWay(l, loc)

\* [a.b] opens a table, once, and never one that dotted keys have made.
MayOpen(loc) == /\ loc # << >> /\ Last(loc) \in Names
                /\ Live(loc) /\ Clear(loc)
                /\ loc \notin opened \cup dotted

\* [[a.b]] adds an element to an array that consists of such elements.
MayAppend(loc) == /\ Len(loc) > 1
                  /\ Live(Front(loc)) /\ Last(loc) = Size(doc, Front(loc)) + 1
                  /\ Clear(loc)

\* a.b = 1 adds a value below the current table, and may make or fill tables
\* in between that are neither values nor opened by a header.
MayAssign(loc) == /\ current # Nowhere /\ IsStrictPrefix(current, loc)
                  /\ loc \notin DOMAIN doc
                  /\ \A l \in Prefixes(loc) \ (Prefixes(current) \cup {loc}) :
                       /\ l \notin opened \cup sealed
                       /\ l \in DOMAIN doc => doc[l] = "table"

OpenTable(loc) == /\ MayOpen(loc)
                  /\ doc' = Grow(doc, loc)
                  /\ current' = loc
                  /\ opened' = opened \cup {loc}
                  /\ UNCHANGED <<dotted, sealed>>

AppendElement(loc) == /\ MayAppend(loc)
                      /\ doc' = Grow(doc, loc)
                      /\ current' = loc
                      /\ opened' = opened \cup {loc}
                      /\ UNCHANGED <<dotted, sealed>>

Assign(loc, value) ==
  LET between == Prefixes(loc) \ (Prefixes(current) \cup {loc})
  IN  /\ MayAssign(loc)
      /\ doc' = Put(Grow(doc, Front(loc)), loc, value)
      /\ dotted' = dotted \cup between
      /\ sealed' = sealed \cup {loc \o l : l \in DOMAIN value}
      /\ UNCHANGED <<current, opened>>

\* A section nobody asked for.
LeaveTable == current' = Nowhere /\ UNCHANGED <<doc, opened, dotted, sealed>>

\* A step can only concern nodes that are there afterwards.
Next == \/ LeaveTable
        \/ \E loc \in DOMAIN doc' :
             \/ OpenTable(loc) \/ AppendElement(loc)
             \/ \E value \in Values : Assign(loc, value)

Spec == Init /\ [][Next]_vars
=============================================================================
