------------------------------ MODULE TreeNodes ------------------------------
(***************************************************************************)
(* The tree a document decodes to: nested maps (documentMap), slices       *)
(* ([]any) and scalars.  It is a function from locations to kinds of node. *)
(* A location is the way from the root: a name enters a map, a number an   *)
(* element of a slice, counted from 1.                                     *)
(***************************************************************************)
EXTENDS Naturals, FiniteSets, SequencesExt

CONSTANT Names   \* the keys of tables, never numbers

Children(doc, loc) == {l \in DOMAIN doc : l # << >> /\ Front(l) = loc}
Size(doc, loc)     == Cardinality(Children(doc, loc))

\* The names on the way to loc, which is how a statement would write it.
PathOf(loc) == FoldLeft(LAMBDA path, step : IF step \in Names THEN Append(path, step) ELSE path,
                        << >>, loc)

\* What has to be at l for loc, of which l is a prefix, to be a table.
KindOnWay(l, loc) == IF Len(l) < Len(loc) /\ loc[Len(l) + 1] \notin Names
                     THEN "array" ELSE "table"

\* The tree with a table at loc; what is missing on the way is made too.
Grow(doc, loc) == [l \in DOMAIN doc \cup Prefixes(loc) |->
                     IF l \in DOMAIN doc THEN doc[l] ELSE KindOnWay(l, loc)]

\* The tree with a value at loc.  A value is a tree of its own.
Put(doc, loc, value) ==
  LET added == {loc \o l : l \in DOMAIN value}
  IN  [l \in DOMAIN doc \cup added |->
         IF l \in added THEN value[SubSeq(l, Len(loc) + 1, Len(l))] ELSE doc[l]]
=============================================================================
