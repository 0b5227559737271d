---------------------------- MODULE MCTypeCaches ----------------------------
(***************************************************************************)
(* Types for TypeCaches: structs with and without a map, some that contain *)
(* themselves through a list, through a map, next to a map and in a field  *)
(* no key gets to, a list of itself, and one with a refused tag behind a   *)
(* map.                                                                    *)
(***************************************************************************)
EXTENDS TypeCaches, TLC

CONSTANTS p1, p2, number, numbers, anything, nodes, trees, node, tree, both, mixed, bad,
          hidden, knot, knots

MCCallers == {p1, p2}
MCTypes == {number, numbers, anything, nodes, trees, node, tree, both, mixed, bad, hidden, knot, knots}
MCKind == [t \in MCTypes |-> CASE t = number -> "scalar" [] t = anything -> "interface"
                               [] t \in {numbers, nodes, knots} -> "list" [] t = trees -> "map"
                               [] t = bad -> "badtag"    [] OTHER -> "struct"]
MCParts ==
  (number :> << >>) @@ (numbers :> <<number>>) @@ (anything :> << >>) @@ (bad :> <<number>>)
  @@ (nodes :> <<node>>) @@ (node :> <<nodes, anything>>)  \* struct { Kids []Node; X any }
  @@ (trees :> <<tree>>) @@ (tree :> <<numbers, trees>>)   \* struct { N []int; Kids map[string]Tree }
  @@ (both :> <<tree, node>>) @@ (mixed :> <<tree, tree, bad>>)
  @@ (hidden :> <<trees>>)                \* struct { Up *Hidden `toml:"-"`; Kids map[string]Tree }
  @@ (knots :> <<knots>>) @@ (knot :> <<number, knots>>)   \* type Knots []Knots
MCExported == (hidden :> <<hidden, trees>>) @@ MCParts
MCInside == [t \in MCTypes |-> CASE t = nodes -> node [] t = numbers -> number [] OTHER -> t]
MCRoots == {node, tree, nodes, both, mixed, hidden, knot}

\* What OverflowNeedsItself asks of a stack.
ASSUME StackRoomy == Roomy
=============================================================================
