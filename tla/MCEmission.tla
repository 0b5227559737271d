----------------------------- MODULE MCEmission -----------------------------
(***************************************************************************)
(* Values for Emission: a map[string]any, another map or a struct with two *)
(* entries, each of them any of the leaves, or a table or a list with up   *)
(* to two simple entries.                                                  *)
(***************************************************************************)
EXTENDS Emission, TLC

CONSTANTS a, b, bell, broken
MCNames == {a, b, bell, broken}
MCNameText == [n \in MCNames |-> CASE n = bell -> "bell" [] n = broken -> "broken"
                                   [] OTHER -> "plain"]

Leaf(kind, text, raw) == << >> :> Node(kind, << >>, text, raw)
Literal == Leaf("literal", "", "none")
Nil     == Leaf("nil", "", "none")
Leaves  == {Literal, Nil, Leaf("chan", "", "none")}
           \cup {Leaf("string", t, "none") : t \in Texts}
           \cup {Leaf("text", "plain", "none"), Leaf("text", "plain", "tab"),
                 Leaf("text", "fails", "plain"), Leaf("text", "plain", "literal"),
                 Leaf("text", "fails", "literal")}
           \cup {Leaf("local", "valid", "none"), Leaf("local", "invalid", "none"),
                 Leaf("literal", "invalid", "none")}

\* A node with children.
Make(kind, names, children) ==
  [l \in {<< >>} \cup UNION {{<<i>> \o m : m \in DOMAIN children[i]} : i \in DOMAIN children} |->
     IF l = << >> THEN Node(kind, names, "", "none") ELSE children[Head(l)][Tail(l)]]

\* Tables and lists with simple entries, and lists of those.
Small == {Make(k, << >>, << >>) : k \in TableKinds \cup ListKinds}
         \cup {Make(k, <<b>>, <<c>>) : k \in TableKinds, c \in {Literal, Nil}}
         \cup {Make("struct", <<a, a>>, <<Literal, c>>) : c \in {Nil, Leaf("string", "tab", "none")}}
Lists == {Make(k, << >>, <<x, y>>) : k \in ListKinds, x, y \in
            {Literal, Nil, Leaf("string", "bell", "none"), Make("any", << >>, << >>), Make("any", <<b>>, <<Literal>>),
             Make("struct", <<b>>, <<Literal>>)}}
Deep  == {Make(k, <<a, b>>, <<x, Literal>>) : k \in TableKinds,
            x \in {Make("any", <<b>>, <<Make("anys", << >>, <<Make("any", << >>, << >>)>>)>>),
                   Make("list", << >>, <<Make("struct", <<b>>, <<Literal>>)>>),
                   Make("struct", <<bell>>, <<Literal>>), Make("map", <<broken>>, <<Literal>>)}}

Children == Leaves \cup Small \cup Lists \cup Deep
Few      == {Literal, Nil, Leaf("text", "plain", "tab"), Leaf("string", "bell", "none"),
             Make("map", <<b>>, <<Literal>>), Make("anys", << >>, <<Make("any", << >>, << >>)>>)}
MCInputs ==
  {Make(k, <<a, b>>, <<x, y>>) : k \in TableKinds, x \in Children, y \in Few}
  \cup {Make(k, <<a, b>>, <<y, x>>) : k \in TableKinds, x \in Children, y \in Few}
  \cup {Make(k, <<a, n>>, <<x, y>>) : k \in TableKinds, n \in {bell, broken}, x \in Few,
          y \in Leaves \cup Small}
  \cup {Make("struct", <<a, a>>, <<x, y>>) : x \in Few, y \in Children}
  \cup {Literal, Nil}
=============================================================================
