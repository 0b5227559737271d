----------------------------- MODULE MCTableDecl -----------------------------
(***************************************************************************)
(* Small documents for TableDecl: headers for three nested paths, a simple *)
(* and a dotted key, so that below a table the same node can be meant by a *)
(* header, an array header and keys; read into a map and into a struct     *)
(* that has fields for a and a.b only.                                     *)
(***************************************************************************)
EXTENDS TableDecl, TLC

CONSTANTS a, b, c
MCNames == {a, b, c}
MCPieces == (a :> <<"a">>) @@ (b :> <<"b">>) @@ (c :> <<"c">>)
MCHeaderPaths == {<<a>>, <<a, b>>, <<a, b, c>>}
MCKeyPaths == {<<b>>, <<b, c>>}

\* 1, { c = {} }, [] and [{}].
Scalar == << >> :> "scalar"
Inline == (<< >> :> "table") @@ (<<c>> :> "table")
Empty  == << >> :> "array"
Static == (<< >> :> "array") @@ (<<1>> :> "table")
MCValues == {Scalar, Inline, Empty, Static}

NilFilter    == [fields |-> {}, open |-> {<< >>}]
StructFilter == [fields |-> {<<a>>, <<a, b>>}, open |-> {}]
MCFilters    == {NilFilter, StructFilter}

\* What the theorems about TableDecl assume of the names.
ASSUME PlainNames == Plain
=============================================================================
