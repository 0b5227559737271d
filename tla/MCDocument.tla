----------------------------- MODULE MCDocument -----------------------------
(***************************************************************************)
(* Small sources for Document: with and without a last line break, with    *)
(* comments, a multi-line gap, tables, an array of tables (which repeats a *)
(* path), a value that does not parse, and an empty one.                   *)
(***************************************************************************)
EXTENDS Document

a  == <<"a">>
n  == <<"n">>
tx == <<"t", "x">>
MCPaths == {a, n, tx}

\* "odd" can be neither parsed nor written, "unread" is written as a text that is refused.
MCValues      == {"plain", "quote", "odd", "unread"}
MCGiven       == {"plain", "odd", "unread"}
MCStrings     == {"plain", "quote"}
MCLiteralSafe == {"plain"}
MCFormattable == {"plain", "quote", "unread"}
MCUnreadable  == {"unread"}

K(path)      == Cell("key", path, None, FALSE, 0)
V(v)         == Cell("value", << >>, v, FALSE, 0)
Lit(v)       == Cell("value", << >>, v, TRUE, 0)
H(path)      == Cell("header", path, None, FALSE, 0)
NL           == Cell("nl", << >>, None, FALSE, 0)
Text         == Cell("text", << >>, None, FALSE, 0)
Sourced(s)   == [i \in DOMAIN s |-> [s[i] EXCEPT !.src = i]]

\* The empty document is one more.
Flat   == <<K(a), Lit("plain"), Text, NL, NL, Text, K(n), V("quote"), NL, H(<<"t">>), NL>>
Closed == <<K(a), V("quote"), NL>>
Open   == <<Text, NL, K(a), V("odd"), Text>>
Table  == <<Text, NL, H(<<"t">>), NL, K(<<"x">>), V("plain"), NL>>
Array  == <<H(<<"t">>), NL, K(<<"x">>), V("plain"), NL, H(<<"t">>), NL, K(<<"x">>), V("quote")>>
MCSources == {Sourced(s) : s \in {Flat, Closed, Open, Table, Array, << >>}}
=============================================================================
