----------------------------- MODULE MCDecoder -----------------------------
(***************************************************************************)
(* Documents for Decoder: every short document over two alphabets, and     *)
(* valid documents built from the TOML grammar together with the tokens    *)
(* they stand for.                                                         *)
(***************************************************************************)
EXTENDS Decoder

\* A fragment of a valid document: its cells and the kinds of its tokens.
Piece(cells, kinds) == [d |-> cells, k |-> kinds]
f ++ g == [d |-> f.d \o g.d, k |-> f.k \o g.k]

P(cell) == Piece(<<cell>>, << >>)
One     == Piece(<<"1">>, <<"scalar">>)
Str     == Piece(<<"q">>, <<"scalar">>)
Cmt     == Piece(<<"#", "a", "nl">>, <<"comment">>)
Key     == Piece(<<"a", "sp", "=">>, <<"key">>)
StrKey  == Piece(<<"q", "=", "sp">>, <<"key">>)
LB == Piece(<<"[">>, <<"arrayStart">>)
RB == Piece(<<"]">>, <<"arrayEnd">>)
LC == Piece(<<"{">>, <<"inlineStart">>)
RC == Piece(<<"}">>, <<"inlineEnd">>)

\* Arrays and inline tables with e as an element.
Collections(e) ==
  {LB ++ e ++ RB,
   LB ++ P("nl") ++ Cmt ++ e ++ P("sp") ++ P(",") ++ P("nl") ++ RB,
   LB ++ e ++ P(",") ++ One ++ RB,
   LB ++ Str ++ P(",") ++ e ++ RB,
   LC ++ Key ++ e ++ P("nl") ++ RC,
   LC ++ Key ++ e ++ P(",") ++ P("nl") ++ StrKey ++ One ++ RC}

Nested == {LB ++ RB, LC ++ P("nl") ++ RC} \cup Collections(Str)
Values == {One} \cup Nested \cup UNION {Collections(v) : v \in Nested}

Heads == {Piece(<<"[", "sp", "a", "]">>, <<"header">>),
          Piece(<<"[", "[", "q", "]", "]">>, <<"arrayHeader">>)}
CRLFBreak == Piece(<<"cr", "nl", "sp">>, << >>)

\* A header on either side of an assignment, with every kind of line end between.
ValidPieces ==
  UNION {{Key ++ v ++ CRLFBreak ++ h, h ++ Cmt ++ Key ++ v ++ P("nl") ++ StrKey ++ One} :
            v \in Values, h \in Heads} \cup
  {P("bom") ++ Key ++ One ++ P("nl")}

Expected == [d \in {p.d : p \in ValidPieces} |-> (CHOOSE p \in ValidPieces : p.d = d).k]

Prefixed(prefix, alphabet, n) == {prefix \o s : s \in BoundedSeq(alphabet, n)}
Structural == {"[", "]", "{", "}", ",", "=", "nl", "1"}
Lexical == Cells \ {"bad", "{", "}"}

\* One document over the size limit and one that is not UTF-8.
Oversized == {[i \in 1 .. 61 |-> "nl"]}

MCInputs == DOMAIN Expected \cup Oversized
            \cup Prefixed(<<"1", "=">>, Structural, 4)
            \cup Prefixed(<<"[", "1">>, Lexical, 2)
            \cup BoundedSeq(Lexical, 3) \cup {<<"bad", "1">>, <<"bom", "[", "a", "]", "nl">>}

\* A valid document is never refused and yields exactly the tokens it is made of.
ValidAccepted ==
  buf \in DOMAIN Expected /\ ~decoded =>
    LET kinds == [i \in DOMAIN tokens |-> tokens[i].kind] IN
    /\ ~Failed(out)
    /\ IsPrefix(kinds, Expected[buf])
    /\ out.kind = "eof" => kinds = Expected[buf]

=============================================================================
