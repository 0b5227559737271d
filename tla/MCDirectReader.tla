--------------------------- MODULE MCDirectReader ---------------------------
(***************************************************************************)
(* Documents for DirectReader: an assignment with every kind of value, to  *)
(* a key of every kind, in a table of every kind, and what may follow on   *)
(* the same line and on the next.                                          *)
(***************************************************************************)
EXTENDS DirectReader

Keys == {<<"a">>, <<"a", "a">>, <<"1">>, <<"1", "1">>, <<"q", "sp">>, <<"a", "a", "1">>}
Sections == {<< >>, <<"[", "a", "]", "nl">>, <<"[", "[", "a", "1", "]", "]", "nl">>,
             <<"[", "1", "]", "nl">>, <<"[", "q", "]", "cr", "nl">>}
Strays == {<<"[", "a", "]", "nl", "}", "nl">>, <<"]", "nl">>, <<"bom">>,
           <<"bom", "[", "a", "]", "nl">>, <<"sp", "[", "sp", "a", "1", "]", "#", "nl">>,
           <<"[", "a", "a", "a", "]">>, <<"[", "1", "]", "nl", "{">>}

Scalars == {<<"1">>, <<"q">>, <<"Q">>, <<"B">>, <<"U">>, <<"a">>, << >>, <<"nl", "1">>,
            <<"#", "nl", "1">>, <<"]">>, <<",">>}

Arrays(e) == {<<"[">> \o e \o <<"]">>,
              <<"[", "nl">> \o e \o <<"sp", ",", "#", "nl", "]">>,
              <<"[", "q", ",">> \o e \o <<"]">>, <<"[", "q">> \o e \o <<"]">>,
              <<"[", "cr">> \o e \o <<"cr", "nl", "]">>,
              <<"[", "cr", "nl">> \o e \o <<"}">>, <<"[">> \o e \o <<"#", "cr">>}

Inlines(e) == {<<"{", "a", "=">> \o e \o <<"}">>,
               <<"{", "nl", "1", "sp", "=", "sp">> \o e \o <<",", "#", "nl", "}">>,
               <<"{", "q", "=">> \o e \o <<",", "a", "=", "1", "nl", "}">>,
               <<"{", "a", "=", "1">> \o e \o <<"}">>,
               <<"{", "a">> \o e \o <<"}">>}

Flat == {<<"[", "]">>, <<"{", "}">>}
Nested1 == UNION {Arrays(e) \cup Inlines(e) : e \in {<<"1">>, <<"q">>, << >>, <<",">>, <<"B">>} \cup Flat}
Nested2 == UNION {Arrays(e) \cup Inlines(e) :
                  e \in {<<"[", "q", "]">>, <<"[", "{", "}", "]">>, <<"{", "a", "=", "{", "}", "}">>}}
MCValues == Scalars \cup Flat \cup Nested1 \cup Nested2

Ends == {<< >>, <<"sp", "nl", "1", "=", "1">>, <<"#", "cr", "nl", "[", "a", "]">>,
         <<"sp", "1">>, <<"cr">>, <<"nl", "sp", "#">>}

Assign(k, v, e) == k \o <<"=", "sp">> \o v \o e

MCInputs ==
  {Assign(k, v, e) : k \in Keys, v \in MCValues, e \in Ends}
  \cup {s \o Assign(k, v, e) : s \in Sections \cup Strays, k \in {<<"1">>, <<"a">>},
         v \in {<<"1">>, <<"[", "q", "nl", "]">>}, e \in Ends}
  \cup {<<"bad">>, <<"[", "a", "]", "bad">>}
=============================================================================
