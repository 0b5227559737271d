----------------------------- MODULE MCLiterals -----------------------------
(***************************************************************************)
(* Texts for Literals: all short ones, and integers of every base around   *)
(* the limits of six bits.                                                 *)
(***************************************************************************)
EXTENDS Literals, SequencesExt

Short  == UNION {[1..n -> {"0", "1", "7", "9", "e", "_", "+", "-", ".", "x", "b"}] : n \in 1..4}
Around(sign, prefix, digits, n) ==
  {(IF sign = "" THEN << >> ELSE <<sign>>) \o prefix \o d : d \in UNION {[1..k -> digits] : k \in 1..n}}
Bounds == UNION {Around(s, << >>, {"0", "1", "2", "3", "9", "_"}, 4) : s \in {"", "+", "-"}}
          \cup UNION {Around("", <<"0", p>>, {"0", "1", "_"}, 7) : p \in {"b", "B"}}
          \cup UNION {Around("", <<"0", p>>, {"0", "1", "7", "_"}, 4) : p \in {"o", "O"}}
          \cup UNION {Around("", <<"0", p>>, {"0", "1", "f", "A", "_"}, 4) : p \in {"x", "X"}}
          \cup UNION {{<<c>>, <<"0", "x", c>>, <<"0", "o", c>>} : c \in DOMAIN DigitValue}
Floats == {<<"-", "1", ".">> \o d \o <<"e">> \o e : d \in UNION {[1..n -> {"0", "_"}] : n \in 0..2},
             e \in UNION {[1..n -> {"+", "-", "7", "_", "."}] : n \in 0..3}}
\* Floats on both sides of 10 ^ FloatPower.
Limits == {m \o <<"e">> \o s \o p :
             m \in {<<"0">>, <<"1">>, <<"9", ".", "9">>, <<"1", "_", "0">>, <<"0", ".", "0", "4">>},
             s \in {<< >>, <<"+">>, <<"-">>}, p \in {<<"6">>, <<"7">>, <<"8">>, <<"9">>, <<"1", "0">>}}
MCNumbers == Short \cup Bounds \cup Floats \cup Limits

Dates  == {<<y, m, d>> : y \in {1900, 2000, 2023, 2024}, m \in {0, 2, 4, 12, 13}, d \in {0, 1, 28, 29, 30, 31, 32}}
Clocks == {ClockText(h, m, s, f) : h \in {0, 23, 24}, m \in {0, 59}, s \in {0, 7, 60, Absent},
             f \in {Absent} \cup UNION {[1..n -> {0, 5}] : n \in 0 .. FractionDigits + 1}}
Zones  == {Absent, <<0, 0>>, <<23, 59>>, <<24, 0>>}
Stamp(d, sep, c, z, t) == [date |-> d, sep |-> sep, clock |-> c, zone |-> z, tail |-> t]
FewDates  == {<<2024, 2, 29>>, <<2023, 2, 29>>}
FewClocks == {ClockText(7, 32, Absent, Absent), ClockText(7, 32, 0, <<5>>), ClockText(7, 61, 0, Absent)}
Seps      == {"T", "t", "space", "other"}
MCStamps ==
  {Stamp(d, "none", Absent, Absent, t) : d \in Dates, t \in BOOLEAN}
  \cup {Stamp(Absent, "none", c, Absent, t) : c \in Clocks, t \in BOOLEAN}
  \cup {Stamp(Absent, "none", c, z, FALSE) : c \in FewClocks, z \in Zones}
  \cup {Stamp(d, s, c, z, t) : d \in FewDates, s \in Seps, c \in FewClocks \cup {Absent}, z \in Zones, t \in BOOLEAN}

MCEdits == {<<h, 1, s, n>> : h \in {0, 24}, s \in {-1, 0, 7, 60}, n \in {-1, 0, 5, 50, 55, 100}}
=============================================================================
