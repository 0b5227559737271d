------------------------------ MODULE Literals ------------------------------
(***************************************************************************)
(* A value that is neither a string nor a container: scanBareValueEnd and  *)
(* classifyBareValue of decoder.go, the number literals of value.go, and,  *)
(* through DateTimes, local dates and times.  A behaviour is one value: a  *)
(* number of the source digit by digit, or a date or time that is read,    *)
(* perhaps edited by the program, written and read again.                  *)
(*                                                                         *)
(* Integers are Width bits wide instead of 64, and floats less than        *)
(* 10 ^ FloatPower instead of 2 ^ 1024 - 2 ^ 970, from where float64 has   *)
(* only infinity.                                                          *)
(***************************************************************************)
EXTENDS DateTimes, FiniteSets

CONSTANTS Numbers,  \* sequences of characters
          Stamps,   \* texts in the sense of DateTimes
          Edits,    \* what a program assigns to the public fields of a time
          Width,
          FloatPower

Modulus      == 2 ^ Width
MinMagnitude == 2 ^ (Width - 1)

\* What TLC computes and the provers do not know of powers.
ASSUME WidthAssumption == MinMagnitude \in Nat \ {0} /\ Modulus = 2 * MinMagnitude

Underscore == "_"

\* numericDigitValue
DigitValue == [c \in {"0", "1", "2", "3", "4", "5", "6", "7", "8", "9",
                      "a", "b", "c", "d", "e", "f", "A", "B", "C", "D", "E", "F"} |->
                 CASE c = "0" -> 0 [] c = "1" -> 1 [] c = "2" -> 2 [] c = "3" -> 3 [] c = "4" -> 4
                   [] c = "5" -> 5 [] c = "6" -> 6 [] c = "7" -> 7 [] c = "8" -> 8 [] c = "9" -> 9
                   [] c \in {"a", "A"} -> 10 [] c \in {"b", "B"} -> 11 [] c \in {"c", "C"} -> 12
                   [] c \in {"d", "D"} -> 13 [] c \in {"e", "E"} -> 14 [] c \in {"f", "F"} -> 15]
DigitsOf(base) == {c \in DOMAIN DigitValue : DigitValue[c] < base}
BaseOf == [c \in {"b", "o", "x", "B", "O", "X"} |->
               CASE c \in {"b", "B"} -> 2 [] c \in {"o", "O"} -> 8 [] c \in {"x", "X"} -> 16]

VARIABLES text,     \* what is read: [chars |-> characters] or a stamp
          pc,       \* "bare", "digits", "value", "written", "done"
          negative, base, limit,  \* of the integer being read
          rest,     \* its characters not yet read
          sawDigit, u,
          exact,    \* what the digits read so far mean
          outcome,  \* "none", "integer", "float", "datetime" or "malformed"
          value     \* the integer, or the date and time

number == <<negative, base, limit, rest, sawDigit, u, exact>>
vars   == <<text, pc, number, outcome, value>>
-----------------------------------------------------------------------------
(* The characters of a number                                              *)

Signed(t)   == t # << >> /\ t[1] \in {"+", "-"}
Unsigned(t) == IF Signed(t) THEN Tail(t) ELSE t
From(n, i)  == SubSeq(n, i, Len(n))

\* hasValidNumberUnderscores, prefixedDigitsValid: every underscore is between digits.
Underscored(n, digits) ==
  n # << >> /\ \A i \in DOMAIN n : n[i] = Underscore =>
    i \in 2 .. Len(n) - 1 /\ {n[i - 1], n[i + 1]} \subseteq digits

Prefixed(n)  == Len(n) > 2 /\ n[1] = "0" /\ n[2] \in DOMAIN BaseOf
ZeroLed(n)   == Len(n) > 1 /\ n[1] = "0" /\ n[2] \in DigitsOf(10) \cup {Underscore}
OnlyOf(n, s) == \A i \in DOMAIN n : n[i] \in s

isIntCandidate(t) ==
  LET n == Unsigned(t) IN
  /\ n # << >>
  /\ IF Prefixed(n)
     THEN LET digits == DigitsOf(BaseOf[n[2]]) IN
          ~Signed(t) /\ OnlyOf(From(n, 3), digits \cup {Underscore}) /\ Underscored(From(n, 3), digits)
     ELSE ~ZeroLed(n) /\ OnlyOf(n, DigitsOf(10) \cup {Underscore}) /\ Underscored(n, DigitsOf(10))

hasCapitalNumericPrefix(t) == LET n == Unsigned(t) IN Len(n) > 1 /\ n[1] = "0" /\ n[2] \in {"B", "O", "X"}

isFloatCandidate(t) ==
  LET n == Unsigned(t)
      At(s) == {i \in DOMAIN n : n[i] \in s}
  IN  /\ n # << >> /\ ~ZeroLed(n)
      /\ OnlyOf(n, DigitsOf(10) \cup {".", "e", "E", "+", "-", Underscore})
      /\ \A i \in At({"."}) : i \in 2 .. Len(n) - 1 /\ n[i + 1] \in DigitsOf(10)
      /\ \A i, j \in At({"."}) : i = j
      /\ \A i, j \in At({"e", "E"}) : i = j
      /\ \A i \in At({"+", "-"}) : i > 1 /\ n[i - 1] \in {"e", "E"}
      /\ At({".", "e", "E"}) # {}
      /\ Underscored(n, DigitsOf(10))

\* What strconv.ParseFloat takes for a float, of the texts that isFloatCandidate lets pass:
\* digits, perhaps with a point among them, and perhaps an exponent of at least one digit,
\* all without regard to underscores.
FloatShape(t) ==
  LET n == Unsigned(t)
      digits == DigitsOf(10) \cup {Underscore}
      Mantissa(m) == OnlyOf(m, digits \cup {"."}) /\ \E i \in DOMAIN m : m[i] \in DigitsOf(10)
      Exponent(e) == e # << >> /\ LET d == Unsigned(e) IN d # << >> /\ OnlyOf(d, digits)
  IN  \/ Mantissa(n)
      \/ \E i \in DOMAIN n : /\ n[i] \in {"e", "E"}
                             /\ Mantissa(SubSeq(n, 1, i - 1)) /\ Exponent(From(n, i + 1))

\* What digits denote, place by place.
Places(n, b) ==
  LET digits == {i \in DOMAIN n : n[i] # Underscore}
      Place(i) == Cardinality({j \in digits : j > i})
  IN  SumFunction([i \in digits |-> DigitValue[n[i]] * b ^ Place(i)])

\* strconv.ParseFloat reports ErrRange for a number that float64 has no room for: some digit
\* of it that is not zero stands too far before the point, once the exponent has moved it.
\* What is too small to tell from zero is zero.
OutOfRange(t) ==
  LET n == Unsigned(t)
      marks == {i \in DOMAIN n : n[i] \in {"e", "E"}}
      stop  == IF marks = {} THEN Len(n) + 1 ELSE CHOOSE i \in marks : TRUE
      dots  == {i \in DOMAIN n : n[i] = "."}
      point == IF dots = {} THEN stop ELSE CHOOSE i \in dots : TRUE
      power == From(n, stop + 1)
      moved == IF marks = {} THEN 0
               ELSE (IF power[1] = "-" THEN -1 ELSE 1) * Places(Unsigned(power), 10)
      Count(from, to) == Cardinality({j \in from .. to : n[j] # Underscore})
      Place(i) == IF i < point THEN Count(i + 1, point - 1) ELSE -Count(point + 1, i)
  IN  \E i \in 1 .. stop - 1 : /\ n[i] \in DigitsOf(10) \ {"0"}
                              /\ Place(i) + moved >= FloatPower

ParsesFloat(t) == FloatShape(t) /\ ~OutOfRange(t)
-----------------------------------------------------------------------------
(* Numbers                                                                 *)

IsStamp(t) == "date" \in DOMAIN t

\* A number is a text; a date or time has the parts of one, with nothing behind a date that
\* nothing follows, and a fraction of digits.
ASSUME TextsAssumption ==
  /\ Numbers \subseteq Seq(STRING)
  /\ \A t \in Stamps :
       /\ DOMAIN t = {"date", "sep", "clock", "zone", "tail"}
       /\ t.date # Absent /\ t.sep = "none" => t.clock = Absent
       /\ t.clock # Absent => t.clock.frac \in Seq(0 .. 9) \cup {Absent}

\* The public fields of a time are ints.
ASSUME EditsAssumption == Edits \subseteq [1 .. 4 -> Int]

\* What TLC computes and the provers do not know of powers.
ASSUME PlacesAssumption ==
  \A t \in Numbers : isIntCandidate(t) =>
    LET n == Unsigned(t)
        b == IF Prefixed(n) THEN BaseOf[n[2]] ELSE 10
    IN  \A k \in 1 .. Len(n) : b ^ k = b * b ^ (k - 1)

Reject == /\ outcome' = "malformed" /\ pc' = "done"
          /\ UNCHANGED <<text, number, value>>

\* Mutant: negative numbers have the limit of positive ones.
LimitSymmetric(neg) == MinMagnitude - 1

Limit(neg) == IF neg THEN MinMagnitude ELSE MinMagnitude - 1

\* parseIntegerLiteral up to its call of parseUintLiteralDigits.
BeginInteger ==
  LET n == Unsigned(text.chars) IN
  /\ negative' = (text.chars[1] = "-")
  /\ limit' = Limit(negative')
  /\ base' = IF Prefixed(n) THEN BaseOf[n[2]] ELSE 10
  /\ rest' = IF Prefixed(n) THEN From(n, 3) ELSE n
  /\ sawDigit' = FALSE /\ u' = 0 /\ exact' = 0
  /\ pc' = "digits"
  /\ UNCHANGED <<text, outcome, value>>

\* classifyBareValue; true, inf and their like are other texts.
ClassifyBareValue ==
  /\ pc = "bare" /\ ~IsStamp(text)
  /\ \/ isIntCandidate(text.chars) /\ hasCapitalNumericPrefix(text.chars) /\ Reject
     \/ isIntCandidate(text.chars) /\ ~hasCapitalNumericPrefix(text.chars) /\ BeginInteger
     \/ /\ ~isIntCandidate(text.chars) /\ isFloatCandidate(text.chars) /\ ParsesFloat(text.chars)
        /\ outcome' = "float" /\ pc' = "done"
        /\ UNCHANGED <<text, number, value>>
     \/ ~isIntCandidate(text.chars) /\ ~(isFloatCandidate(text.chars) /\ ParsesFloat(text.chars)) /\ Reject

\* Mutant: the last digit is not looked at.
OverLimitCutoff(d) == u > limit \div base

\* u * base + d > limit, without computing it.
OverLimit(d) == \/ u > limit \div base
                \/ u = limit \div base /\ d > limit % base

\* One character in the loop of parseUintLiteralDigits.
ReadDigit ==
  LET c == Head(rest)  d == DigitValue[c] IN
  /\ pc = "digits" /\ rest # << >>
  /\ \/ /\ c = Underscore
        /\ rest' = Tail(rest)
        /\ UNCHANGED <<text, pc, negative, base, limit, sawDigit, u, exact, outcome, value>>
     \/ /\ c \in DigitsOf(base) /\ ~OverLimit(d)
        /\ rest' = Tail(rest) /\ sawDigit' = TRUE
        /\ u' = (u * base + d) % Modulus
        /\ exact' = exact * base + d
        /\ UNCHANGED <<text, pc, negative, base, limit, outcome, value>>
     \/ c # Underscore /\ (c \in DigitsOf(base) => OverLimit(d)) /\ Reject

\* A uint64 as an int64.
Int64(n) == IF n >= MinMagnitude THEN n - Modulus ELSE n

\* parseIntegerLiteral after its call.
EndInteger ==
  /\ pc = "digits" /\ rest = << >>
  /\ IF ~sawDigit THEN Reject
     ELSE /\ value' = IF ~negative THEN Int64(u)
                     ELSE IF u = MinMagnitude THEN -MinMagnitude ELSE -Int64(u)
          /\ outcome' = "integer" /\ pc' = "done"
          /\ UNCHANGED <<text, number>>
-----------------------------------------------------------------------------
(* Dates and times                                                         *)

\* scanBareValueEnd takes the text behind a date and a space with it only if both are a
\* date and time together.
BareValue(t) == IF t.date # Absent /\ t.sep = "space" /\ ~Parses(t)
                THEN [t EXCEPT !.sep = "none", !.clock = Absent, !.zone = Absent, !.tail = FALSE]
                ELSE t

\* A local date or time, as one of the four types.
ReadStamp ==
  /\ pc = "bare" /\ IsStamp(text)
  /\ LET t == BareValue(text) IN
     \/ ~Parses(t) /\ Reject
     \/ /\ Parses(t)
        /\ value' = Parsed(t)
        /\ outcome' = "datetime"
        /\ pc' = IF t.zone = Absent THEN "value" ELSE "done"
        /\ UNCHANGED <<text, number>>

\* The program assigns to Hour, Minute, Second and Nanosecond of what it read, or of a
\* value of its own.
Assign ==
  /\ pc = "value" /\ value.clock # Absent /\ outcome = "datetime"
  /\ \E e \in Edits :
       /\ value' = [value EXCEPT !.clock.h = e[1], !.clock.m = e[2],
                                 !.clock.s = e[3], !.clock.nanos = e[4]]
       /\ outcome' = "edited"
  /\ UNCHANGED <<text, pc, number>>

\* MarshalText.
WriteStamp ==
  /\ pc = "value"
  /\ \/ ~Marshals(value) /\ Reject
     \/ /\ Marshals(value)
        /\ text' = Marshalled(value) /\ pc' = "written"
        /\ UNCHANGED <<number, outcome, value>>

\* The variables of a number have no meaning before there is one.
Init == /\ text \in {[chars |-> n] : n \in Numbers} \cup Stamps
        /\ pc = "bare" /\ outcome = "none" /\ value = Absent
        /\ negative = FALSE /\ base = 10 /\ limit = 0 /\ rest = << >>
        /\ sawDigit = FALSE /\ u = 0 /\ exact = 0

Next == ClassifyBareValue \/ ReadDigit \/ EndInteger \/ ReadStamp \/ Assign \/ WriteStamp

Spec == Init /\ [][Next]_vars
-----------------------------------------------------------------------------
(* Properties                                                              *)

(* The cut-off test of parseUintLiteralDigits keeps the accumulator within *)
(* the limit and out of the wrap of 64 bits: it is what the digits mean.   *)
NoWrap == pc = "digits" => u = exact /\ u <= limit

\* Integers and floats by the grammar of TOML.
TomlDigits(n, digits) ==
  /\ n # << >> /\ n[1] \in digits /\ n[Len(n)] \in digits /\ OnlyOf(n, digits \cup {Underscore})
  /\ \A i \in 1 .. Len(n) - 1 : n[i] \in digits \/ n[i + 1] \in digits
TomlDecimal(n) == TomlDigits(n, DigitsOf(10)) /\ (n[1] = "0" => Len(n) = 1)
TomlInteger(t) ==
  LET n == Unsigned(t) IN
  \/ TomlDecimal(n)
  \/ /\ ~Signed(t) /\ Prefixed(n) /\ n[2] \in {"b", "o", "x"}
     /\ TomlDigits(From(n, 3), DigitsOf(BaseOf[n[2]]))
TomlExponent(e) == /\ e # << >> /\ e[1] \in {"e", "E"}
                   /\ TomlDigits(Unsigned(Tail(e)), DigitsOf(10))
TomlFloat(t) ==
  LET n == Unsigned(t) IN
  \E i \in DOMAIN n : /\ TomlDecimal(SubSeq(n, 1, i - 1))
                      /\ \/ TomlExponent(From(n, i))
                         \/ /\ n[i] = "."
                            /\ \E j \in i + 1 .. Len(n) + 1 :
                                 /\ TomlDigits(SubSeq(n, i + 1, j - 1), DigitsOf(10))
                                 /\ j <= Len(n) => TomlExponent(From(n, j))

\* What an integer denotes.
Denoted(t) ==
  LET n == Unsigned(t) IN
  IF Prefixed(n) THEN Places(From(n, 3), BaseOf[n[2]])
  ELSE (IF t[1] = "-" THEN -1 ELSE 1) * Places(n, 10)
Representable(t) == Denoted(t) \in -MinMagnitude .. MinMagnitude - 1

(* The recognisers, the prefixes and signs and the asymmetric limit of      *)
(* classifyBareValue and parseIntegerLiteral taken together accept what     *)
(* TOML calls a number, as what it is, and give an integer its exact value; *)
(* an integer or a float is refused only when it does not fit.              *)
NumbersExact ==
  pc = "done" /\ ~IsStamp(text) =>
    /\ outcome = CASE TomlInteger(text.chars) /\ Representable(text.chars) -> "integer"
                   [] TomlFloat(text.chars) /\ ~OutOfRange(text.chars) -> "float"
                   [] OTHER                                           -> "malformed"
    /\ outcome = "integer" => value = Denoted(text.chars)

\* What a time cannot be written with: seconds in one that was read without, and digits
\* of a fraction behind those it was read with (appendTime).
Dropped(c) == \/ ~c.hasSecond /\ c.s # 0
              \/ c.nanos % 10 ^ (FractionDigits - c.digits) # 0

(* What MarshalText writes is taken by scanBareValueEnd and classifyBareValue *)
(* as one value and read as the same date and time, the precision and the     *)
(* missing seconds included (datetime.go:27: the fraction's precision is      *)
(* preserved).  Edited times lose what their precision has no room for.       *)
StampsKept ==
  pc = "written" =>
    \/ value.clock # Absent /\ outcome = "edited" /\ Dropped(value.clock)
    \/ Parses(BareValue(text)) /\ Parsed(BareValue(text)) = value
=============================================================================
