------------------------------ MODULE DateTimes ------------------------------
(***************************************************************************)
(* Local dates and times of datetime_parse.go and datetime.go: what a text *)
(* of that shape is read as, and what a value is written as.  A text is a  *)
(* record of its parts, each two or four digits of the source a number.    *)
(***************************************************************************)
EXTENDS Integers, Sequences, Functions

CONSTANTS FractionDigits,  \* of a nanosecond: nine
          Absent           \* a part that is not there

\* What TLC computes and the provers do not know of powers.
ASSUME TenAssumption ==
  FractionDigits \in Nat /\ \A k \in 1 .. FractionDigits : 10 ^ k = 10 * 10 ^ (k - 1)

\* What is not there is no part, and no value.
ASSUME AbsentAssumption ==
  /\ Absent \notin Int /\ Absent \notin Seq(Int)
  /\ Absent \notin [h : Int, m : Int, s : Int \cup {Absent}, frac : Seq(Int) \cup {Absent}]
  /\ Absent \notin [h : Int, m : Int, s : Int, nanos : Int, digits : Int, hasSecond : BOOLEAN]

Second == 10 ^ FractionDigits  \* in nanoseconds

\* A text: date is <<year, month, day>>, sep what follows it, clock a ClockText, zone
\* <<hours, minutes>>, tail whether there is more.
ClockText(h, m, s, frac) == [h |-> h, m |-> m, s |-> s, frac |-> frac]
-----------------------------------------------------------------------------
isLeapYear(y) == y % 4 = 0 /\ (y % 100 # 0 \/ y % 400 = 0)

daysInMonth(y, m) == CASE m \in {1, 3, 5, 7, 8, 10, 12}  -> 31
                       [] m \in {4, 6, 9, 11}            -> 30
                       [] m = 2                          -> IF isLeapYear(y) THEN 29 ELSE 28
                       [] OTHER                          -> 0

validateDate(d) == d[1] <= 9999 /\ d[2] \in 1..12 /\ d[3] \in 1..daysInMonth(d[1], d[2])

validateLocalClock(c) ==
  /\ c.h \in 0 .. 23 /\ c.m \in 0 .. 59 /\ c.s \in 0 .. 59 /\ c.nanos \in 0 .. Second - 1
  /\ c.digits <= FractionDigits
  /\ c.digits = 0 => c.nanos = 0

\* Mutant: the digits are taken for a number of nanoseconds.
nanosecondsUnscaled(frac) ==
  IF frac = Absent THEN 0
  ELSE SumFunction([i \in DOMAIN frac |-> frac[i] * 10 ^ (Len(frac) - i)])

nanoseconds(frac) ==
  IF frac = Absent THEN 0
  ELSE SumFunction([i \in DOMAIN frac |-> frac[i] * 10 ^ (FractionDigits - i)])

\* parseClockSubseconds: seconds may be missing, and a fraction behind them.
Subseconds(t) == /\ t.s = Absent => t.frac = Absent
                 /\ t.frac # Absent => Len(t.frac) \in 1..FractionDigits

\* parseTimePrefix, for a text with Subseconds.
Clock(t) ==
  [h |-> t.h, m |-> t.m, s |-> IF t.s = Absent THEN 0 ELSE t.s,
   nanos |-> nanoseconds(t.frac), digits |-> IF t.frac = Absent THEN 0 ELSE Len(t.frac),
   hasSecond |-> t.s # Absent]

\* dateTimeShape.  A zone is anything that starts as one does; what stands in the way of
\* that is a tail.
Shape(t) ==
  CASE t.date # Absent /\ t.sep = "none"               -> "date"
    [] t.date # Absent /\ t.sep \in {"T", "t", "space"} ->
         IF t.zone # Absent THEN "offset" ELSE "datetime"
    [] t.date = Absent /\ t.clock # Absent             -> "time"
    [] OTHER                                           -> "invalid"

\* parseZone: Z or z is <<0, 0>>.
ZoneOK(z) == z[1] <= 23 /\ z[2] <= 59

\* parseDateTimeValue, and the values of parseLocalDateTime, parseLocalDate and
\* parseLocalTime.
Parses(t) ==
  /\ Shape(t) # "invalid" /\ ~t.tail
  /\ t.date # Absent => validateDate(t.date)
  /\ Shape(t) # "date" => /\ t.clock # Absent /\ Subseconds(t.clock)
                          /\ validateLocalClock(Clock(t.clock))
  /\ Shape(t) = "offset" => ZoneOK(t.zone)
  /\ Shape(t) \in {"date", "time"} => t.zone = Absent
Parsed(t) ==
  [date |-> t.date, zone |-> t.zone,
   clock |-> IF t.clock = Absent THEN Absent ELSE Clock(t.clock)]

\* MarshalText and appendLocal*: an error, or appendDate, 'T' and appendTime.
Marshals(v) == /\ v.date # Absent => validateDate(v.date)
               /\ v.clock # Absent => validateLocalClock(v.clock)

appendTime(c) ==
  ClockText(c.h, c.m, IF c.hasSecond THEN c.s ELSE Absent,
            IF c.hasSecond /\ c.digits > 0
            THEN [i \in 1..c.digits |-> (c.nanos \div 10 ^ (FractionDigits - i)) % 10]
            ELSE Absent)

Marshalled(v) ==
  [date |-> v.date, zone |-> v.zone, tail |-> FALSE,
   sep |-> IF v.date # Absent /\ v.clock # Absent THEN "T" ELSE "none",
   clock |-> IF v.clock = Absent THEN Absent ELSE appendTime(v.clock)]
=============================================================================
