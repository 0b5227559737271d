--------------------------- MODULE ContainerStack ---------------------------
(***************************************************************************)
(* The stack of open containers as decoder.go stores it: the first markers *)
(* in a fixed array inside the Decoder, the ones beyond its capacity in a  *)
(* slice.  Popping leaves old markers in the array, above the depth.       *)
(***************************************************************************)
EXTENDS Integers, Sequences, SequencesExt

CONSTANTS
  Capacity,  \* len(containerStack)
  Markers,   \* containerArray and containerInline
  Array,     \* containerArray
  Unused,    \* the zero byte of a slot never written
  MaxDepth   \* bound on the depth

ASSUME CapacityAssumption == Capacity \in Nat \ {0}
ASSUME MarkersAssumption == Array \in Markers /\ Unused \notin Markers
ASSUME BoundAssumption == MaxDepth \in Nat

VARIABLES
  containerStack, containerDepth, containerExtra,
  asked,   \* history: the last request
  answer   \* what innermostIsArray last answered

storage == <<containerStack, containerDepth, containerExtra>>
vars    == <<containerStack, containerDepth, containerExtra, asked, answer>>

Asked(op, c) == [op |-> op, marker |-> c]

\* The marker pushed i-th of those still there.
Slot(i) == IF i <= Capacity THEN containerStack[i] ELSE containerExtra[i - Capacity]

Innermost(c) == containerDepth # 0 /\ Slot(containerDepth) = c

Spilled(c) == Append(containerExtra, c)

pushContainer(c) ==
  /\ containerDepth < MaxDepth
  /\ asked' = Asked("push", c)
  /\ \/ /\ containerDepth < Capacity
        /\ containerStack' = [containerStack EXCEPT ![containerDepth + 1] = c]
        /\ UNCHANGED containerExtra
     \/ /\ containerDepth >= Capacity
        /\ containerExtra' = Spilled(c)
        /\ UNCHANGED containerStack
  /\ containerDepth' = containerDepth + 1
  /\ UNCHANGED answer

\* Mutants: the slice keeps its last marker; a closer pops whatever is innermost.
PoppedKeepsSpill ==
  /\ containerDepth' = containerDepth - 1
  /\ UNCHANGED <<containerStack, containerExtra>>
MatchesAny(want) == containerDepth # 0

Popped ==
  /\ containerExtra' = IF containerDepth <= Capacity THEN containerExtra
                       ELSE SubSeq(containerExtra, 1, containerDepth - 1 - Capacity)
  /\ containerDepth' = containerDepth - 1
  /\ UNCHANGED containerStack

Matches(want) == Innermost(want)

\* A closer that does not match leaves the depth and the slice untouched.
popContainer(want) ==
  /\ asked' = Asked("pop", want)
  /\ \/ Matches(want) /\ Popped
     \/ ~Matches(want) /\ UNCHANGED storage
  /\ UNCHANGED answer

innermostIsArray ==
  /\ asked' = Asked("ask", Array)
  /\ answer' = Innermost(Array)
  /\ UNCHANGED storage

Init ==
  /\ containerStack = [i \in 1 .. Capacity |-> Unused]
  /\ containerDepth = 0
  /\ containerExtra = << >>
  /\ asked = Asked("ask", Array)
  /\ answer = FALSE

Next == innermostIsArray \/ \E c \in Markers : pushContainer(c) \/ popContainer(c)

Spec == Init /\ [][Next]_vars

-----------------------------------------------------------------------------
(* Properties.                                                             *)

TypeOK ==
  /\ containerStack \in [1 .. Capacity -> Markers \cup {Unused}]
  /\ containerDepth \in Nat
  /\ containerExtra \in Seq(Markers)
  /\ answer \in BOOLEAN

\* The slice holds exactly the markers that do not fit the array, and no slot below the
\* depth was left unwritten: an index into either is always in range.
Spill ==
  /\ Len(containerExtra) = IF containerDepth > Capacity THEN containerDepth - Capacity ELSE 0
  /\ \A i \in 1 .. containerDepth : Slot(i) \in Markers

\* The array, the slice and the depth together are one stack of markers, whatever old
\* markers lie above the depth.
Markered == [i \in 1 .. containerDepth |-> Slot(i)]
Abstract == INSTANCE MarkerStack WITH stack <- Markered
StackSpec == Abstract!Spec

=============================================================================
