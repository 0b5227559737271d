---------------------------- MODULE MarkerStack ----------------------------
(***************************************************************************)
(* What the token reader needs of its stack of open containers: an opener  *)
(* pushes its marker, a closer pops the innermost container if and only if *)
(* it is of its own kind, and the reader can ask whether the innermost is  *)
(* an array.                                                               *)
(***************************************************************************)
EXTENDS Sequences, SequencesExt

CONSTANTS Markers, Array

VARIABLES
  stack,
  asked,   \* the last request
  answer   \* the last answer to "is it an array?"

svars == <<stack, asked, answer>>

Asked(op, c) == [op |-> op, marker |-> c]

Innermost(c) == stack # << >> /\ Last(stack) = c

Init == stack = << >> /\ asked = Asked("ask", Array) /\ answer = FALSE

Push(c) == /\ asked' = Asked("push", c)
           /\ stack' = Append(stack, c)
           /\ UNCHANGED answer

Pop(want) == /\ asked' = Asked("pop", want)
             /\ stack' = IF Innermost(want) THEN Front(stack) ELSE stack
             /\ UNCHANGED answer

Ask == /\ asked' = Asked("ask", Array)
       /\ answer' = Innermost(Array)
       /\ UNCHANGED stack

Next == Ask \/ \E c \in Markers : Push(c) \/ Pop(c)

Spec == Init /\ [][Next]_svars

=============================================================================
