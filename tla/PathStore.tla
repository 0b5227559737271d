---------------------------- MODULE PathStore ----------------------------
(***************************************************************************)
(* What the editing calls of a Document promise the program that makes     *)
(* them, with no bytes, spans or edit lists in sight: a store of values by *)
(* path.                                                                   *)
(***************************************************************************)
CONSTANTS
  Paths,       \* the paths a caller can name
  Values,      \* the values a caller can store
  None         \* no value

VARIABLES
  inSource,    \* the paths the parsed document assigns
  store,       \* what Get answers for each path
  answer       \* history: the last call, and for Get what it found

svars == <<inSource, store, answer>>

Call(op, p, v) == [op |-> op, path |-> p, value |-> v]

TypeOK == store \in [Paths -> Values \cup {None}] /\ inSource \subseteq Paths

Init == TypeOK /\ answer = Call("parse", << >>, None)

\* Reading answers what is stored and changes nothing.
Get(p) ==
  /\ answer' = Call("get", p, store[p])
  /\ UNCHANGED <<inSource, store>>

\* A call that is refused leaves the store as it was, whatever it was asked to do.
Refuse ==
  /\ answer' = Call("refused", << >>, None)
  /\ UNCHANGED <<inSource, store>>

Set(p, v) ==
  /\ answer' = Call("set", p, v)
  /\ store' = [store EXCEPT ![p] = v]
  /\ UNCHANGED inSource

\* An insertion of a path the source assigns is accepted but never seen.
Insert(p, v) ==
  /\ answer' = Call("insert", p, v)
  /\ store' = IF p \in inSource THEN store ELSE [store EXCEPT ![p] = v]
  /\ UNCHANGED inSource

Delete(p) ==
  /\ p \in inSource \/ store[p] # None
  /\ answer' = Call("delete", p, None)
  /\ store' = [store EXCEPT ![p] = None]
  /\ UNCHANGED inSource

Next ==
  \/ Refuse
  \/ \E p \in Paths : Get(p) \/ Delete(p) \/ \E v \in Values : Set(p, v) \/ Insert(p, v)

Spec == Init /\ [][Next]_svars

=============================================================================
