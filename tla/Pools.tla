-------------------------------- MODULE Pools --------------------------------
(***************************************************************************)
(* The objects that concurrent calls take from a sync.Pool and put back:   *)
(* scratch buffers and key slices of Marshal (marshal.go), maps of a       *)
(* document (value.go), long paths of the direct binder                    *)
(* (unmarshal_direct.go).  A pool hands out any object that is in it, or a *)
(* new one, and may forget objects at any time.  A call may be made from   *)
(* inside another one, by a method of the client's types.                *)
(***************************************************************************)
EXTENDS Naturals, SequencesExt, FiniteSets

CONSTANTS Callers,
          MaxObjects,   \* objects made in a behaviour
          MaxCalls,     \* calls of each caller
          MaxNesting,   \* calls and maps a caller is inside of
          None          \* no object

ASSUME PoolsAssumption ==
  /\ MaxObjects \in Nat /\ MaxCalls \in Nat /\ MaxNesting \in Nat
  /\ None \notin Nat

VARIABLES sort,      \* [object -> its pool], for the objects made so far
          pooled,    \* [object -> how many times it is in its pool]
          dirty,     \* objects whose content has not been reset
          large,     \* buffers with more than maxMarshalSizeHint, long key slices
          stack,     \* [caller -> the calls it is inside of, the innermost last]
          calls,     \* [caller -> calls begun]
          held       \* objects that results handed to a client alias

vars == <<sort, pooled, dirty, large, stack, calls, held>>

Made    == DOMAIN sort
Top(p)  == Last(stack[p])
Busy(p) == stack[p] # << >>
Doing(p, ops) == Busy(p) /\ Top(p).op \in ops

\* The objects a call uses.
Objects(f) == ({f.buf, f.path, f.current} \cup Range(f.keys) \cup f.maps) \ {None}

Frame(op) == [op |-> op, buf |-> None, keys |-> << >>, maps |-> {},
              path |-> None, current |-> None, keeps |-> FALSE, wrote |-> {}]
-----------------------------------------------------------------------------
(* Pools *)

\* Get: one of the pool, or what New makes.
Got(o, kind) == \/ o \in Made /\ sort[o] = kind /\ pooled[o] > 0
                \/ o = Cardinality(Made) + 1 /\ o <= MaxObjects

Take(o, kind) ==
  /\ sort' = IF o \in Made THEN sort ELSE Append(sort, kind)
  /\ pooled' = IF o \in Made THEN [pooled EXCEPT ![o] = @ - 1] ELSE Append(pooled, 0)

Put(os) == pooled' = [o \in Made |-> pooled[o] + IF o \in os THEN 1 ELSE 0]

Replace(p, f) == stack' = [stack EXCEPT ![p] = Append(Front(@), f)]
Pop(p)        == stack' = [stack EXCEPT ![p] = Front(@)]

\* A collection empties a part of the pools.
Collect(o) == /\ o \in Made /\ pooled[o] > 0
              /\ pooled' = [pooled EXCEPT ![o] = @ - 1]
              /\ UNCHANGED <<sort, dirty, large, stack, calls, held>>

\* What a call does with objects it has.
Write(p, o) == /\ o \in Objects(Top(p)) \ Top(p).wrote
               /\ dirty' = dirty \cup {o}
               /\ Replace(p, [Top(p) EXCEPT !.wrote = @ \cup {o}])
               /\ UNCHANGED <<sort, pooled, large, calls, held>>

MayCall(p) == IF Busy(p) THEN Len(stack[p]) < MaxNesting ELSE calls[p] < MaxCalls
Count(p)   == calls' = [calls EXCEPT ![p] = @ + IF Busy(p) THEN 0 ELSE 1]
-----------------------------------------------------------------------------
(* Marshal and Encoder.Encode *)

\* getMarshalBuffer; op is "marshal" for marshalWithOptions, whose result is
\* handed to the caller, and "encode" for marshalToBuffer, which copies it.
BeginMarshal(p, op, o) ==
  /\ MayCall(p) /\ Got(o, "buffer") /\ Take(o, "buffer")
  /\ stack' = [stack EXCEPT ![p] = Append(@, [Frame(op) EXCEPT !.buf = o])]
  /\ dirty' = dirty \ {o}
  /\ Count(p) /\ UNCHANGED <<large, held>>

\* Writing grows a buffer past the limit of putMarshalBuffer, or a slice past
\* the one of recycleStringKeys.
Enlarge(p, o) ==
  /\ Doing(p, {"marshal", "encode"}) /\ o \in Top(p).wrote \ large
  /\ large' = large \cup {o}
  /\ UNCHANGED <<sort, pooled, dirty, stack, calls, held>>

\* sortedStringKeys: the pooled slice, cut to no elements, or a larger one.
EnterMap(p, o) ==
  /\ Doing(p, {"marshal", "encode"}) /\ Len(Top(p).keys) < MaxNesting
  /\ Got(o, "keys") /\ Take(o, "keys")
  /\ Replace(p, [Top(p) EXCEPT !.keys = Append(@, o)])
  /\ dirty' = dirty \ {o}
  /\ UNCHANGED <<large, calls, held>>

\* recycleStringKeys, deferred by encodeAnyMapDocument and writeInlineAnyMap.
LeaveMap(p) ==
  LET o == Last(Top(p).keys) IN
  /\ Doing(p, {"marshal", "encode"}) /\ Top(p).keys # << >>
  /\ Replace(p, [Top(p) EXCEPT !.keys = Front(@), !.wrote = @ \ {o}])
  /\ Put({o} \ large) /\ dirty' = dirty \ {o}
  /\ UNCHANGED <<sort, large, calls, held>>

\* Mutant of FailMarshal: the error path returns without the buffer.
FailMarshalLeaks(p) ==
  LET back == Range(Top(p).keys) \ large IN
  /\ Doing(p, {"marshal", "encode"})
  /\ Pop(p) /\ Put(back) /\ dirty' = dirty \ back
  /\ UNCHANGED <<sort, large, calls, held>>

\* marshalToBufferDirect fails: the deferred calls run, then the buffer goes
\* back and the caller gets an error.
FailMarshal(p) ==
  LET back == ({Top(p).buf} \cup Range(Top(p).keys)) \ large IN
  /\ Doing(p, {"marshal", "encode"})
  /\ Pop(p) /\ Put(back) /\ dirty' = dirty \ back
  /\ UNCHANGED <<sort, large, calls, held>>

\* Mutant of FinishMarshal: a large buffer is handed out and put back too.
FinishMarshalBoth(p) ==
  LET buf == Top(p).buf IN
  /\ Doing(p, {"marshal", "encode"}) /\ Top(p).keys = << >> /\ Pop(p)
  /\ Put({buf}) /\ dirty' = dirty \ {buf}
  /\ held' = held \cup (IF Top(p).op = "marshal" THEN {buf} \cap large ELSE {})
  /\ UNCHANGED <<sort, large, calls>>

\* A large buffer's bytes are the result of Marshal; else the result is a copy.
FinishMarshal(p) ==
  LET buf == Top(p).buf IN
  /\ Doing(p, {"marshal", "encode"}) /\ Top(p).keys = << >> /\ Pop(p)
  /\ Put({buf} \ large) /\ dirty' = dirty \ ({buf} \ large)
  /\ held' = held \cup (IF Top(p).op = "marshal" THEN {buf} \cap large ELSE {})
  /\ UNCHANGED <<sort, large, calls>>
-----------------------------------------------------------------------------
(* Unmarshal into maps *)

\* parseDocument begins with newDocumentMap; keeps: the destination's type has
\* a map or an interface, so canRecycleDocumentFor is false.
BeginTree(p, o, keeps) ==
  /\ MayCall(p) /\ Got(o, "map") /\ Take(o, "map")
  /\ stack' = [stack EXCEPT ![p] = Append(@, [Frame("tree") EXCEPT
                  !.maps = {o}, !.keeps = keeps])]
  /\ dirty' = dirty \ {o}
  /\ Count(p) /\ UNCHANGED <<large, held>>

\* ensureTableRaw, appendArrayTableRaw, parseInlineTableValue.
NewMap(p, o) ==
  /\ Doing(p, {"tree"}) /\ Cardinality(Top(p).maps) < MaxNesting
  /\ Got(o, "map") /\ Take(o, "map")
  /\ Replace(p, [Top(p) EXCEPT !.maps = @ \cup {o}])
  /\ dirty' = dirty \ {o}
  /\ UNCHANGED <<large, calls, held>>

\* An error of parseDocument: the tree is left to the collector.
FailTree(p) == /\ Doing(p, {"tree"}) /\ Pop(p)
               /\ UNCHANGED <<sort, pooled, dirty, large, calls, held>>

\* Mutant of Bind: recycleDocument whatever the destination.
BindRecycles(p) ==
  /\ Doing(p, {"tree"}) /\ Pop(p)
  /\ held' = held \cup (IF Top(p).keeps THEN Top(p).maps ELSE {})
  /\ Put(Top(p).maps)
  /\ dirty' = dirty \ Top(p).maps
  /\ UNCHANGED <<sort, large, calls>>

\* bindValue, whether it fails or not: a destination with maps may share the
\* document's; recycleDocument clears and puts every map of the others.
Bind(p) ==
  /\ Doing(p, {"tree"}) /\ Pop(p)
  /\ held' = held \cup (IF Top(p).keeps THEN Top(p).maps ELSE {})
  /\ Put(IF Top(p).keeps THEN {} ELSE Top(p).maps)
  /\ dirty' = IF Top(p).keeps THEN dirty ELSE dirty \ Top(p).maps
  /\ UNCHANGED <<sort, large, calls>>
-----------------------------------------------------------------------------
(* Unmarshal with the direct binder: paths of more than eight components *)

BeginDirect(p) ==
  /\ MayCall(p)
  /\ stack' = [stack EXCEPT ![p] = Append(@, Frame("direct"))]
  /\ Count(p) /\ UNCHANGED <<sort, pooled, dirty, large, held>>

\* parseDirectRawPath: acquireExtra at the ninth component.
LongPath(p, o) ==
  /\ Doing(p, {"direct"}) /\ Top(p).path = None
  /\ Got(o, "path") /\ Take(o, "path")
  /\ Replace(p, [Top(p) EXCEPT !.path = o])
  /\ UNCHANGED <<dirty, large, calls, held>>

\* Mutant of Release: put with its elements.
ReleaseFull(os) == Put(os \ {None}) /\ UNCHANGED dirty

\* releaseExtra: cut to no elements and put.
Release(os)     == Put(os \ {None}) /\ dirty' = dirty \ os

\* The path turns out not to be a plain one after its ninth component: nobody
\* has it any more.
DropPath(p) ==
  /\ Doing(p, {"direct"}) /\ Top(p).path # None
  /\ Replace(p, [Top(p) EXCEPT !.path = None, !.wrote = @ \ {Top(p).path}])
  /\ UNCHANGED <<sort, pooled, dirty, large, calls, held>>

\* Mutant of HeaderPath: the path that was current is put back afterwards.
HeaderPathLate(p) ==
  /\ Doing(p, {"direct"})
  /\ Release({Top(p).path})
  /\ Replace(p, [Top(p) EXCEPT !.path = None, !.current = Top(p).path])
  /\ UNCHANGED <<sort, large, calls, held>>

\* currentPath.raw.releaseExtra(); currentPath.raw = path: a header with a long
\* or a short path (also tryBindArrayOrTableHeader and quoted paths).
HeaderPath(p) ==
  /\ Doing(p, {"direct"})
  /\ Release({Top(p).current})
  /\ Replace(p, [Top(p) EXCEPT !.path = None, !.current = Top(p).path,
                               !.wrote = @ \ {Top(p).current}])
  /\ UNCHANGED <<sort, large, calls, held>>

\* A key's path is released once its value is bound or skipped.
KeyPath(p) ==
  /\ Doing(p, {"direct"}) /\ Top(p).path # None
  /\ Release({Top(p).path})
  /\ Replace(p, [Top(p) EXCEPT !.path = None, !.wrote = @ \ {Top(p).path}])
  /\ UNCHANGED <<sort, large, calls, held>>

\* The document ends or an error is returned: the path just parsed is released
\* on each error exit, the current one by the deferred call.
EndDirect(p) ==
  /\ Doing(p, {"direct"}) /\ Pop(p)
  /\ Release({Top(p).path, Top(p).current})
  /\ UNCHANGED <<sort, large, calls, held>>
-----------------------------------------------------------------------------
Init == /\ sort = << >> /\ pooled = << >> /\ dirty = {} /\ large = {}
        /\ stack = [p \in Callers |-> << >>]
        /\ calls = [p \in Callers |-> 0]
        /\ held = {}

Ends(p) == \/ LeaveMap(p) \/ FailMarshal(p) \/ FinishMarshal(p)
           \/ FailTree(p) \/ Bind(p) \/ EndDirect(p)

Next ==
  \/ \E o \in 1..MaxObjects : Collect(o)
  \/ \E p \in Callers :
       \/ Ends(p) \/ BeginDirect(p) \/ DropPath(p) \/ HeaderPath(p) \/ KeyPath(p)
       \/ \E o \in 1..MaxObjects :
            \/ Enlarge(p, o) \/ EnterMap(p, o) \/ NewMap(p, o) \/ LongPath(p, o)
            \/ \E op \in {"marshal", "encode"} : BeginMarshal(p, op, o)
            \/ \E keeps \in BOOLEAN : BeginTree(p, o, keeps)
            \/ Busy(p) /\ Write(p, o)

Spec == Init /\ [][Next]_vars
-----------------------------------------------------------------------------
(* Properties *)

InUse == UNION {UNION {Objects(stack[p][i]) : i \in DOMAIN stack[p]} : p \in Callers}

(* An object has one owner: a pool, where it is once, one call, in one of   *)
(* its roles, or the client that got it (marshal.go:109 hands out a buffer, *)
(* unmarshal.go:75 keeps maps from the pool, unmarshal_direct.go:837 and    *)
(* 877 move a path from a local to the current one).                        *)
OneOwner ==
  /\ \A o \in Made : pooled[o] <= 1 /\ (pooled[o] = 1 => o \notin InUse \cup held)
  /\ InUse \cap held = {}
  /\ \A p, q \in Callers : \A i \in DOMAIN stack[p], j \in DOMAIN stack[q] :
       (p # q \/ i # j) => Objects(stack[p][i]) \cap Objects(stack[q][j]) = {}
  /\ \A p \in Callers : \A i \in DOMAIN stack[p] :
       LET f == stack[p][i]
       IN  IsInjective(f.keys) /\ (f.path # None => f.path # f.current)

(* A call sees nothing that an earlier one left in an object: what it has   *)
(* not yet written to is empty.                                             *)
NoLeftovers ==
  \A p \in Callers : \A i \in DOMAIN stack[p] :
    Objects(stack[p][i]) \cap dirty \subseteq stack[p][i].wrote

(* What a client was given is never written to again: nothing of the        *)
(* library gets hold of it (TestMarshalReturnedBytesAreStable, 200 of       *)
(* facade_test.go, tries it with one caller and small results).             *)
HandedOutForGood == [][held \subseteq held' /\ held \cap InUse' = {}]_vars

(* A call puts back what it took on every way out, also when a value in the *)
(* middle cannot be encoded (marshal.go:106, 143, 147; the deferred calls): *)
(* its buffer and its slices unless they are too large, its paths.          *)
PutBackOnExit ==
  [][\A p \in Callers : Len(stack'[p]) < Len(stack[p]) =>
       \A o \in ({Top(p).buf, Top(p).path, Top(p).current} \cup Range(Top(p).keys)) \ {None} :
         o \in large \/ pooled'[o] = 1]_vars
=============================================================================
