----------------------------- MODULE TypeCaches -----------------------------
(***************************************************************************)
(* The tables that concurrent callers of Marshal and Unmarshal share: what *)
(* is known about a type (internal/reflectcache, unmarshal_direct.go,      *)
(* unmarshal.go, marshal.go) and the time zone of an offset                *)
(* (datetime_parse.go).  An entry is looked up, computed without a lock if *)
(* it is missing, and published with LoadOrStore or a compare and swap.    *)
(* The computations call each other, so a caller is a stack of frames.     *)
(***************************************************************************)
EXTENDS Naturals, SequencesExt, FiniteSets

CONSTANTS Callers,
          Types, Kind,     \* [Types -> "struct" | "badtag" | "list" | "map" | "interface" | "scalar"]
          Parts,           \* [Types -> Seq(Types)]: fields, or the element
          Exported,        \* the same with the fields that toml:"-" leaves out
          Roots,           \* the destination and source types of the calls
          Offset,          \* a zone offset, as it occurs in documents
          Inside,          \* [Types -> Types]: the type below lists
          MaxCalls,        \* calls of each caller
          MaxDepth         \* frames that fit on a goroutine's stack

ASSUME TypesAssumption ==
  /\ Kind \in [Types -> {"struct", "badtag", "list", "map", "interface", "scalar"}]
  /\ Parts \in [Types -> Seq(Types)] /\ Exported \in [Types -> Seq(Types)]
  /\ \A t \in Types : Kind[t] = "list" => Len(Parts[t]) = 1 /\ Exported[t] = Parts[t]
  /\ Inside \in [Types -> Types]
  /\ \A t \in Types : Inside[t] = IF Kind[t] = "list" THEN Inside[Head(Parts[t])] ELSE t
  /\ Roots \subseteq Types /\ Offset \notin Types
  /\ MaxDepth \in Nat \ {0, 1, 2}

VARIABLES table,    \* [cache -> [type -> entry]]
          stack,    \* [caller -> its frames, the innermost last]
          ret,      \* [caller -> what the last frame returned]
          calls,    \* [caller -> calls begun]
          crashed,  \* a goroutine's stack overflowed, which ends the program
          \* History that no guard reads.
          handed,   \* the entries lookups answered: <<cache, type, entry>>
          outcomes  \* how calls ended: <<operation, root, outcome>>

vars == <<table, stack, ret, calls, crashed, handed, outcomes>>

Caches == {"info", "direct", "eligible", "filter", "special", "zone"}

IsStruct(t) == Kind[t] \in {"struct", "badtag"}
Composed(t) == IsStruct(t) \/ Kind[t] = "list"
Missing     == [entry |-> "none"]
Failed      == [error |-> "tag option"]
NoFilter    == [every |-> "key"]      \* the nil filter restricts nothing
Verdict(b)  == [direct |-> b]         \* whether a type binds directly
Reuse(b)    == [reuse |-> b]          \* whether a document's maps may be recycled
-----------------------------------------------------------------------------
(* Frames *)

\* pc: where the frame is; todo: the calls of directTypeContainsMap under way,
\* the innermost last; seen: structs visited; got: what the callees returned.
Frame(cache, type) == [cache |-> cache, type |-> type, pc |-> "load",
                       todo |-> << >>, seen |-> {}, got |-> << >>]

Entry(c, t) == table[c][t]
Top(p)  == Last(stack[p])
Busy(p) == stack[p] # << >>
At(p, cache, pc) == /\ ~crashed /\ Busy(p)
                    /\ Top(p).cache \in cache /\ Top(p).pc = pc

\* An object built by a caller, told apart from every other one.
Me(p) == <<p, calls[p]>>

Become(p, frame) == /\ stack' = [stack EXCEPT ![p] = Append(Front(@), frame)]
                    /\ UNCHANGED <<table, ret, calls, crashed, handed, outcomes>>

\* There is room for one more call when the innermost frame is this one.
Room(p, frame) == Len(stack[p]) + Len(frame.todo) < MaxDepth
Overflow == crashed' = TRUE /\ UNCHANGED <<table, stack, ret, calls, handed, outcomes>>

\* The frame goes on as frame once the callee has returned.
Call(p, frame, callee) ==
  IF Room(p, frame)
  THEN /\ stack' = [stack EXCEPT ![p] = Append(Append(Front(@), frame), callee)]
       /\ UNCHANGED <<table, ret, calls, crashed, handed, outcomes>>
  ELSE Overflow

Leave(p, value) == /\ stack' = [stack EXCEPT ![p] = Front(@)]
                   /\ ret' = [ret EXCEPT ![p] = value]
                   /\ UNCHANGED <<calls, crashed, outcomes>>

\* The frame returns a value that is no entry of its table.
Return(p, value) == Leave(p, value) /\ UNCHANGED <<table, handed>>

Answer(p, value) ==
  /\ Leave(p, value)
  /\ handed' = handed \cup {<<Top(p).cache, Top(p).type, value>>}

\* Mutants of Publish: the value that was built is answered although another
\* one was stored before; it replaces the stored one.
PublishOwn(p, value) ==
  LET c == Top(p).cache  t == Top(p).type IN
  /\ table' = [table EXCEPT ![c][t] = IF @ = Missing THEN value ELSE @]
  /\ Answer(p, value)
PublishOver(p, value) ==
  /\ table' = [table EXCEPT ![Top(p).cache][Top(p).type] = value]
  /\ Answer(p, value)

\* LoadOrStore; CompareAndSwap(nil, loc), and Load when it fails.
Publish(p, value) ==
  LET c == Top(p).cache  t == Top(p).type IN
  /\ table' = [table EXCEPT ![c][t] = IF @ = Missing THEN value ELSE @]
  /\ Answer(p, table'[c][t])
-----------------------------------------------------------------------------
(* The computations *)

Hit(p) == /\ At(p, Caches, "load") /\ Entry(Top(p).cache, Top(p).type) # Missing
          /\ Answer(p, Entry(Top(p).cache, Top(p).type))
          /\ UNCHANGED table

Miss(p, cache) == At(p, {cache}, "load") /\ Entry(cache, Top(p).type) = Missing

\* reflectcache.Lookup: build refuses unknown tag options and stores nothing.
LookupBuild(p) ==
  /\ Miss(p, "info")
  /\ IF Kind[Top(p).type] = "badtag" THEN Return(p, Failed)
     ELSE Become(p, [Top(p) EXCEPT !.pc = "store"])
LookupStore(p) == At(p, {"info"}, "store") /\ Publish(p, [by |-> Me(p)])

\* lookupDirectTypeInfo: the metadata and the kind of each field.
DirectInfo(p)  == /\ Miss(p, "direct")
                  /\ Call(p, [Top(p) EXCEPT !.pc = "info"], Frame("info", Top(p).type))
DirectStore(p) == /\ At(p, {"direct"}, "info")
                  /\ IF ret[p] = Failed THEN Return(p, Failed)
                     ELSE Publish(p, [by |-> Me(p), info |-> ret[p]])

\* A call of directTypeContainsMap and the parts it has yet to look into.
Level(t) == [of |-> t, left |-> Parts[t]]

\* directStructUnmarshalEligible, which calls directTypeContainsMap.
EligibleMiss(p) ==
  LET f == Top(p) IN
  /\ Miss(p, "eligible")
  /\ Call(p, [f EXCEPT !.pc = "fields", !.seen = {f.type}, !.todo = <<Level(f.type)>>],
             Frame("info", f.type))

Walking(p) == At(p, {"eligible"}, "walk") /\ Top(p).todo # << >>

\* Mutant of WalkVisit: a struct that was seen counts as one with a map.
WalkVisitSeen(p) ==
  LET f    == Top(p)
      l    == Last(f.todo)
      t    == Head(l.left)
      rest == Append(Front(f.todo), [l EXCEPT !.left = Tail(@)])
      into == Append(rest, Level(t))
  IN  /\ Walking(p) /\ l.left # << >>
      /\ IF ~Room(p, f) THEN Overflow
         ELSE CASE Kind[t] = "map" \/ (IsStruct(t) /\ t \in f.seen) ->
                     Become(p, [f EXCEPT !.pc = "found"])
                [] IsStruct(t) /\ t \notin f.seen ->
                     Call(p, [f EXCEPT !.pc = "fields", !.seen = @ \cup {t}, !.todo = into],
                          Frame("info", t))
                [] Kind[t] = "list" -> Become(p, [f EXCEPT !.todo = into])
                [] OTHER -> Become(p, [f EXCEPT !.todo = rest])

WalkVisit(p) ==
  LET f    == Top(p)
      l    == Last(f.todo)
      t    == Head(l.left)
      rest == Append(Front(f.todo), [l EXCEPT !.left = Tail(@)])
      into == Append(rest, Level(t))
  IN  /\ Walking(p) /\ l.left # << >>
      /\ IF ~Room(p, f) THEN Overflow
         ELSE CASE Kind[t] = "map" -> Become(p, [f EXCEPT !.pc = "found"])
                [] IsStruct(t) /\ t \notin f.seen ->
                     Call(p, [f EXCEPT !.pc = "fields", !.seen = @ \cup {t}, !.todo = into],
                          Frame("info", t))
                [] Kind[t] = "list" -> Become(p, [f EXCEPT !.todo = into])
                [] OTHER -> Become(p, [f EXCEPT !.todo = rest])

WalkFields(p) ==
  /\ At(p, {"eligible"}, "fields")
  /\ IF ret[p] = Failed THEN Return(p, Failed)
     ELSE Become(p, [Top(p) EXCEPT !.pc = "walk"])
WalkReturn(p) ==
  /\ Walking(p) /\ Last(Top(p).todo).left = << >>
  /\ Become(p, [Top(p) EXCEPT !.todo = Front(@)])

EligibleStore(p) ==
  \/ At(p, {"eligible"}, "found") /\ Publish(p, Verdict(FALSE))
  \/ At(p, {"eligible"}, "walk") /\ Top(p).todo = << >> /\ Publish(p, Verdict(TRUE))

\* Mutant of FilterMiss: the filter looks into the elements of maps.
FilterMissMap(p) ==
  LET f == Top(p)  t == f.type IN
  /\ Miss(p, "filter")
  /\ CASE Kind[t] \in {"list", "map"} ->
            Call(p, [f EXCEPT !.pc = "element"], Frame("filter", Head(Parts[t])))
       [] IsStruct(t) -> Call(p, [f EXCEPT !.pc = "info"], Frame("info", t))
       [] OTHER       -> Return(p, NoFilter)

\* newDecodeFilter: a struct's filter is stored once its fields' are there, a
\* list has the filter of its element.
FilterMiss(p) ==
  LET f == Top(p)  t == f.type IN
  /\ Miss(p, "filter")
  /\ CASE Kind[t] = "list" -> Call(p, [f EXCEPT !.pc = "element"], Frame("filter", Head(Parts[t])))
       [] IsStruct(t)      -> Call(p, [f EXCEPT !.pc = "info"], Frame("info", t))
       [] OTHER            -> Return(p, NoFilter)
FilterElement(p) == At(p, {"filter"}, "element") /\ Return(p, ret[p])

\* Mutant of FilterFields: the filter is stored with its first field.
FilterFieldsFirst(p) ==
  LET f    == Top(p)
      next == IF f.pc = "info" THEN f.got ELSE Append(f.got, ret[p])
  IN  /\ \E pc \in {"info", "field"} : At(p, {"filter"}, pc)
      /\ IF ret[p] = Failed THEN Return(p, Failed)
         ELSE IF next = << >> /\ Parts[f.type] # << >>
              THEN Call(p, [f EXCEPT !.pc = "field", !.got = next],
                           Frame("filter", Head(Parts[f.type])))
              ELSE Publish(p, [by |-> Me(p), children |-> next])

FilterFields(p) ==
  LET f    == Top(p)
      next == IF f.pc = "info" THEN f.got ELSE Append(f.got, ret[p])
  IN  /\ \E pc \in {"info", "field"} : At(p, {"filter"}, pc)
      /\ IF ret[p] = Failed THEN Return(p, Failed)
         ELSE IF Len(next) < Len(Parts[f.type])
              THEN Call(p, [f EXCEPT !.pc = "field", !.got = next],
                           Frame("filter", Parts[f.type][Len(next) + 1]))
              ELSE Publish(p, [by |-> Me(p), children |-> next])

\* canRecycleDocumentFor, which keeps no record of what it computed.
Recycle(p) ==
  LET f   == Top(p)
      t   == f.type
      got == IF f.pc = "load" THEN << >> ELSE Append(f.got, ret[p])
  IN  /\ \E pc \in {"load", "field"} : At(p, {"recycle"}, pc)
      /\ IF Kind[t] \in {"map", "interface"} \/ (f.pc = "field" /\ ret[p] = Reuse(FALSE))
         THEN Return(p, Reuse(FALSE))
         ELSE IF Composed(t) /\ Len(got) < Len(Exported[t])
              THEN Call(p, [f EXCEPT !.pc = "field", !.got = got],
                           Frame("recycle", Exported[t][Len(got) + 1]))
              ELSE Return(p, Reuse(TRUE))

\* lookupSpecialKind, and fixedOffsetZone.
SpecialMiss(p)  == Miss(p, "special") /\ Become(p, [Top(p) EXCEPT !.pc = "store"])
SpecialStore(p) == At(p, {"special"}, "store") /\ Publish(p, [kind |-> Kind[Top(p).type]])
ZoneMiss(p)     == Miss(p, "zone") /\ Become(p, [Top(p) EXCEPT !.pc = "store"])
ZoneStoreRetry(p) ==                              \* mutant: swaps until it wins
  /\ At(p, {"zone"}, "store") /\ Entry("zone", Offset) = Missing
  /\ Publish(p, [by |-> Me(p)])
ZoneStore(p)    == At(p, {"zone"}, "store") /\ Publish(p, [by |-> Me(p)])
-----------------------------------------------------------------------------
(* The calls *)

Begin(p, op, root) ==
  /\ ~crashed /\ ~Busy(p) /\ calls[p] < MaxCalls
  /\ calls' = [calls EXCEPT ![p] = @ + 1]
  /\ stack' = [stack EXCEPT ![p] = <<[Frame(op, root) EXCEPT !.pc = "begin"]>>]
  /\ UNCHANGED <<table, ret, crashed, handed, outcomes>>

End(p, outcome) ==
  /\ stack' = [stack EXCEPT ![p] = << >>]
  /\ outcomes' = outcomes \cup {<<Top(p).cache, Top(p).type, outcome>>}
  /\ UNCHANGED <<table, ret, calls, crashed, handed>>

\* Where a binder is when it needs the time zone of an offset.
Zoned == [direct |-> "direct zoned", filter |-> "filter zoned"]

\* unmarshalWithOptions: only a struct asks for its eligibility.
Unmarshal(p) ==
  LET f  == Top(p)
      To(pc, callee) == Call(p, [f EXCEPT !.pc = pc], callee)
      \* The document was read that way; one that was parsed may be refused.
      Read(way) == \/ End(p, way)
                   \/ way = "filter" /\ To("recycle", Frame("recycle", f.type))
  IN  \/ /\ At(p, {"unmarshal"}, "begin")
         /\ IF IsStruct(f.type) THEN To("eligible", Frame("eligible", f.type))
            ELSE To("filter", Frame("filter", f.type))
      \/ /\ At(p, {"unmarshal"}, "eligible")
         /\ CASE ret[p] = Failed        -> End(p, "error")
              [] ret[p] = Verdict(TRUE) -> To("direct", Frame("direct", f.type))
              [] OTHER                  -> To("filter", Frame("filter", f.type))
      \/ /\ \E pc \in {"direct", "filter"} : At(p, {"unmarshal"}, pc)
         /\ IF ret[p] = Failed THEN End(p, "error")
            ELSE \/ Read(f.pc)
                 \* The document may hold a datetime with an offset.
                 \/ To(Zoned[f.pc], Frame("zone", Offset))
      \/ \E pc \in {"direct", "filter"} : At(p, {"unmarshal"}, Zoned[pc]) /\ Read(pc)
      \/ At(p, {"unmarshal"}, "recycle") /\ End(p, "filter")

\* encodeStructDocument, for the value itself and for those below it.
Marshal(p) ==
  LET f == Top(p)
      To(pc, callee) == Call(p, [f EXCEPT !.pc = pc], callee)
  IN  \/ At(p, {"marshal"}, "begin") /\ To("special", Frame("special", f.type))
      \/ /\ At(p, {"marshal"}, "special")
         /\ IF IsStruct(f.type) THEN To("info", Frame("info", f.type))
            ELSE End(p, "error")
      \/ At(p, {"marshal"}, "info") /\ End(p, IF ret[p] = Failed THEN "error" ELSE "text")

Init ==
  /\ table = [c \in Caches |-> [t \in Types \cup {Offset} |-> Missing]]
  /\ stack = [p \in Callers |-> << >>]
  /\ ret = [p \in Callers |-> Missing]
  /\ calls = [p \in Callers |-> 0]
  /\ crashed = FALSE
  /\ handed = {} /\ outcomes = {}

\* One step of a caller that is inside a call.
Step(p) == \/ Hit(p) \/ LookupBuild(p) \/ LookupStore(p)
           \/ DirectInfo(p) \/ DirectStore(p)
           \/ EligibleMiss(p) \/ WalkVisit(p) \/ WalkFields(p) \/ WalkReturn(p)
           \/ EligibleStore(p) \/ FilterMiss(p) \/ FilterElement(p) \/ FilterFields(p)
           \/ Recycle(p)
           \/ SpecialMiss(p) \/ SpecialStore(p) \/ ZoneMiss(p) \/ ZoneStore(p)
           \/ Unmarshal(p) \/ Marshal(p)

Next == \E p \in Callers :
          \/ Step(p)
          \/ \E root \in Roots : Begin(p, "unmarshal", root) \/ Begin(p, "marshal", root)

\* A goroutine that can run is run: the scheduler is fair to each of them.
Spec == Init /\ [][Next]_vars /\ \A p \in Callers : WF_vars(Step(p))
-----------------------------------------------------------------------------
(* Properties *)

\* The filter newDecodeFilter gives for a type.
FilterOf(t) == IF IsStruct(Inside[t]) THEN Entry("filter", Inside[t]) ELSE NoFilter

\* The types a walk gets to that steps from t to next[t].
Reached(next) == [t \in Types |-> {x \in Types : \A s \in SUBSET Types :
                    t \in s /\ (\A y \in s : next[y] \subseteq s) => x \in s}]

\* The steps of directTypeContainsMap and newDecodeFilter, of
\* canRecycleDocumentFor, and of all three through a list.
ByPart     == [t \in Types |-> IF Composed(t) THEN Range(Parts[t]) ELSE {}]
ByExported == [t \in Types |-> IF Composed(t) THEN Range(Exported[t]) ELSE {}]
ByElement  == [t \in Types |-> IF Kind[t] = "list" THEN Range(Parts[t]) ELSE {}]
Reach         == Reached(ByPart)
ReachExported == Reached(ByExported)
ReachElement  == Reached(ByElement)

HoldsMap(t) == \E x \in Reach[t] : Kind[x] = "map"

(* However callers race on a type or an offset, all of them end up with one *)
(* object, the stored one: reflectcache.go:80, unmarshal_direct.go:74, 160, *)
(* unmarshal.go:160, marshal.go:1243, datetime_parse.go:384.                *)
OneObject == \A h \in handed : h[3] = Entry(h[1], h[2])

(* What is stored is never replaced: frames hold entries they loaded before *)
(* and build others from them.                                              *)
Published == [][\A c \in Caches, t \in Types \cup {Offset} :
                  Entry(c, t) # Missing => Entry(c, t)' = Entry(c, t)]_vars

(* No entry is visible before it is complete: a filter has the stored       *)
(* filter of each field, direct metadata the stored metadata, and no type   *)
(* with a refused tag gets into a table.                                    *)
StoredWhole ==
  \A t \in Types :
    /\ Entry("filter", t) # Missing =>
         Entry("filter", t).children = [i \in DOMAIN Parts[t] |-> FilterOf(Parts[t][i])]
    /\ Entry("direct", t) # Missing => Entry("direct", t).info = Entry("info", t)
    /\ Entry("special", t) # Missing => Entry("special", t) = [kind |-> Kind[t]]
    /\ Kind[t] = "badtag" => \A c \in {"info", "direct", "filter"} : Entry(c, t) = Missing

(* The cached verdict on direct binding is whether the type has a map       *)
(* anywhere, also for types that contain themselves, and a caller's first   *)
(* call takes the same way as its later ones.                               *)
EligibleRight ==
  /\ \A t \in Types : Entry("eligible", t) # Missing => Entry("eligible", t) = Verdict(~HoldsMap(t))
  /\ \A x, y \in outcomes : x[1] = y[1] /\ x[2] = y[2] => x = y

\* The type contains itself.
InPart(x)     == \E y \in ByPart[x] : x \in Reach[y]
InExported(x) == \E y \in ByExported[x] : x \in ReachExported[y]
InElement(x)  == \E y \in ByElement[x] : x \in ReachElement[y]

\* The type has a list below it that contains itself with no struct between; or
\* it does not bind directly, and has any type below it that contains itself.
Endless(t) == \/ \E x \in Reach[t] : InElement(x)
              \/ /\ HoldsMap(t) \/ ~IsStruct(t)
                 /\ (\E x \in Reach[t] : InPart(x)) \/ (\E x \in ReachExported[t] : InExported(x))

\* A goroutine's stack has room for a call for every struct, two for every list
\* and three more.
Roomy == LET composed == {t \in Types : Composed(t)}
             lists    == {t \in Types : Kind[t] = "list"}
         IN  /\ IsFiniteSet(composed)
             /\ Cardinality(composed) + Cardinality(lists) + 3 <= MaxDepth

\* The caller's next call overflows its stack.
Full(p) == Busy(p) /\ Len(stack[p]) + Len(Top(p).todo) + 1 >= MaxDepth

(* newDecodeFilter (unmarshal.go:123), canRecycleDocumentFor (88) and, for  *)
(* lists, directTypeContainsMap (unmarshal_direct.go:167) do not return for *)
(* such a type; for every other one no call runs out of stack.              *)
OverflowOnlyEndless ==
  crashed => \E p \in Callers : Full(p) /\ Endless(Head(stack[p]).type)

(* Every call returns, unless the program has crashed: no caller waits for  *)
(* what another one computes.                                               *)
CallsReturn == \A p \in Callers : Busy(p) ~> (~Busy(p) \/ crashed)
=============================================================================
