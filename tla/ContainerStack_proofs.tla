----------------------- MODULE ContainerStack_proofs -----------------------
(***************************************************************************)
(* The stored stack of containers is a stack of markers, for every         *)
(* capacity of its array.                                                  *)
(***************************************************************************)
EXTENDS ContainerStack, SequenceTheorems, TLAPS

\* The two ways the storage changes and the way it does not.
Pushed(c) == /\ containerDepth' = containerDepth + 1
             /\ \/ /\ containerDepth < Capacity
                   /\ containerStack' = [containerStack EXCEPT ![containerDepth + 1] = c]
                   /\ UNCHANGED containerExtra
                \/ /\ containerDepth >= Capacity
                   /\ containerExtra' = Append(containerExtra, c)
                   /\ UNCHANGED containerStack

LEMMA StepCases ==
  ASSUME Next
  PROVE  \/ \E c \in Markers : asked' = Asked("push", c) /\ Pushed(c) /\ UNCHANGED answer
         \/ \E c \in Markers : /\ asked' = Asked("pop", c) /\ UNCHANGED answer
                               /\ \/ Innermost(c) /\ Popped
                                  \/ ~Innermost(c) /\ UNCHANGED storage
         \/ asked' = Asked("ask", Array) /\ answer' = Innermost(Array) /\ UNCHANGED storage
BY DEF Next, pushContainer, popContainer, innermostIsArray, Pushed, Spilled, Matches

\* After a push the new marker is on top and every other slot is as it was.
LEMMA PushSlots ==
  ASSUME TypeOK, Spill, NEW c \in Markers, Pushed(c)
  PROVE  /\ containerStack' \in [1 .. Capacity -> Markers \cup {Unused}]
         /\ containerDepth' \in Nat /\ containerExtra' \in Seq(Markers)
         /\ Len(containerExtra') = IF containerDepth' > Capacity
                                   THEN containerDepth' - Capacity ELSE 0
         /\ \A i \in 1 .. containerDepth : Slot(i)' = Slot(i)
         /\ Slot(containerDepth)' = c
<1>1. CASE containerDepth < Capacity
  <2>1. /\ containerStack' = [containerStack EXCEPT ![containerDepth + 1] = c]
        /\ containerExtra' = containerExtra /\ containerDepth' = containerDepth + 1
    BY <1>1, CapacityAssumption DEF Pushed, TypeOK
  <2>2. /\ containerStack' \in [1 .. Capacity -> Markers \cup {Unused}]
        /\ containerStack'[containerDepth + 1] = c
        /\ \A i \in 1 .. containerDepth : containerStack'[i] = containerStack[i]
    BY <1>1, <2>1, CapacityAssumption DEF TypeOK
  <2>3. QED
    BY <1>1, <2>1, <2>2, CapacityAssumption DEF TypeOK, Spill, Slot
<1>2. CASE containerDepth >= Capacity
  <2>1. containerExtra' = Append(containerExtra, c) /\ containerStack' = containerStack
    BY <1>2, CapacityAssumption DEF Pushed, TypeOK
  <2>2. /\ containerExtra' \in Seq(Markers)
        /\ Len(containerExtra') = Len(containerExtra) + 1
        /\ \A i \in 1 .. Len(containerExtra) : containerExtra'[i] = containerExtra[i]
        /\ containerExtra'[Len(containerExtra) + 1] = c
    BY <2>1, AppendProperties DEF TypeOK
  <2>3. Len(containerExtra) = containerDepth - Capacity
    BY <1>2, CapacityAssumption DEF Spill, TypeOK
  <2>4. containerDepth' = containerDepth + 1 /\ containerDepth \in Nat
    BY DEF Pushed, TypeOK
  <2>5. \A i \in 1 .. containerDepth : Slot(i)' = Slot(i)
    BY <1>2, <2>1, <2>2, <2>3, <2>4, CapacityAssumption DEF Slot
  <2>6. Slot(containerDepth)' = c
    BY <1>2, <2>2, <2>3, <2>4, CapacityAssumption DEF Slot
  <2>7. QED
    BY <1>2, <2>1, <2>2, <2>3, <2>4, <2>5, <2>6, CapacityAssumption DEF TypeOK
<1>3. QED
  BY <1>1, <1>2, CapacityAssumption DEF TypeOK

\* After a pop every slot that is left is as it was.
LEMMA PopSlots ==
  ASSUME TypeOK, Spill, Popped, containerDepth # 0
  PROVE  /\ containerStack' = containerStack
         /\ containerDepth' \in Nat /\ containerExtra' \in Seq(Markers)
         /\ Len(containerExtra') = IF containerDepth' > Capacity
                                   THEN containerDepth' - Capacity ELSE 0
         /\ \A i \in 1 .. containerDepth' : Slot(i)' = Slot(i)
<1>1. CASE containerDepth <= Capacity
  BY <1>1, CapacityAssumption DEF Popped, TypeOK, Spill, Slot
<1>2. CASE containerDepth > Capacity
  <2> DEFINE left == containerDepth - 1 - Capacity
  <2>1. /\ left \in Nat /\ Len(containerExtra) = left + 1 /\ containerDepth' = left + Capacity
        /\ containerExtra' = SubSeq(containerExtra, 1, left)
        /\ containerStack' = containerStack
    BY <1>2, CapacityAssumption DEF Popped, TypeOK, Spill
  <2>2. \A i \in 1 .. left : containerExtra[i] \in Markers
    BY <2>1, ElementOfSeq DEF TypeOK
  <2>3. /\ containerExtra' \in Seq(Markers)
        /\ Len(containerExtra') = left
        /\ \A i \in 1 .. left : containerExtra'[i] = containerExtra[i]
    BY <2>1, <2>2, SubSeqProperties
  <2>4. QED
    BY <1>2, <2>1, <2>3, CapacityAssumption DEF TypeOK, Slot
<1>3. QED
  BY <1>1, <1>2, CapacityAssumption DEF TypeOK

LEMMA InitStored == Init => TypeOK /\ Spill
<1>1. SUFFICES ASSUME Init PROVE TypeOK /\ Spill
  OBVIOUS
<1>2. containerExtra \in Seq(Markers) /\ Len(containerExtra) = 0
  BY <1>1, EmptySeq DEF Init
<1>3. TypeOK
  BY <1>1, <1>2 DEF Init, TypeOK
<1>4. Spill
  BY <1>1, <1>2, CapacityAssumption DEF Init, Spill
<1>5. QED
  BY <1>3, <1>4

LEMMA NextStored ==
  ASSUME TypeOK, Spill, [Next]_vars
  PROVE  TypeOK' /\ Spill'
<1>1. CASE UNCHANGED <<storage, answer>>
  BY <1>1 DEF storage, TypeOK, Spill, Slot
<1>2. CASE \E c \in Markers : Pushed(c) /\ UNCHANGED answer
  <2>1. PICK c \in Markers : Pushed(c) /\ answer' = answer
    BY <1>2
  <2>2. containerDepth' = containerDepth + 1 /\ containerDepth \in Nat
    BY <2>1 DEF Pushed, TypeOK
  <2>3. \A i \in 1 .. containerDepth' : i \in 1 .. containerDepth \/ i = containerDepth'
    BY <2>2
  <2>4. (\A i \in 1 .. containerDepth : Slot(i)' = Slot(i)) /\ Slot(containerDepth)' = c
    BY <2>1, PushSlots
  <2>5. \A i \in 1 .. containerDepth' : Slot(i)' \in Markers
    BY <2>3, <2>4 DEF Spill
  <2>6. QED
    BY <2>1, <2>2, <2>5, PushSlots DEF TypeOK, Spill
<1>3. CASE \E c \in Markers : Innermost(c) /\ Popped /\ UNCHANGED answer
  <2>1. containerDepth # 0 /\ Popped /\ answer' = answer
    BY <1>3 DEF Innermost
  <2>2. containerDepth' = containerDepth - 1 /\ containerDepth \in Nat
    BY <2>1 DEF Popped, TypeOK
  <2>3. \A i \in 1 .. containerDepth' : Slot(i)' \in Markers
    BY <2>1, <2>2, PopSlots DEF Spill
  <2>4. QED
    BY <2>1, <2>3, PopSlots DEF TypeOK, Spill
<1>4. CASE answer' = Innermost(Array) /\ UNCHANGED storage
  <2>1. answer' \in BOOLEAN
    BY <1>4 DEF Innermost
  <2>2. QED
    BY <1>4, <2>1 DEF storage, TypeOK, Spill, Slot
<1>5. QED
  BY <1>1, <1>2, <1>3, <1>4, StepCases DEF vars, storage

\* The slice holds exactly what does not fit the array and every slot below the depth holds
\* a marker, so innermostIsArray, pushContainer and popContainer never index out of range.
THEOREM StorageSound == Spec => [](TypeOK /\ Spill)
BY InitStored, NextStored, PTL DEF Spec

-----------------------------------------------------------------------------
(* The stored stack as a sequence.                                         *)

LEMMA MarkeredSeq ==
  ASSUME TypeOK, Spill
  PROVE  /\ Markered \in Seq(Markers)
         /\ Len(Markered) = containerDepth
         /\ \A i \in 1 .. containerDepth : Markered[i] = Slot(i)
         /\ \A c : Innermost(c) <=> (Markered # << >> /\ Last(Markered) = c)
<1>1. Markered \in Seq(Markers) /\ Len(Markered) = containerDepth
  BY DEF Markered, TypeOK, Spill
<1>2. \A i \in 1 .. containerDepth : Markered[i] = Slot(i)
  BY DEF Markered
<1>3. containerDepth \in Nat /\ (Markered = << >> <=> containerDepth = 0)
  BY <1>1, EmptySeq DEF TypeOK
<1>4. containerDepth # 0 => Last(Markered) = Slot(containerDepth)
  BY <1>1, <1>2, <1>3 DEF Last
<1>5. QED
  BY <1>1, <1>2, <1>3, <1>4 DEF Innermost

LEMMA PushAppends ==
  ASSUME TypeOK, Spill, TypeOK', Spill', NEW c \in Markers, Pushed(c)
  PROVE  Markered' = Append(Markered, c)
<1>1. /\ Markered' \in Seq(Markers) /\ Len(Markered') = containerDepth'
      /\ \A i \in 1 .. containerDepth' : Markered'[i] = Slot(i)'
  BY DEF Markered, TypeOK, Spill
<1>2. /\ Append(Markered, c) \in Seq(Markers)
      /\ Len(Append(Markered, c)) = containerDepth + 1
      /\ \A i \in 1 .. containerDepth : Append(Markered, c)[i] = Slot(i)
      /\ Append(Markered, c)[containerDepth + 1] = c
  BY MarkeredSeq, AppendProperties
<1>3. containerDepth' = containerDepth + 1 /\ containerDepth \in Nat
  BY DEF Pushed, TypeOK
<1>4. (\A i \in 1 .. containerDepth : Slot(i)' = Slot(i)) /\ Slot(containerDepth)' = c
  BY PushSlots
<1>5. \A i \in 1 .. containerDepth' : Markered'[i] = Append(Markered, c)[i]
  BY <1>1, <1>2, <1>3, <1>4
<1>6. QED
  BY <1>1, <1>2, <1>3, <1>5, SeqEqual

LEMMA PopDropsLast ==
  ASSUME TypeOK, Spill, TypeOK', Spill', Popped, containerDepth # 0
  PROVE  Markered' = Front(Markered)
<1>1. /\ Markered' \in Seq(Markers) /\ Len(Markered') = containerDepth'
      /\ \A i \in 1 .. containerDepth' : Markered'[i] = Slot(i)'
  BY DEF Markered, TypeOK, Spill
<1>2. containerDepth' = containerDepth - 1 /\ containerDepth \in Nat
  BY DEF Popped, TypeOK
<1>3. \A i \in 1 .. containerDepth - 1 : Markered[i] \in Markers /\ Markered[i] = Slot(i)
  BY <1>2, MarkeredSeq, ElementOfSeq
<1>4. /\ Front(Markered) \in Seq(Markers) /\ Len(Front(Markered)) = containerDepth - 1
      /\ \A i \in 1 .. containerDepth - 1 : Front(Markered)[i] = Slot(i)
  BY <1>2, <1>3, MarkeredSeq, SubSeqProperties DEF Front
<1>5. \A i \in 1 .. containerDepth' : Markered'[i] = Front(Markered)[i]
  BY <1>1, <1>2, <1>4, PopSlots
<1>6. QED
  BY <1>1, <1>2, <1>4, <1>5, SeqEqual

\* Both modules name the same innermost container and the same rest.
LEMMA SameInnermost ==
  ASSUME TypeOK, Spill
  PROVE  /\ Abstract!Front(Markered) = Front(Markered)
         /\ \A c : Abstract!Innermost(c) = Innermost(c)
<1>1. \A c : Innermost(c) <=> Markered # << >> /\ Last(Markered) = c
  BY MarkeredSeq
<1>2. \A c : Abstract!Innermost(c) <=> Markered # << >> /\ Last(Markered) = c
  BY DEF Abstract!Innermost, Abstract!Last, Last
<1>3. Abstract!Front(Markered) = Front(Markered)
  BY DEF Abstract!Front, Front
<1>4. \A c : Abstract!Innermost(c) \in BOOLEAN /\ Innermost(c) \in BOOLEAN
  BY DEF Abstract!Innermost, Innermost
<1>5. QED
  BY <1>1, <1>2, <1>3, <1>4

LEMMA NextRefines ==
  ASSUME TypeOK, Spill, TypeOK', Spill', [Next]_vars
  PROVE  [Abstract!Next]_(Abstract!svars)
<1>1. CASE UNCHANGED vars
  <2>1. Markered' = Markered
    BY <1>1 DEF vars, Markered, Slot
  <2>2. QED
    BY <1>1, <2>1 DEF vars, Abstract!svars
<1>2. ASSUME NEW c \in Markers, asked' = Asked("push", c), Pushed(c), UNCHANGED answer
      PROVE  Abstract!Next
  BY <1>2, PushAppends DEF Asked, Abstract!Push, Abstract!Asked, Abstract!Next
<1>3. ASSUME NEW c \in Markers, asked' = Asked("pop", c), UNCHANGED answer,
             \/ Innermost(c) /\ Popped
             \/ ~Innermost(c) /\ UNCHANGED storage
      PROVE  Abstract!Next
  <2>1. asked' = Abstract!Asked("pop", c) /\ answer' = answer
    BY <1>3 DEF Asked, Abstract!Asked
  <2>2. CASE Innermost(c) /\ Popped
    <3>1. Markered' = Abstract!Front(Markered) /\ Abstract!Innermost(c)
      BY <2>2, PopDropsLast, SameInnermost DEF Innermost
    <3>2. QED
      BY <2>1, <3>1 DEF Abstract!Pop, Abstract!Next
  <2>3. CASE ~Innermost(c) /\ UNCHANGED storage
    <3>1. Markered' = Markered /\ ~Abstract!Innermost(c)
      BY <2>3, SameInnermost DEF storage, Markered, Slot
    <3>2. QED
      BY <2>1, <3>1 DEF Abstract!Pop, Abstract!Next
  <2>4. QED
    BY <1>3, <2>2, <2>3
<1>4. ASSUME asked' = Asked("ask", Array), answer' = Innermost(Array), UNCHANGED storage
      PROVE  Abstract!Next
  <2>1. Markered' = Markered
    BY <1>4 DEF storage, Markered, Slot
  <2>2. answer' = Abstract!Innermost(Array)
    BY <1>4, SameInnermost
  <2>3. asked' = Abstract!Asked("ask", Array)
    BY <1>4 DEF Asked, Abstract!Asked
  <2>4. QED
    BY <2>1, <2>2, <2>3 DEF Abstract!Ask, Abstract!Next
<1>5. CASE Next
  <2>1. CASE \E c \in Markers : asked' = Asked("push", c) /\ Pushed(c) /\ UNCHANGED answer
    BY <2>1, <1>2
  <2>2. CASE \E c \in Markers : /\ asked' = Asked("pop", c) /\ UNCHANGED answer
                                /\ \/ Innermost(c) /\ Popped
                                   \/ ~Innermost(c) /\ UNCHANGED storage
    BY <2>2, <1>3
  <2>3. CASE asked' = Asked("ask", Array) /\ answer' = Innermost(Array) /\ UNCHANGED storage
    BY <2>3, <1>4
  <2>4. QED
    BY <1>5, <2>1, <2>2, <2>3, StepCases
<1>6. QED
  BY <1>1, <1>5

\* For every capacity of the array inside the Decoder, array and slice together behave as
\* one stack that a closer pops exactly when it matches.
THEOREM IsMarkerStack == Spec => StackSpec
<1>1. Init => Abstract!Init
  <2>1. Init => Markered = << >>
    BY DEF Init, Markered
  <2>2. QED
    BY <2>1 DEF Init, Asked, Abstract!Init, Abstract!Asked
<1>2. QED
  BY <1>1, NextRefines, StorageSound, PTL DEF Spec, StackSpec, Abstract!Spec
=============================================================================
