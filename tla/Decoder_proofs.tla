--------------------------- MODULE Decoder_proofs ---------------------------
(***************************************************************************)
(* What holds of the token reader for every document and every limit.      *)
(***************************************************************************)
EXTENDS Decoder, SequenceTheorems, FiniteSetTheorems, TLAPS

-----------------------------------------------------------------------------
(* The stack of open containers.                                           *)

LEMMA FrontOfSeq ==
  ASSUME NEW S, NEW s \in Seq(S), s # << >>
  PROVE  Front(s) \in Seq(S)
<1>1. Len(s) \in Nat \ {0} /\ \A i \in 1 .. Len(s) : s[i] \in S
  BY EmptySeq, ElementOfSeq
<1>2. \A i \in 1 .. Len(s) - 1 : s[i] \in S
  BY <1>1
<1>3. QED
  BY <1>1, <1>2, SubSeqProperties DEF Front

\* What is below the top.
LEMMA FrontParts ==
  ASSUME NEW S, NEW s \in Seq(S), s # << >>
  PROVE  /\ Front(s) \in Seq(S)
         /\ Len(s) \in Nat \ {0} /\ Len(Front(s)) = Len(s) - 1
         /\ \A i \in 1 .. Len(s) - 1 : Front(s)[i] = s[i]
<1>1. Len(s) \in Nat \ {0} /\ \A i \in 1 .. Len(s) : s[i] \in S
  BY EmptySeq, ElementOfSeq
<1>2. PICK k : k = Len(s) - 1
  OBVIOUS
<1>3. 1 \in Int /\ k \in Int /\ \A i \in 1 .. k : s[i] \in S
  BY <1>1, <1>2
<1>4. /\ Len(SubSeq(s, 1, k)) = IF 1 <= k THEN k - 1 + 1 ELSE 0
      /\ \A i \in 1 .. k - 1 + 1 : SubSeq(s, 1, k)[i] = s[1 + i - 1]
  BY ONLY <1>3, SubSeqProperties
<1>5. Front(s) = SubSeq(s, 1, k) /\ k \in Nat
  BY <1>1, <1>2 DEF Front
<1>6. \A i \in 1 .. k : Front(s)[i] = s[i]
  BY <1>4, <1>5
<1>7. QED
  BY <1>1, <1>2, <1>4, <1>5, <1>6, FrontOfSeq

\* The stack stays a sequence of containers whatever is popped or pushed.
LEMMA StackTyped ==
  ASSUME stack \in Seq(Containers)
  PROVE  /\ \A want \in Containers : PopContainer(want) \in Seq(Containers)
         /\ \A c \in Containers : /\ Append(stack, c) \in Seq(Containers)
                                  /\ Append(stack, c) # << >>
                                  /\ Last(Append(stack, c)) = c
<1>1. \A want \in Containers : PopContainer(want) \in Seq(Containers)
  BY FrontOfSeq DEF PopContainer
<1>2. ASSUME NEW c \in Containers
      PROVE  /\ Append(stack, c) \in Seq(Containers)
             /\ Append(stack, c) # << >>
             /\ Last(Append(stack, c)) = c
  BY AppendProperties DEF Last
<1>3. QED
  BY <1>1, <1>2

-----------------------------------------------------------------------------
(* Type correctness, one lemma per way an iteration ends.                  *)

LEMMA EndTyped ==
  ASSUME TypeOK
  PROVE  /\ End \in Nat \ {0}
         /\ off \in Nat \ {0} /\ off <= End
         /\ \A k : Cell(k) # "end" => k < End
<1>1. End \in Nat \ {0}
  BY DEF TypeOK, End
<1>2. \A k : Cell(k) # "end" => k < End
  BY DEF Cell
<1>3. QED
  BY <1>1, <1>2 DEF TypeOK

LEMMA InitTyped == Init => TypeOK
<1>1. SUFFICES ASSUME NEW doc \in Inputs, NewDecoder(doc), Init
               PROVE  TypeOK
  BY DEF Init
<1>2. buf \in Seq(Cells) /\ buf = doc
  BY <1>1, InputsAssumption DEF NewDecoder
<1>3. Len(doc) \in Nat /\ (doc # << >> => Len(doc) > 0)
  BY <1>2, EmptySeq, LenProperties
<1>4. off \in 1 .. End /\ decodeStart \in {1, 2} /\ atLineStart \in BOOLEAN
  BY <1>1, <1>2, <1>3 DEF NewDecoder, End
<1>5. err \in Results /\ out \in Results
  BY <1>1 DEF NewDecoder, Init, Results, Result, Nothing, ErrorKinds, StickyKinds, CallResults
<1>6. stack \in Seq(Containers) /\ tokens \in Seq(Results)
  BY <1>1, EmptySeq DEF Init
<1>7. QED
  BY <1>1, <1>2, <1>4, <1>5, <1>6 DEF TypeOK, Init

\* A failed iteration leaves the reader where skipSpaces stopped.
LEMMA FailTyped ==
  ASSUME TypeOK, NEW kind \in ErrorKinds, NEW p \in off .. End, Fail(kind, p)
  PROVE  TypeOK'
<1>1. p \in 1 .. End /\ p \in Nat
  BY EndTyped
<1>2. Result(kind, p, p) \in Results
  BY <1>1 DEF Results, Result
<1>3. buf' = buf /\ End' = End /\ off' \in 1 .. End'
  BY <1>1 DEF Fail, fixed, End
<1>4. atLineStart' \in BOOLEAN /\ needLineEnd' \in BOOLEAN
  BY DEF Fail, LineStartAt, LineEndDue, TypeOK
<1>5. err' \in Results /\ out' \in Results
  BY <1>2 DEF Fail, TypeOK
<1>6. QED
  BY <1>3, <1>4, <1>5 DEF Fail, TypeOK, fixed, flags, depths

\* The part of TypeOK that handing out a token settles.
Handed == /\ buf \in Seq(Cells) /\ off \in 1 .. End /\ decodeStart \in {1, 2}
          /\ out \in Results /\ decoded \in BOOLEAN /\ atLineStart \in BOOLEAN
          /\ pc \in {"idle", "reading"} /\ tokens \in Seq(Results)

LEMMA EmitTyped ==
  ASSUME TypeOK, NEW kind \in TokenKinds, NEW p \in Nat, NEW e \in Nat, NEW next \in 1 .. End,
         Emit(kind, p, e, next)
  PROVE  Handed'
<1>1. Result(kind, p, e) \in Results
  BY DEF Results, Result
<1>2. tokens' \in Seq(Results)
  BY <1>1, AppendProperties DEF Emit, TypeOK
<1>3. QED
  BY <1>1, <1>2 DEF Emit, Handed, TypeOK, fixed, End

\* What a complete value leaves in the flags is Boolean.
LEMMA AfterValueTyped ==
  ASSUME NEW s, AfterValue(s)
  PROVE  /\ expectingValue' \in BOOLEAN /\ valueNoNewline' \in BOOLEAN
         /\ needSeparator' \in BOOLEAN /\ needLineEnd' \in BOOLEAN
BY DEF AfterValue

LEMMA CountDownTyped == \A n \in Nat : CountDown(n) \in Nat /\ CountDown(n) <= n
BY DEF CountDown

\* The token and error kinds the branches use.
LEMMA KindsNamed ==
  /\ {"syntax", "limit", "string", "utf8"} \subseteq ErrorKinds
  /\ {"key", "scalar", "arrayStart", "arrayEnd", "inlineStart", "inlineEnd",
      "header", "arrayHeader", "comment"} \subseteq TokenKinds
BY DEF ErrorKinds, StickyKinds, TokenKinds

\* The brackets of a header lie inside the buffer, so reading resumes inside it too.
LEMMA HeaderTyped ==
  ASSUME TypeOK, NEW p \in off .. End, NEW open \in {1, 2},
         NEW kind \in {"header", "arrayHeader"}, Dispatch(p), ScanHeader(p, open, kind)
  PROVE  TypeOK'
<1>1. PICK e \in p + open .. End : ScanHeader(p, open, kind)!(e)
  BY DEF ScanHeader
<1> DEFINE good == Cell(e) = "]" /\ HeaderKeyText(p + open, e)
           long == TextLength(p + open, e) > MaxKeyLength
<1>2. p \in 1 .. End /\ p \in Nat /\ e \in Nat /\ End \in Nat
  BY EndTyped
<1>3. ASSUME good PROVE e + open \in 1 .. End
  <2>1. Cell(e) # "end" /\ (open = 2 => Cell(e + 1) # "end")
    BY <1>1, <1>3 DEF HeaderStops
  <2>2. e < End /\ (open = 2 => e + 1 < End)
    BY <2>1, EndTyped
  <2>3. QED
    BY <1>2, <2>2
<1>4. CASE Fail("string", p) \/ Fail("syntax", p)
  BY <1>4, FailTyped, KindsNamed
<1>5. CASE good /\ long /\ ~(Fail("string", p) \/ Fail("syntax", p))
  <2>1. Result("limit", p, p) \in Results
    BY <1>2 DEF Results, Result, ErrorKinds, StickyKinds
  <2>2. /\ out' = Result("limit", p, p) /\ err' = out' /\ off' = e + open
        /\ atLineStart' = FALSE /\ needLineEnd' = LineEndDue(p) /\ pc' = "idle"
        /\ UNCHANGED <<fixed, flags, depths, tokens>>
    BY <1>1, <1>5
  <2>3. needLineEnd' \in BOOLEAN
    BY <2>2 DEF LineEndDue, TypeOK
  <2>4. off' \in 1 .. End' /\ buf' = buf
    BY <1>3, <1>5, <2>2 DEF fixed, End
  <2>5. QED
    BY <2>1, <2>2, <2>3, <2>4 DEF TypeOK, fixed, flags, depths
<1>6. CASE good /\ ~long /\ ~(Fail("string", p) \/ Fail("syntax", p))
  <2>1. /\ Emit(kind, p, e + open, e + open)
        /\ expectingValue' = FALSE /\ needLineEnd' = TRUE
        /\ UNCHANGED <<err, valueNoNewline, needSeparator, depths>>
    BY <1>1, <1>6
  <2>2. Handed'
    BY <1>2, <1>3, <1>6, <2>1, EmitTyped, KindsNamed
  <2>3. QED
    BY <2>1, <2>2 DEF Handed, TypeOK, depths
<1>7. QED
  BY <1>1, <1>4, <1>5, <1>6

LEMMA CommentTyped ==
  ASSUME TypeOK, NEW p \in off .. End, ScanComment(p)
  PROVE  TypeOK'
<1>1. p \in Nat /\ End \in Nat
  BY EndTyped
<1>2. CASE Fail("syntax", p)
  BY <1>2, FailTyped, KindsNamed
<1>3. CASE ~Fail("syntax", p)
  <2>1. PICK e \in p + 1 .. End :
          /\ Emit("comment", p, e, e)
          /\ needLineEnd' = LineEndDue(p)
          /\ UNCHANGED <<err, flags, depths>>
    BY <1>3 DEF ScanComment
  <2>2. Handed'
    BY <1>1, <2>1, EmitTyped, EndTyped, KindsNamed
  <2>3. QED
    BY <2>1, <2>2 DEF Handed, TypeOK, LineEndDue, flags, depths
<1>4. QED
  BY <1>2, <1>3

LEMMA ContainerTyped ==
  ASSUME TypeOK, NEW p \in off .. End,
         \/ ScanArrayStart(p) \/ ScanInlineTableStart(p)
         \/ ScanArrayEnd(p) \/ ScanInlineTableEnd(p)
  PROVE  TypeOK'
<1>1. p \in Nat /\ p + 1 \in Nat /\ p + 1 \in 1 .. End
  <2>1. p < End
    BY DEF OpensContainer, Dispatch, ScanArrayStart, ScanInlineTableStart,
           ScanArrayEnd, ScanInlineTableEnd
  <2>2. QED
    BY <2>1, EndTyped
<1>2. /\ stack \in Seq(Containers) /\ arrayDepth \in Nat /\ inlineDepth \in Nat
      /\ err \in Results
  BY DEF TypeOK
<1>3. Result("limit", p, p) \in Results
  BY <1>1 DEF Results, Result, ErrorKinds, StickyKinds
<1>4. CASE ScanArrayStart(p)
  <2>1. Handed'
    BY <1>1, <1>4, EmitTyped, KindsNamed DEF ScanArrayStart
  <2>2. stack' \in Seq(Containers)
    BY <1>2, <1>4, StackTyped DEF ScanArrayStart, Containers
  <2>3. needLineEnd' \in BOOLEAN /\ err' \in Results
    BY <1>3, <1>4 DEF ScanArrayStart, LineEndDue, TypeOK
  <2>4. /\ expectingValue' \in BOOLEAN /\ valueNoNewline' \in BOOLEAN
        /\ needSeparator' \in BOOLEAN
    BY <1>4 DEF ScanArrayStart
  <2>5. arrayDepth' \in Nat /\ inlineDepth' \in Nat
    BY <1>2, <1>4 DEF ScanArrayStart
  <2>6. QED
    BY <2>1, <2>2, <2>3, <2>4, <2>5 DEF Handed, TypeOK
<1>5. CASE ScanInlineTableStart(p)
  <2>1. Handed'
    BY <1>1, <1>5, EmitTyped, KindsNamed DEF ScanInlineTableStart
  <2>2. stack' \in Seq(Containers)
    BY <1>2, <1>5, StackTyped DEF ScanInlineTableStart, Containers
  <2>3. needLineEnd' \in BOOLEAN
    BY <1>5 DEF ScanInlineTableStart, LineEndDue, TypeOK
  <2>4. /\ expectingValue' \in BOOLEAN /\ valueNoNewline' \in BOOLEAN
        /\ needSeparator' \in BOOLEAN
    BY <1>5 DEF ScanInlineTableStart
  <2>5. inlineDepth' = inlineDepth + 1 /\ arrayDepth' = arrayDepth /\ err' = err
    BY <1>5, Zenon DEF ScanInlineTableStart
  <2>6. arrayDepth' \in Nat /\ inlineDepth' \in Nat /\ err' \in Results
    BY <1>2, <2>5
  <2>7. QED
    BY <2>1, <2>2, <2>3, <2>4, <2>6 DEF Handed, TypeOK
<1>6. CASE ScanArrayEnd(p)
  <2>1. Handed'
    BY <1>1, <1>6, EmitTyped, KindsNamed DEF ScanArrayEnd, CloseContainer
  <2>2. stack' \in Seq(Containers)
    BY <1>2, <1>6, StackTyped DEF ScanArrayEnd, CloseContainer, Containers
  <2>3. arrayDepth' \in Nat /\ inlineDepth' \in Nat
    BY <1>2, <1>6, CountDownTyped DEF ScanArrayEnd
  <2>4. QED
    BY <1>6, <2>1, <2>2, <2>3, AfterValueTyped
    DEF ScanArrayEnd, CloseContainer, Handed, TypeOK
<1>7. CASE ScanInlineTableEnd(p)
  <2>1. Handed'
    BY <1>1, <1>7, EmitTyped, KindsNamed DEF ScanInlineTableEnd, CloseContainer
  <2>2. stack' \in Seq(Containers)
    BY <1>2, <1>7, StackTyped DEF ScanInlineTableEnd, CloseContainer, Containers
  <2>3. arrayDepth' \in Nat /\ inlineDepth' \in Nat
    BY <1>2, <1>7, CountDownTyped DEF ScanInlineTableEnd
  <2>4. QED
    BY <1>7, <2>1, <2>2, <2>3, AfterValueTyped
    DEF ScanInlineTableEnd, CloseContainer, Handed, TypeOK
<1>8. QED
  BY <1>4, <1>5, <1>6, <1>7

LEMMA CommaTyped ==
  ASSUME TypeOK, NEW p \in off .. End, Comma(p)
  PROVE  TypeOK'
<1>1. p \in Nat /\ p + 1 \in 1 .. End
  <2>1. p < End
    BY DEF Comma, Dispatch
  <2>2. QED
    BY <2>1, EndTyped
<1>2. CASE Fail("syntax", p)
  BY <1>2, FailTyped, KindsNamed
<1>3. CASE ~Fail("syntax", p)
  <2>1. /\ off' = p + 1 /\ atLineStart' = FALSE /\ needLineEnd' = LineEndDue(p)
        /\ needSeparator' = FALSE /\ expectingValue' = InArray
        /\ UNCHANGED <<fixed, err, valueNoNewline, depths, pc, out, tokens>>
    BY <1>3 DEF Comma
  <2>2. buf' = buf /\ off' \in 1 .. End'
    BY <1>1, <2>1 DEF fixed, End
  <2>3. needLineEnd' \in BOOLEAN /\ expectingValue' \in BOOLEAN
    BY <2>1 DEF LineEndDue, InArray
  <2>4. QED
    BY <2>1, <2>2, <2>3 DEF TypeOK, fixed, depths
<1>4. QED
  BY <1>2, <1>3

LEMMA KeyTyped ==
  ASSUME TypeOK, NEW p \in off .. End, ScanKeyToken(p)
  PROVE  TypeOK'
<1>1. CASE \E kind \in ErrorKinds : Fail(kind, p)
  BY <1>1, FailTyped
<1>2. CASE ~\E kind \in ErrorKinds : Fail(kind, p)
  <2>1. PICK j \in p .. End : \E e \in p + 1 .. j :
          /\ Cell(j) = "="
          /\ Emit("key", p, e, j + 1)
          /\ expectingValue' = TRUE /\ valueNoNewline' = TRUE /\ needLineEnd' = FALSE
          /\ UNCHANGED <<err, needSeparator, depths>>
    BY <1>2, KindsNamed DEF ScanKeyToken
  <2>2. PICK e \in p + 1 .. j :
          /\ Cell(j) = "="
          /\ Emit("key", p, e, j + 1)
          /\ expectingValue' = TRUE /\ valueNoNewline' = TRUE /\ needLineEnd' = FALSE
          /\ UNCHANGED <<err, needSeparator, depths>>
    BY <2>1
  <2>3. p \in Nat /\ e \in Nat /\ j + 1 \in 1 .. End
    BY <2>2, EndTyped
  <2>4. Handed'
    BY <2>2, <2>3, EmitTyped, KindsNamed
  <2>5. QED
    BY <2>2, <2>4 DEF Handed, TypeOK, depths
<1>3. QED
  BY <1>1, <1>2

LEMMA ValueTyped ==
  ASSUME TypeOK, NEW p \in off .. End, ScanValueToken(p)
  PROVE  TypeOK'
<1>1. CASE \E kind \in ErrorKinds : Fail(kind, p)
  BY <1>1, FailTyped
<1>2. CASE ~\E kind \in ErrorKinds : Fail(kind, p)
  <2>1. PICK e \in p .. End :
          /\ Emit("scalar", p, e, e)
          /\ AfterValue(stack)
          /\ UNCHANGED <<err, depths>>
    BY <1>2, KindsNamed DEF ScanValueToken
  <2>2. p \in Nat /\ e \in Nat /\ e \in 1 .. End
    BY <2>1, EndTyped
  <2>3. Handed'
    BY <2>1, <2>2, EmitTyped, KindsNamed
  <2>4. QED
    BY <2>1, <2>3, AfterValueTyped DEF Handed, TypeOK, depths
<1>3. QED
  BY <1>1, <1>2

LEMMA LoopTyped ==
  ASSUME TypeOK, ReadTokenLoop
  PROVE  TypeOK'
<1>1. PICK p \in off .. End : ReadTokenLoop!2!(p)
  BY DEF ReadTokenLoop
<1>2. p \in 1 .. End /\ p \in Nat
  BY EndTyped
<1>3. CASE AtEnd(p)
  <2>1. CASE Fail("syntax", p)
    BY <2>1, FailTyped, KindsNamed
  <2>2. CASE ~Fail("syntax", p)
    <3>1. /\ out' = Result("eof", p, p) /\ off' = p
          /\ atLineStart' = LineStartAt(p) /\ needLineEnd' = LineEndDue(p) /\ pc' = "idle"
          /\ UNCHANGED <<fixed, err, flags, depths, tokens>>
      BY <1>3, <2>2 DEF AtEnd
    <3>2. out' \in Results
      BY <1>2, <3>1 DEF Results, Result, CallResults
    <3>3. atLineStart' \in BOOLEAN /\ needLineEnd' \in BOOLEAN
      BY <3>1 DEF LineStartAt, LineEndDue, TypeOK
    <3>4. QED
      BY <1>2, <3>1, <3>2, <3>3 DEF TypeOK, fixed, flags, depths, End
  <2>3. QED
    BY <2>1, <2>2
<1>4. CASE LineBreakDue(p)
  <2>1. CASE Fail("syntax", p)
    BY <2>1, FailTyped, KindsNamed
  <2>2. CASE ~Fail("syntax", p)
    BY <1>2, <1>4, <2>2 DEF LineBreakDue, TypeOK, fixed, flags, depths, End
  <2>3. QED
    BY <2>1, <2>2
<1>5. CASE \/ BareCarriageReturn(p) \/ ExpectedComma(p) \/ UnexpectedEquals(p)
           \/ MissingSeparator(p)
  BY <1>5, FailTyped, KindsNamed
  DEF BareCarriageReturn, ExpectedComma, UnexpectedEquals, MissingSeparator
<1>6. CASE ScanTableHeader(p) \/ ScanArrayTableHeader(p)
  BY <1>6, HeaderTyped DEF ScanTableHeader, ScanArrayTableHeader
<1>7. CASE \/ ScanArrayStart(p) \/ ScanInlineTableStart(p)
           \/ ScanArrayEnd(p) \/ ScanInlineTableEnd(p)
  BY <1>7, ContainerTyped
<1>8. QED
  BY <1>1, <1>3, <1>4, <1>5, <1>6, <1>7, CommentTyped, CommaTyped, KeyTyped, ValueTyped

\* The calls that do not read.
LEMMA CallTyped ==
  ASSUME TypeOK, ReadTokenSticky \/ ReadTokenBegins \/ Decode
  PROVE  TypeOK'
<1>1. CASE ReadTokenSticky
  BY <1>1 DEF ReadTokenSticky, TypeOK, fixed, flags, depths, End
<1>2. CASE ReadTokenBegins
  BY <1>2 DEF ReadTokenBegins, TypeOK, fixed, flags, depths, End
<1>3. CASE Decode
  <2>1. /\ Result("state", off, off) \in Results
        /\ Result("unmarshal", off, off) \in Results
        /\ Result("decoded", off, off) \in Results
    BY EndTyped DEF Results, Result, CallResults
  <2>2. out' \in Results /\ decoded' \in BOOLEAN
    BY <1>3, <2>1 DEF Decode, TypeOK
  <2>3. buf' = buf /\ off' \in 1 .. End'
    BY <1>3, EndTyped DEF Decode, TypeOK, End
  <2>4. QED
    BY <1>3, <2>2, <2>3 DEF Decode, TypeOK, flags, depths
<1>4. QED
  BY <1>1, <1>2, <1>3

\* Type correctness: in particular the reader never runs past the end of the document and
\* every token lies at natural positions, for any document and any limits.
THEOREM TypeCorrect == Spec => []TypeOK
<1>1. TypeOK /\ [Next]_vars => TypeOK'
  <2>1. CASE UNCHANGED vars
    BY <2>1 DEF vars, TypeOK, End
  <2>2. QED
    BY <2>1, LoopTyped, CallTyped DEF Next
<1>2. QED
  BY <1>1, InitTyped, PTL DEF Spec

-----------------------------------------------------------------------------
(* The flags agree with each other and with the stack.                     *)

\* A step that leaves the flags and the stack alone can only clear needLineEnd.
LEMMA FlagsKept ==
  ASSUME DispatchFlags, UNCHANGED <<flags, depths>>, needLineEnd' => needLineEnd
  PROVE  DispatchFlags'
BY DEF DispatchFlags, InArray, flags, depths

LEMMA FailKeepsFlags ==
  ASSUME DispatchFlags, NEW kind, NEW p, Fail(kind, p)
  PROVE  DispatchFlags'
BY FlagsKept DEF Fail, LineEndDue

LEMMA AfterValueFlags ==
  ASSUME AfterValue(stack')
  PROVE  DispatchFlags'
BY DEF AfterValue, DispatchFlags, InArray

LEMMA HeaderFlags ==
  ASSUME DispatchFlags, NEW p, NEW open, NEW kind, Dispatch(p), AtHeader(p),
         ScanHeader(p, open, kind)
  PROVE  DispatchFlags'
<1>1. CASE Fail("string", p) \/ Fail("syntax", p)
  BY <1>1, FailKeepsFlags
<1>2. CASE UNCHANGED <<flags, depths>> /\ needLineEnd' = LineEndDue(p)
  BY <1>2, FlagsKept DEF LineEndDue
<1>3. CASE /\ expectingValue' = FALSE /\ needLineEnd' = TRUE
           /\ UNCHANGED <<err, valueNoNewline, needSeparator, depths>>
  <2>1. ~expectingValue /\ ~InArray /\ ~valueNoNewline
    BY DEF AtHeader, DispatchFlags
  <2>2. QED
    BY <1>3, <2>1 DEF DispatchFlags, InArray, depths
<1>4. QED
  BY <1>1, <1>2, <1>3 DEF ScanHeader

LEMMA ContainerFlags ==
  ASSUME TypeOK, DispatchFlags, NEW p,
         \/ ScanArrayStart(p) \/ ScanInlineTableStart(p)
         \/ ScanArrayEnd(p) \/ ScanInlineTableEnd(p)
  PROVE  DispatchFlags'
<1>1. CASE ScanArrayEnd(p) \/ ScanInlineTableEnd(p)
  BY <1>1, AfterValueFlags DEF ScanArrayEnd, ScanInlineTableEnd, CloseContainer
<1>2. CASE ScanArrayStart(p) \/ ScanInlineTableStart(p)
  <2>1. ~needLineEnd'
    BY <1>2 DEF ScanArrayStart, ScanInlineTableStart, OpensContainer, Dispatch
  <2>2. ~valueNoNewline' /\ ~needSeparator'
    BY <1>2 DEF ScanArrayStart, ScanInlineTableStart
  <2>3. InArray' => expectingValue'
    <3>1. CASE ScanArrayStart(p)
      BY <3>1 DEF ScanArrayStart
    <3>2. CASE ScanInlineTableStart(p)
      <4>1. stack' = Append(stack, "inline") /\ stack \in Seq(Containers)
        BY <3>2 DEF ScanInlineTableStart, TypeOK
      <4>2. Last(stack') = "inline"
        BY <4>1, StackTyped DEF Containers
      <4>3. QED
        BY <4>2 DEF InArray
    <3>3. QED
      BY <1>2, <3>1, <3>2
  <2>4. QED
    BY <2>1, <2>2, <2>3 DEF DispatchFlags
<1>3. QED
  BY <1>1, <1>2

\* Between a key and its value no separator is due, so a comma never finds the line rule of
\* a key still in force.
LEMMA CommaFlags ==
  ASSUME DispatchFlags, NEW p, Comma(p)
  PROVE  DispatchFlags'
<1>1. CASE Fail("syntax", p)
  BY <1>1, FailKeepsFlags
<1>2. CASE ~Fail("syntax", p)
  <2>1. /\ needSeparator /\ needLineEnd' = LineEndDue(p) /\ ~LineEndDue(p)
        /\ needSeparator' = FALSE /\ expectingValue' = InArray
        /\ valueNoNewline' = valueNoNewline /\ stack' = stack
    BY <1>2 DEF Comma, Dispatch, depths
  <2>2. ~valueNoNewline
    BY <2>1 DEF DispatchFlags
  <2>3. QED
    BY <2>1, <2>2 DEF DispatchFlags, InArray
<1>3. QED
  BY <1>1, <1>2

LEMMA KeyFlags ==
  ASSUME DispatchFlags, NEW p, ScanKeyToken(p)
  PROVE  DispatchFlags'
<1>1. CASE \E kind \in {"string", "syntax", "limit"} : Fail(kind, p)
  BY <1>1, FailKeepsFlags
<1>2. CASE ~\E kind \in {"string", "syntax", "limit"} : Fail(kind, p)
  <2>1. /\ expectingValue' = TRUE /\ valueNoNewline' = TRUE /\ needLineEnd' = FALSE
        /\ UNCHANGED <<err, needSeparator, depths>>
    BY <1>2 DEF ScanKeyToken
  <2>2. ~needSeparator
    BY DEF ScanKeyToken, SeparatorDue, DispatchFlags
  <2>3. QED
    BY <2>1, <2>2 DEF DispatchFlags, depths
<1>3. QED
  BY <1>1, <1>2

LEMMA ValueFlags ==
  ASSUME DispatchFlags, NEW p, ScanValueToken(p)
  PROVE  DispatchFlags'
<1>1. CASE \E kind \in {"string", "syntax", "limit"} : Fail(kind, p)
  BY <1>1, FailKeepsFlags
<1>2. CASE ~\E kind \in {"string", "syntax", "limit"} : Fail(kind, p)
  <2>1. AfterValue(stack) /\ UNCHANGED depths
    BY <1>2 DEF ScanValueToken
  <2>2. AfterValue(stack')
    BY <2>1 DEF depths
  <2>3. QED
    BY <2>2, AfterValueFlags
<1>3. QED
  BY <1>1, <1>2

LEMMA LoopFlags ==
  ASSUME TypeOK, DispatchFlags, ReadTokenLoop
  PROVE  DispatchFlags'
<1>1. PICK p \in off .. End : ReadTokenLoop!2!(p)
  BY DEF ReadTokenLoop
<1>2. CASE AtEnd(p) \/ LineBreakDue(p)
  <2>1. CASE Fail("syntax", p)
    BY <2>1, FailKeepsFlags
  <2>2. CASE ~Fail("syntax", p)
    BY <1>2, <2>2, FlagsKept DEF AtEnd, LineBreakDue, LineEndDue
  <2>3. QED
    BY <2>1, <2>2
<1>3. CASE \/ BareCarriageReturn(p) \/ ExpectedComma(p) \/ UnexpectedEquals(p)
           \/ MissingSeparator(p)
  BY <1>3, FailKeepsFlags
  DEF BareCarriageReturn, ExpectedComma, UnexpectedEquals, MissingSeparator
<1>4. CASE ScanTableHeader(p) \/ ScanArrayTableHeader(p)
  BY <1>4, HeaderFlags DEF ScanTableHeader, ScanArrayTableHeader, AtArrayHeader
<1>5. CASE \/ ScanArrayStart(p) \/ ScanInlineTableStart(p)
           \/ ScanArrayEnd(p) \/ ScanInlineTableEnd(p)
  BY <1>5, ContainerFlags
<1>6. CASE ScanComment(p)
  <2>1. CASE Fail("syntax", p)
    BY <2>1, FailKeepsFlags
  <2>2. CASE ~Fail("syntax", p)
    BY <1>6, <2>2, FlagsKept DEF ScanComment, LineEndDue
  <2>3. QED
    BY <2>1, <2>2
<1>7. QED
  BY <1>1, <1>2, <1>3, <1>4, <1>5, <1>6, CommaFlags, KeyFlags, ValueFlags

\* For every document the four flags of the reader agree with each other and with the
\* stack: what keeps readToken from spinning on a line break and makes an array that is
\* never closed an error.
THEOREM FlagsAgree == Spec => []DispatchFlags
<1>1. Init => DispatchFlags
  BY DEF Init, DispatchFlags, InArray
<1>2. TypeOK /\ DispatchFlags /\ [Next]_vars => DispatchFlags'
  <2>1. CASE UNCHANGED vars
    BY <2>1 DEF vars, DispatchFlags, InArray
  <2>2. CASE ReadTokenSticky \/ ReadTokenBegins \/ Decode
    BY <2>2, FlagsKept DEF ReadTokenSticky, ReadTokenBegins, Decode
  <2>3. QED
    BY <2>1, <2>2, LoopFlags DEF Next
<1>3. QED
  BY <1>1, <1>2, TypeCorrect, PTL DEF Spec

-----------------------------------------------------------------------------
(* How far the reader got.                                                 *)

\* What the theorems below rest on: the reader never goes back before its start, it moves
\* past the start with its first token, and a bound document leaves it at the end.
ReadSoFar ==
  /\ decodeStart <= off
  /\ tokens # << >> => decodeStart < off
  /\ decoded => off = End /\ tokens = << >>
  /\ err.kind \in StickyKinds \cup {"none"}
  /\ CleanEOF

\* What every iteration of the loop guarantees.
Forward ==
  /\ buf' = buf /\ decodeStart' = decodeStart /\ decoded' = decoded
  /\ off <= off'
  /\ tokens' # tokens => off < off'
  /\ err'.kind \in StickyKinds \/ err' = err
  /\ out'.kind = "eof" => \/ off' = End /\ ~expectingValue' /\ ~InArray'
                          \/ out' = out /\ off < End

LEMMA FailForward ==
  ASSUME TypeOK, NEW kind \in ErrorKinds, NEW p \in off .. End, Fail(kind, p)
  PROVE  Forward
<1>1. off <= p
  BY EndTyped
<1>2. out'.kind = kind /\ kind # "eof"
  BY DEF Fail, Result, ErrorKinds, StickyKinds
<1>3. err'.kind \in StickyKinds \/ err' = err
  BY DEF Fail, Result
<1>4. QED
  BY <1>1, <1>2, <1>3 DEF Fail, Forward, fixed

LEMMA EmitForward ==
  ASSUME TypeOK, NEW kind \in TokenKinds, NEW p, NEW e, NEW next \in 1 .. End, off < next,
         Emit(kind, p, e, next), err'.kind \in StickyKinds \/ err' = err
  PROVE  Forward
<1>1. out'.kind = kind /\ kind # "eof"
  BY DEF Emit, Result, TokenKinds
<1>2. off <= off' /\ off < off'
  BY EndTyped DEF Emit
<1>3. QED
  BY <1>1, <1>2 DEF Emit, Forward, fixed

LEMMA HeaderForward ==
  ASSUME TypeOK, NEW p \in off .. End, NEW open \in {1, 2},
         NEW kind \in {"header", "arrayHeader"}, ScanHeader(p, open, kind)
  PROVE  Forward
<1>1. PICK e \in p + open .. End : ScanHeader(p, open, kind)!(e)
  BY DEF ScanHeader
<1>2. off < e + open /\ e + open \in Nat
  BY EndTyped
<1>3. CASE Fail("string", p) \/ Fail("syntax", p)
  BY <1>3, FailForward, KindsNamed
<1>4. CASE out' = Result("limit", p, p) /\ err' = out' /\ off' = e + open
           /\ UNCHANGED <<fixed, flags, depths, tokens>>
  <2>1. out'.kind = "limit" /\ err'.kind \in StickyKinds
    BY <1>4 DEF Result, StickyKinds
  <2>2. off <= off'
    BY <1>2, <1>4, EndTyped
  <2>3. QED
    BY <1>4, <2>1, <2>2 DEF Forward, fixed
<1>5. CASE Emit(kind, p, e + open, e + open) /\ err' = err
  <2>1. out'.kind = kind /\ kind # "eof"
    BY <1>5 DEF Emit, Result
  <2>2. off <= off' /\ off < off'
    BY <1>2, <1>5, EndTyped DEF Emit
  <2>3. QED
    BY <1>5, <2>1, <2>2 DEF Emit, Forward, fixed
<1>6. QED
  BY <1>1, <1>3, <1>4, <1>5

LEMMA LoopForward ==
  ASSUME TypeOK, DispatchFlags, ReadTokenLoop
  PROVE  Forward
<1>1. PICK p \in off .. End : ReadTokenLoop!2!(p)
  BY DEF ReadTokenLoop
<1>2. p \in Nat /\ off \in Nat /\ End \in Nat /\ off <= p /\ p <= End
  BY EndTyped
<1>3. CASE \E kind \in ErrorKinds : Fail(kind, p)
  BY <1>3, FailForward
<1>4. CASE AtEnd(p) /\ ~\E kind \in ErrorKinds : Fail(kind, p)
  <2>1. /\ p = End /\ ~expectingValue /\ out' = Result("eof", p, p) /\ off' = p
        /\ UNCHANGED <<fixed, err, flags, depths, tokens>>
    BY <1>4, KindsNamed DEF AtEnd
  <2>2. ~expectingValue' /\ ~InArray'
    BY <2>1 DEF DispatchFlags, InArray, flags, depths
  <2>3. QED
    BY <1>2, <2>1, <2>2 DEF Forward, fixed
<1>5. CASE LineBreakDue(p) /\ ~\E kind \in ErrorKinds : Fail(kind, p)
  <2>1. p < End /\ off' = p /\ UNCHANGED <<fixed, err, out, tokens>>
    BY <1>5, KindsNamed DEF LineBreakDue
  <2>2. QED
    BY <1>2, <2>1 DEF Forward, fixed
<1>6. CASE Comma(p) /\ ~\E kind \in ErrorKinds : Fail(kind, p)
  <2>1. p < End /\ off' = p + 1 /\ UNCHANGED <<fixed, err, out, tokens>>
    BY <1>6, KindsNamed DEF Comma, Dispatch
  <2>2. QED
    BY <1>2, <2>1 DEF Forward, fixed
<1>7. CASE \/ BareCarriageReturn(p) \/ ExpectedComma(p) \/ UnexpectedEquals(p)
           \/ MissingSeparator(p)
  BY <1>7, FailForward, KindsNamed
  DEF BareCarriageReturn, ExpectedComma, UnexpectedEquals, MissingSeparator
<1>8. CASE ScanTableHeader(p) \/ ScanArrayTableHeader(p)
  BY <1>8, HeaderForward DEF ScanTableHeader, ScanArrayTableHeader
<1>9. CASE \/ ScanArrayStart(p) \/ ScanInlineTableStart(p)
           \/ ScanArrayEnd(p) \/ ScanInlineTableEnd(p)
  <2>1. p < End
    BY <1>9 DEF OpensContainer, Dispatch, ScanArrayStart, ScanInlineTableStart,
           ScanArrayEnd, ScanInlineTableEnd
  <2>2. \E kind \in TokenKinds : Emit(kind, p, p + 1, p + 1)
    BY <1>9, KindsNamed DEF ScanArrayStart, ScanInlineTableStart, ScanArrayEnd,
                            ScanInlineTableEnd, CloseContainer
  <2>3. err'.kind \in StickyKinds \/ err' = err
    <3>1. CASE ScanArrayStart(p)
      BY <3>1 DEF ScanArrayStart, Result, StickyKinds
    <3>2. CASE ScanInlineTableStart(p) \/ ScanArrayEnd(p) \/ ScanInlineTableEnd(p)
      BY <3>2, Zenon
      DEF ScanInlineTableStart, ScanArrayEnd, ScanInlineTableEnd, CloseContainer
    <3>3. QED
      BY <1>9, <3>1, <3>2
  <2>4. p + 1 \in 1 .. End /\ off < p + 1
    BY <1>2, <2>1
  <2>5. QED
    BY <2>2, <2>3, <2>4, EmitForward
<1>10. CASE ScanComment(p) /\ ~\E kind \in ErrorKinds : Fail(kind, p)
  <2>1. PICK e \in p + 1 .. End : Emit("comment", p, e, e) /\ UNCHANGED err
    BY <1>10, KindsNamed DEF ScanComment
  <2>2. e \in 1 .. End /\ off < e
    BY <1>2
  <2>3. QED
    BY <2>1, <2>2, EmitForward, KindsNamed
<1>11. CASE ScanKeyToken(p) /\ ~\E kind \in ErrorKinds : Fail(kind, p)
  <2>1. PICK j \in p .. End : \E e \in p + 1 .. j :
          Cell(j) = "=" /\ Emit("key", p, e, j + 1) /\ UNCHANGED err
    BY <1>11, KindsNamed DEF ScanKeyToken
  <2>2. j + 1 \in 1 .. End /\ off < j + 1
    BY <1>2, <2>1, EndTyped
  <2>3. QED
    BY <2>1, <2>2, EmitForward, KindsNamed
<1>12. CASE ScanValueToken(p) /\ ~\E kind \in ErrorKinds : Fail(kind, p)
  <2>1. PICK e \in p .. End : Literal(p, e) /\ Emit("scalar", p, e, e) /\ UNCHANGED err
    BY <1>12, KindsNamed DEF ScanValueToken
  <2>2. p < e
    <3>1. e = p + 1 \/ p < e
      BY <2>1 DEF Literal
    <3>2. QED
      BY <1>2, <3>1
  <2>3. e \in 1 .. End /\ off < e
    BY <1>2, <2>2
  <2>4. QED
    BY <2>1, <2>3, EmitForward, KindsNamed
<1>13. QED
  BY <1>1, <1>3, <1>4, <1>5, <1>6, <1>7, <1>8, <1>9, <1>10, <1>11, <1>12

LEMMA InitRead == Init => ReadSoFar
<1>1. SUFFICES ASSUME Init PROVE ReadSoFar
  OBVIOUS
<1>2. PICK doc \in Inputs : NewDecoder(doc)
  BY <1>1 DEF Init
<1>3. off \in Nat /\ decodeStart = off
  BY <1>2 DEF NewDecoder
<1>4. err.kind \in StickyKinds \cup {"none"}
  BY <1>2 DEF NewDecoder, Result, Nothing, StickyKinds
<1>5. out.kind # "eof"
  BY <1>1 DEF Init, Nothing, Result
<1>6. QED
  BY <1>1, <1>3, <1>4, <1>5 DEF Init, ReadSoFar, CleanEOF

LEMMA NextRead ==
  ASSUME TypeOK, DispatchFlags, ReadSoFar, [Next]_vars
  PROVE  ReadSoFar'
<1>1. off \in Nat /\ decodeStart \in Nat /\ End \in Nat /\ off <= End
  BY EndTyped DEF TypeOK
<1>2. CASE UNCHANGED vars
  BY <1>2 DEF vars, ReadSoFar, CleanEOF, InArray, End
<1>3. CASE ReadTokenLoop
  <2>1. Forward
    BY <1>3, LoopForward
  <2>2. TypeOK'
    BY <1>3, LoopTyped
  <2>3. off' \in Nat /\ off' <= End /\ End' = End
    BY <2>1, <2>2 DEF TypeOK, Forward, End
  <2>4. decodeStart' <= off' /\ (tokens' # << >> => decodeStart' < off')
    BY <1>1, <2>1, <2>3 DEF Forward, ReadSoFar
  <2>5. decoded' => off' = End' /\ tokens' = << >>
    BY <1>1, <2>1, <2>3 DEF Forward, ReadSoFar
  <2>6. CleanEOF'
    BY <1>1, <2>1, <2>3 DEF Forward, ReadSoFar, CleanEOF
  <2>7. QED
    BY <2>1, <2>4, <2>5, <2>6 DEF Forward, ReadSoFar
<1>4. CASE ReadTokenSticky \/ ReadTokenBegins
  <2>1. UNCHANGED <<fixed, off, err, flags, depths, tokens>> /\ (out' = err \/ out' = out)
    BY <1>4 DEF ReadTokenSticky, ReadTokenBegins
  <2>2. err.kind # "eof"
    BY DEF ReadSoFar, StickyKinds
  <2>3. QED
    BY <2>1, <2>2 DEF ReadSoFar, CleanEOF, InArray, End, fixed, flags, depths
<1>5. CASE Decode
  <2>1. UNCHANGED <<buf, decodeStart, err, flags, depths, tokens>>
    BY <1>5 DEF Decode
  <2>2. out'.kind # "eof"
    BY <1>5 DEF Decode, Result, ReadSoFar, StickyKinds
  <2>3. CASE UNCHANGED <<decoded, off>>
    BY <2>1, <2>2, <2>3 DEF ReadSoFar, CleanEOF, End
  <2>4. CASE ~UNCHANGED <<decoded, off>>
    <3>1. off = decodeStart /\ off' = End /\ decoded' = TRUE
      BY <1>5, <2>4 DEF Decode, Untouched
    <3>2. tokens = << >>
      BY <1>1, <3>1 DEF ReadSoFar
    <3>3. QED
      BY <1>1, <2>1, <2>2, <3>1, <3>2 DEF ReadSoFar, CleanEOF, End
  <2>5. QED
    BY <2>3, <2>4
<1>6. QED
  BY <1>2, <1>3, <1>4, <1>5 DEF Next

LEMMA ReadInvariant == Spec => []ReadSoFar
<1>1. QED
  BY InitRead, NextRead, TypeCorrect, FlagsAgree, PTL DEF Spec

\* io.EOF means what a caller takes it for: everything was read, no value is missing and no
\* array is open.  An inline table may still be open; closing it is not checked.
THEOREM EOFIsClean == Spec => []CleanEOF
<1>1. ReadSoFar => CleanEOF
  BY DEF ReadSoFar
<1>2. QED
  BY <1>1, ReadInvariant, PTL

\* Reading tokens and binding the document exclude each other on every Decoder.
THEOREM DecodeOrRead == Spec => []DecodeExclusive
<1>1. ReadSoFar => DecodeExclusive
  BY DEF ReadSoFar, DecodeExclusive
<1>2. QED
  BY <1>1, ReadInvariant, PTL

-----------------------------------------------------------------------------
(* What is passed over between two tokens.                                 *)

\* A cell the reader may pass over without handing it out.
Passed(k) == buf[k] \in {"sp", "nl", "=", ","} \/ CRLF(k)

\* What an iteration that leaves no error behind does with the cells it moves past.
Accounted ==
  err' = Nothing =>
    \/ /\ tokens' = tokens /\ off <= off'
       /\ \A k \in off .. off' - 1 : Passed(k)
    \/ \E t \in Results :
         /\ tokens' = Append(tokens, t)
         /\ off <= t.at /\ t.at < t.end /\ t.end <= off'
         /\ \A k \in off .. off' - 1 : Passed(k) \/ k \in t.at .. t.end - 1

\* skipSpaces passes blanks and line ends only.
LEMMA SpacesPassed ==
  ASSUME TypeOK, NEW p \in off .. End, SkipsTo(p)
  PROVE  \A k \in off .. p - 1 : Passed(k)
<1>1. ASSUME NEW k \in off .. p - 1 PROVE Passed(k)
  <2>1. Blank(k) /\ k < End
    BY EndTyped DEF SkipsTo
  <2>2. Cell(k) = buf[k]
    BY <2>1 DEF Cell
  <2>3. QED
    BY <2>1, <2>2 DEF Blank, Passed
<1>2. QED
  BY <1>1

LEMMA StopAccounted ==
  ASSUME TypeOK, NEW p \in off .. End, SkipsTo(p), off' = p, tokens' = tokens
  PROVE  Accounted
BY SpacesPassed, EndTyped DEF Accounted

LEMMA FailAccounted ==
  ASSUME TypeOK, NEW kind, NEW p \in off .. End, SkipsTo(p), Fail(kind, p)
  PROVE  Accounted
BY StopAccounted DEF Fail

\* A token starts where skipSpaces stopped; what lies between its end and the place where
\* reading resumes is left to the caller.
LEMMA EmitAccounted ==
  ASSUME TypeOK, NEW kind \in TokenKinds, NEW p \in off .. End, NEW e \in Nat, NEW next \in Nat,
         SkipsTo(p), Emit(kind, p, e, next), p < e, e <= next,
         \A k \in e .. next - 1 : Passed(k)
  PROVE  Accounted
<1>1. p \in Nat /\ off \in Nat /\ off <= p
  BY EndTyped
<1>2. PICK t : t = Result(kind, p, e)
  OBVIOUS
<1>3. t \in Results /\ t.at = p /\ t.end = e
  BY <1>1, <1>2 DEF Results, Result
<1>4. tokens' = Append(tokens, t) /\ off' = next
  BY <1>2 DEF Emit
<1>5. \A k \in off .. next - 1 : Passed(k) \/ k \in p .. e - 1
  BY <1>1, SpacesPassed
<1>6. QED
  BY <1>1, <1>3, <1>4, <1>5 DEF Accounted

LEMMA HeaderAccounted ==
  ASSUME TypeOK, NEW p \in off .. End, NEW open \in {1, 2}, SkipsTo(p),
         NEW kind \in {"header", "arrayHeader"}, ScanHeader(p, open, kind)
  PROVE  Accounted
<1>1. PICK e \in p + open .. End : ScanHeader(p, open, kind)!(e)
  BY DEF ScanHeader
<1>2. p \in Nat /\ e + open \in Nat /\ p < e + open
  BY EndTyped
<1>3. CASE Fail("string", p) \/ Fail("syntax", p)
  BY <1>3, FailAccounted
<1>4. CASE out' = Result("limit", p, p) /\ err' = out'
  BY <1>4 DEF Accounted, Nothing, Result
<1>5. CASE Emit(kind, p, e + open, e + open)
  BY <1>2, <1>5, EmitAccounted, KindsNamed
<1>6. QED
  BY <1>1, <1>3, <1>4, <1>5

LEMMA LoopAccounted ==
  ASSUME TypeOK, ReadTokenLoop
  PROVE  Accounted
<1>1. PICK p \in off .. End : ReadTokenLoop!2!(p)
  BY DEF ReadTokenLoop
<1>2. p \in Nat /\ off \in Nat /\ End \in Nat /\ off <= p /\ p <= End
  BY EndTyped
<1>0. SkipsTo(p)
  BY <1>1
<1>3. CASE \E kind \in ErrorKinds : Fail(kind, p)
  BY <1>0, <1>2, <1>3, FailAccounted
<1>4. CASE (AtEnd(p) \/ LineBreakDue(p)) /\ ~\E kind \in ErrorKinds : Fail(kind, p)
  <2>1. off' = p /\ tokens' = tokens
    BY <1>4, KindsNamed DEF AtEnd, LineBreakDue
  <2>2. QED
    BY <1>0, <1>2, <2>1, StopAccounted
<1>5. CASE Comma(p) /\ ~\E kind \in ErrorKinds : Fail(kind, p)
  <2>1. off' = p + 1
    BY <1>5, KindsNamed DEF Comma, Dispatch
  <2>9. tokens' = tokens
    BY <1>5, KindsNamed DEF Comma, Dispatch
  <2>7. Passed(p)
    BY <1>5 DEF Comma, Dispatch, Cell, Passed
  <2>3. \A k \in off .. off' - 1 : k \in off .. p - 1 \/ k = p
    BY <1>2, <2>1
  <2>4. \A k \in off .. off' - 1 : Passed(k)
    BY <1>0, <2>7, <2>3, SpacesPassed
  <2>5. off <= off'
    BY <1>2, <2>1
  <2>6. QED
    BY <2>9, <2>4, <2>5 DEF Accounted
<1>6. CASE \/ BareCarriageReturn(p) \/ ExpectedComma(p) \/ UnexpectedEquals(p)
           \/ MissingSeparator(p)
  BY <1>0, <1>2, <1>6, FailAccounted
  DEF BareCarriageReturn, ExpectedComma, UnexpectedEquals, MissingSeparator
<1>7. CASE ScanTableHeader(p) \/ ScanArrayTableHeader(p)
  BY <1>0, <1>2, <1>7, HeaderAccounted DEF ScanTableHeader, ScanArrayTableHeader
<1>8. CASE \/ ScanArrayStart(p) \/ ScanInlineTableStart(p)
           \/ ScanArrayEnd(p) \/ ScanInlineTableEnd(p)
  <2>1. \E kind \in TokenKinds : Emit(kind, p, p + 1, p + 1)
    BY <1>8, KindsNamed DEF ScanArrayStart, ScanInlineTableStart, ScanArrayEnd,
                            ScanInlineTableEnd, CloseContainer
  <2>2. QED
    BY <1>0, <1>2, <2>1, EmitAccounted
<1>9. CASE ScanComment(p) /\ ~\E kind \in ErrorKinds : Fail(kind, p)
  <2>1. PICK e \in p + 1 .. End : Emit("comment", p, e, e)
    BY <1>9, KindsNamed DEF ScanComment
  <2>2. QED
    BY <1>0, <1>2, <2>1, EmitAccounted, KindsNamed
<1>10. CASE ScanKeyToken(p) /\ ~\E kind \in ErrorKinds : Fail(kind, p)
  <2>1. PICK j \in p .. End : \E e \in p + 1 .. j :
          Cell(j) = "=" /\ KeyEndsAt(p, e, j) /\ Emit("key", p, e, j + 1)
    BY <1>10, KindsNamed DEF ScanKeyToken
  <2>2. PICK e \in p + 1 .. j :
          Cell(j) = "=" /\ KeyEndsAt(p, e, j) /\ Emit("key", p, e, j + 1)
    BY <2>1
  <2>3. \A k \in e .. j - 1 : Passed(k)
    BY <2>2 DEF KeyEndsAt, Passed
  <2>4. Passed(j)
    BY <2>2, EndTyped DEF Cell, Passed
  <2>5. \A k \in e .. j : Passed(k)
    BY <1>2, <2>3, <2>4
  <2>6. e \in Nat /\ j + 1 \in Nat /\ p < e /\ e <= j + 1
    BY <1>2
  <2>7. \A k \in e .. (j + 1) - 1 : Passed(k)
    BY <1>2, <2>5
  <2>8. QED
    BY <1>0, <1>2, <2>2, <2>6, <2>7, EmitAccounted, KindsNamed
<1>11. CASE ScanValueToken(p) /\ ~\E kind \in ErrorKinds : Fail(kind, p)
  <2>1. PICK e \in p .. End : Literal(p, e) /\ Emit("scalar", p, e, e)
    BY <1>11, KindsNamed DEF ScanValueToken
  <2>2. e = p + 1 \/ p < e
    BY <2>1 DEF Literal
  <2>3. e \in Nat /\ p < e
    BY <1>2, <2>2
  <2>4. QED
    BY <1>0, <1>2, <2>1, <2>3, EmitAccounted, KindsNamed
<1>12. QED
  BY <1>1, <1>3, <1>4, <1>5, <1>6, <1>7, <1>8, <1>9, <1>10, <1>11

\* The two parts of NothingSkipped, for a history and an offset.
InOrder(ts, o) ==
  \A i \in 1 .. Len(ts) : /\ ts[i].at < ts[i].end /\ ts[i].end <= o
                          /\ i > 1 => ts[i - 1].end <= ts[i].at
HandedOut(ts, k) == \E i \in 1 .. Len(ts) : k \in ts[i].at .. ts[i].end - 1
Accounting(ts, o) ==
  InOrder(ts, o) /\ \A k \in decodeStart .. o - 1 : Passed(k) \/ HandedOut(ts, k)

LEMMA SkippedParts == NothingSkipped <=> (~decoded /\ err = Nothing => Accounting(tokens, off))
BY Zenon DEF NothingSkipped, Accounting, InOrder, HandedOut, Passed

\* A step that leaves the buffer and its start alone changes no cell's part in this.
LEMMA SkippedPartsNext ==
  ASSUME buf' = buf, decodeStart' = decodeStart
  PROVE  NothingSkipped' <=> (~decoded' /\ err' = Nothing => Accounting(tokens', off'))
<1>1. \A k : CRLF(k)' <=> CRLF(k)
  BY DEF CRLF, Cell, End
<1>2. QED
  BY <1>1, Zenon DEF NothingSkipped, Accounting, InOrder, HandedOut, Passed

\* Moving on without a token keeps the order.
LEMMA OrderMoved ==
  ASSUME NEW ts \in Seq(Results), NEW o \in Nat, NEW n \in Nat, o <= n, InOrder(ts, o)
  PROVE  InOrder(ts, n)
<1>1. ASSUME NEW i \in 1 .. Len(ts)
      PROVE  /\ ts[i].at < ts[i].end /\ ts[i].end <= n
             /\ i > 1 => ts[i - 1].end <= ts[i].at
  <2>1. /\ ts[i].at < ts[i].end /\ ts[i].end <= o
        /\ i > 1 => ts[i - 1].end <= ts[i].at
    BY DEF InOrder
  <2>2. ts[i] \in Results
    BY ElementOfSeq
  <2>3. ts[i].end \in Nat
    BY <2>2 DEF Results
  <2>4. QED
    BY <2>1, <2>3
<1>2. QED
  BY <1>1 DEF InOrder

\* The history with one more token behind everything read so far.
LEMMA OrderAppended ==
  ASSUME NEW ts \in Seq(Results), NEW o \in Nat, NEW n \in Nat, NEW t \in Results,
         InOrder(ts, o), o <= t.at, t.at < t.end, t.end <= n
  PROVE  InOrder(Append(ts, t), n)
<1>1. PICK us : us = Append(ts, t)
  OBVIOUS
<1>2. /\ Len(us) = Len(ts) + 1 /\ Len(ts) \in Nat
      /\ \A i \in 1 .. Len(ts) : us[i] = ts[i]
      /\ us[Len(ts) + 1] = t
  BY <1>1, AppendProperties
<1>3. t.at \in Nat /\ t.end \in Nat /\ o <= n
  BY DEF Results
<1>4. InOrder(ts, n)
  BY <1>3, OrderMoved
<1>5. ASSUME NEW i \in 1 .. Len(ts)
      PROVE  /\ us[i].at < us[i].end /\ us[i].end <= n
             /\ i > 1 => us[i - 1].end <= us[i].at
  <2>1. /\ ts[i].at < ts[i].end /\ ts[i].end <= n
        /\ i > 1 => ts[i - 1].end <= ts[i].at
    BY <1>4 DEF InOrder
  <2>2. i > 1 => us[i - 1] = ts[i - 1]
    BY <1>2
  <2>3. QED
    BY <1>2, <2>1, <2>2
<1>6. Len(ts) >= 1 => us[Len(ts)].end <= t.at
  <2>1. SUFFICES ASSUME Len(ts) \in 1 .. Len(ts) PROVE us[Len(ts)].end <= t.at
    BY <1>2
  <2>2. ts[Len(ts)].end <= o /\ ts[Len(ts)] \in Results
    BY <2>1, ElementOfSeq DEF InOrder
  <2>3. ts[Len(ts)].end \in Nat
    BY <2>2 DEF Results
  <2>4. ts[Len(ts)].end <= t.at
    BY <1>3, <2>2, <2>3
  <2>5. QED
    BY <1>2, <2>1, <2>4
<1>7. ASSUME NEW i \in 1 .. Len(us)
      PROVE  /\ us[i].at < us[i].end /\ us[i].end <= n
             /\ i > 1 => us[i - 1].end <= us[i].at
  <2>1. CASE i \in 1 .. Len(ts)
    BY <1>5, <2>1
  <2>2. CASE i = Len(ts) + 1
    <3>1. us[i] = t /\ i - 1 = Len(ts) /\ (i > 1 => Len(ts) >= 1)
      BY <1>2, <2>2
    <3>2. QED
      BY <1>6, <3>1
  <2>3. QED
    BY <1>2, <2>1, <2>2
<1>8. QED
  BY <1>1, <1>7 DEF InOrder

LEMMA HandedOutAppended ==
  ASSUME NEW ts \in Seq(Results), NEW t \in Results, NEW k
  PROVE  /\ HandedOut(ts, k) => HandedOut(Append(ts, t), k)
         /\ k \in t.at .. t.end - 1 => HandedOut(Append(ts, t), k)
<1>1. PICK us : us = Append(ts, t)
  OBVIOUS
<1>2. /\ Len(us) = Len(ts) + 1 /\ Len(ts) \in Nat
      /\ \A i \in 1 .. Len(ts) : us[i] = ts[i] /\ i \in 1 .. Len(us)
      /\ us[Len(us)] = t /\ Len(us) \in 1 .. Len(us)
  BY <1>1, AppendProperties
<1>3. QED
  BY <1>1, <1>2 DEF HandedOut

LEMMA LoopSkips ==
  ASSUME TypeOK, TypeOK', DispatchFlags, ReadSoFar, NothingSkipped, ReadTokenLoop
  PROVE  NothingSkipped'
<1>1. /\ buf' = buf /\ decodeStart' = decodeStart /\ decoded' = decoded
      /\ err'.kind \in StickyKinds \/ err' = err
  BY LoopForward DEF Forward
<1>2. SUFFICES ASSUME ~decoded, err' = Nothing PROVE Accounting(tokens', off')
  BY <1>1, SkippedPartsNext
<1>3. err = Nothing
  BY <1>1, <1>2 DEF Nothing, Result, StickyKinds
<1>4. off \in Nat /\ off' \in Nat /\ decodeStart \in Nat /\ decodeStart <= off
  BY DEF TypeOK, ReadSoFar
<1>10. tokens \in Seq(Results)
  BY DEF TypeOK
<1>5. /\ InOrder(tokens, off)
      /\ \A k \in decodeStart .. off - 1 : Passed(k) \/ HandedOut(tokens, k)
  BY <1>2, <1>3, SkippedParts DEF Accounting
<1>6. \A k \in decodeStart .. off' - 1 : k \in decodeStart .. off - 1 \/ k \in off .. off' - 1
  <2>1. \A a, b, c \in Nat : \A k \in a .. c - 1 : k \in a .. b - 1 \/ k \in b .. c - 1
    OBVIOUS
  <2>2. QED
    BY <1>4, <2>1
<1>7. CASE /\ tokens' = tokens /\ off <= off'
           /\ \A k \in off .. off' - 1 : Passed(k)
  <2>1. InOrder(tokens, off')
    BY <1>4, <1>5, <1>7, <1>10, OrderMoved
  <2>2. QED
    BY <1>5, <1>6, <1>7, <2>1 DEF Accounting
<1>8. CASE \E t \in Results :
             /\ tokens' = Append(tokens, t)
             /\ off <= t.at /\ t.at < t.end /\ t.end <= off'
             /\ \A k \in off .. off' - 1 : Passed(k) \/ k \in t.at .. t.end - 1
  <2>1. PICK t \in Results :
             /\ tokens' = Append(tokens, t)
             /\ off <= t.at /\ t.at < t.end /\ t.end <= off'
             /\ \A k \in off .. off' - 1 : Passed(k) \/ k \in t.at .. t.end - 1
    BY <1>8
  <2>2. InOrder(tokens', off')
    BY <1>4, <1>5, <1>10, <2>1, OrderAppended
  <2>3. \A k \in decodeStart .. off' - 1 : Passed(k) \/ HandedOut(tokens', k)
    BY <1>5, <1>6, <1>10, <2>1, HandedOutAppended
  <2>4. QED
    BY <2>2, <2>3 DEF Accounting
<1>9. QED
  BY <1>2, <1>7, <1>8, LoopAccounted DEF Accounted

\* Between any two tokens of any document the reader passes over blanks, line ends and
\* separators only, whatever the flags say: no text is lost and none is handed out twice.
THEOREM EverythingRead == Spec => []NothingSkipped
<1>1. Init => NothingSkipped
  <2>1. SUFFICES ASSUME Init PROVE Accounting(tokens, off)
    BY SkippedParts
  <2>2. decodeStart = off /\ off \in Nat /\ tokens = << >>
    BY <2>1, InitTyped DEF Init, NewDecoder, TypeOK
  <2>3. Len(tokens) = 0 /\ ~\E k \in decodeStart .. off - 1 : TRUE
    BY <2>2
  <2>4. QED
    BY <2>3 DEF Accounting, InOrder
<1>2. TypeOK /\ TypeOK' /\ DispatchFlags /\ ReadSoFar /\ NothingSkipped /\ [Next]_vars
        => NothingSkipped'
  <2>1. SUFFICES ASSUME TypeOK, TypeOK', DispatchFlags, ReadSoFar, NothingSkipped, [Next]_vars
                 PROVE  NothingSkipped'
    OBVIOUS
  <2>2. CASE ~ReadTokenLoop
    <3>1. /\ buf' = buf /\ decodeStart' = decodeStart /\ err' = err /\ tokens' = tokens
          /\ (decoded' = decoded /\ off' = off) \/ decoded' = TRUE
      BY <2>1, <2>2 DEF Next, vars, ReadTokenSticky, ReadTokenBegins, fixed, Decode
    <3>2. CASE decoded' = TRUE
      BY <3>1, <3>2, SkippedPartsNext
    <3>3. CASE decoded' = decoded /\ off' = off
      <4>1. ~decoded /\ err = Nothing => Accounting(tokens, off)
        BY <2>1, SkippedParts
      <4>2. ~decoded' /\ err' = Nothing => Accounting(tokens', off')
        BY <3>1, <3>3, <4>1
      <4>3. QED
        BY <3>1, <4>2, SkippedPartsNext
    <3>4. QED
      BY <3>1, <3>2, <3>3
  <2>3. QED
    BY <2>1, <2>2, LoopSkips
<1>3. QED
  BY <1>1, <1>2, TypeCorrect, FlagsAgree, ReadInvariant, PTL DEF Spec

-----------------------------------------------------------------------------
(* The depth counters and the stack.                                       *)

Openers == {"arrayStart", "inlineStart"}
Closers == {"arrayEnd", "inlineEnd"}
OpenIn(s, kind) == {i \in DOMAIN s : s[i] = kind}
CountIn(ts, kinds) == Cardinality({i \in DOMAIN ts : ts[i].kind \in kinds})

\* For tokens ts, open containers s and counters a and n: every closer closed at most one
\* container, and as long as each closed its own the counters say what is open.
Counted(ts, s, a, n) ==
  /\ a <= Cardinality(OpenIn(s, "array"))
  /\ n <= Cardinality(OpenIn(s, "inline"))
  /\ CountIn(ts, Openers) <= CountIn(ts, Closers) + Len(s)
  /\ CountIn(ts, Openers) = CountIn(ts, Closers) + Len(s) => a + n = Len(s)

DepthsCounted ==
  /\ Counted(tokens, stack, arrayDepth, inlineDepth)
  /\ err = Nothing => arrayDepth <= MaxNestedDepth

LEMMA IndexCount ==
  ASSUME NEW n \in Nat, NEW A \in SUBSET (1 .. n)
  PROVE  /\ Cardinality(A) \in Nat /\ Cardinality(A) <= n
         /\ Cardinality(A \cup {n + 1}) = Cardinality(A) + 1
<1>1. IsFiniteSet(1 .. n) /\ Cardinality(1 .. n) = n
  BY FS_Interval
<1>2. IsFiniteSet(A) /\ Cardinality(A) <= Cardinality(1 .. n)
  BY <1>1, FS_Subset
<1>3. n + 1 \notin A
  OBVIOUS
<1>4. Cardinality(A) \in Nat
  BY <1>2, FS_CardinalityType
<1>5. Cardinality(A \cup {n + 1}) = Cardinality(A) + 1
  BY <1>2, <1>3, FS_AddElement
<1>6. QED
  BY <1>1, <1>2, <1>4, <1>5

LEMMA CountAppended ==
  ASSUME NEW ts \in Seq(Results), NEW t \in Results, NEW kinds
  PROVE  /\ CountIn(ts, kinds) \in Nat
         /\ CountIn(Append(ts, t), kinds)
              = IF t.kind \in kinds THEN CountIn(ts, kinds) + 1 ELSE CountIn(ts, kinds)
<1>1. PICK us : us = Append(ts, t)
  OBVIOUS
<1>2. PICK m : m = Len(ts)
  OBVIOUS
<1>3. /\ m \in Nat /\ DOMAIN ts = 1 .. m /\ DOMAIN us = 1 .. m + 1
      /\ \A i \in 1 .. m : us[i] = ts[i]
      /\ us[m + 1] = t
  BY <1>1, <1>2, AppendProperties, LenProperties
<1>4. PICK A : A = {i \in DOMAIN ts : ts[i].kind \in kinds}
  OBVIOUS
<1>5. A \in SUBSET (1 .. m)
  BY <1>3, <1>4
<1>6. {i \in DOMAIN us : us[i].kind \in kinds} = IF t.kind \in kinds THEN A \cup {m + 1} ELSE A
  BY <1>3, <1>4
<1>7. Cardinality(A) \in Nat /\ Cardinality(A \cup {m + 1}) = Cardinality(A) + 1
  BY <1>3, <1>5, IndexCount
<1>8. QED
  BY <1>1, <1>4, <1>6, <1>7 DEF CountIn

\* One more container is open, of its own kind.
LEMMA OpenPushed ==
  ASSUME NEW s \in Seq(Containers), NEW c \in Containers, NEW kind
  PROVE  /\ Cardinality(OpenIn(s, kind)) \in Nat
         /\ Len(Append(s, c)) = Len(s) + 1
         /\ Cardinality(OpenIn(Append(s, c), kind))
              = IF c = kind THEN Cardinality(OpenIn(s, kind)) + 1
                ELSE Cardinality(OpenIn(s, kind))
<1>1. PICK r : r = Append(s, c)
  OBVIOUS
<1>2. PICK m : m = Len(s)
  OBVIOUS
<1>3. /\ m \in Nat /\ DOMAIN s = 1 .. m /\ DOMAIN r = 1 .. m + 1 /\ Len(r) = m + 1
      /\ \A i \in 1 .. m : r[i] = s[i]
      /\ r[m + 1] = c
  BY <1>1, <1>2, AppendProperties, LenProperties
<1>4. OpenIn(s, kind) \in SUBSET (1 .. m)
  BY <1>3 DEF OpenIn
<1>5. OpenIn(r, kind) = IF c = kind THEN OpenIn(s, kind) \cup {m + 1} ELSE OpenIn(s, kind)
  BY <1>3 DEF OpenIn
<1>6. /\ Cardinality(OpenIn(s, kind)) \in Nat
      /\ Cardinality(OpenIn(s, kind) \cup {m + 1}) = Cardinality(OpenIn(s, kind)) + 1
  BY <1>3, <1>4, IndexCount
<1>7. QED
  BY <1>1, <1>2, <1>3, <1>5, <1>6

\* What is open is an array or an inline table.
LEMMA OpenTotal ==
  ASSUME NEW s \in Seq(Containers)
  PROVE  /\ Cardinality(OpenIn(s, "array")) + Cardinality(OpenIn(s, "inline")) = Len(s)
         /\ Cardinality(OpenIn(s, "array")) \in Nat
         /\ Cardinality(OpenIn(s, "inline")) \in Nat
<1>1. PICK m : m = Len(s)
  OBVIOUS
<1>2. m \in Nat /\ DOMAIN s = 1 .. m /\ \A i \in 1 .. m : s[i] \in Containers
  BY <1>1, LenProperties, ElementOfSeq
<1>3. PICK A, B : A = OpenIn(s, "array") /\ B = OpenIn(s, "inline")
  OBVIOUS
<1>4. A \cup B = 1 .. m /\ A \cap B = {}
  BY <1>2, <1>3 DEF OpenIn, Containers
<1>5. IsFiniteSet(1 .. m) /\ Cardinality(1 .. m) = m
  BY <1>2, FS_Interval
<1>6. IsFiniteSet(A) /\ IsFiniteSet(B)
  BY <1>4, <1>5, FS_Subset
<1>7. Cardinality(A) \in Nat /\ Cardinality(B) \in Nat /\ Cardinality(A \cap B) = 0
  BY <1>4, <1>6, FS_CardinalityType, FS_EmptySet
<1>8. Cardinality(A \cup B) = Cardinality(A) + Cardinality(B) - Cardinality(A \cap B)
  BY <1>6, FS_Union
<1>9. Cardinality(A \cup B) = m
  BY <1>4, <1>5
<1>10. Cardinality(A) + Cardinality(B) = m
  BY <1>2, <1>7, <1>8, <1>9
<1>11. QED
  BY <1>1, <1>3, <1>7, <1>10

\* The counts of a stack and of the stack below its top.
LEMMA OpenPopped ==
  ASSUME NEW s \in Seq(Containers), s # << >>, NEW kind
  PROVE  /\ Cardinality(OpenIn(Front(s), kind)) \in Nat
         /\ Len(s) = Len(Front(s)) + 1
         /\ Cardinality(OpenIn(s, kind))
              = IF Last(s) = kind THEN Cardinality(OpenIn(Front(s), kind)) + 1
                ELSE Cardinality(OpenIn(Front(s), kind))
<1>1. PICK f, c : f = Front(s) /\ c = Last(s)
  OBVIOUS
<1>2. f \in Seq(Containers)
  BY <1>1, FrontOfSeq
<1>3. Len(s) \in Nat \ {0} /\ \A i \in 1 .. Len(s) : s[i] \in Containers
  BY EmptySeq, ElementOfSeq
<1>4. c \in Containers
  BY <1>1, <1>3 DEF Last
<1>5. s = Append(f, c)
  <2>1. Len(f) = Len(s) - 1 /\ \A i \in 1 .. Len(s) - 1 : f[i] = s[i]
    BY <1>1, FrontParts
  <2>2. PICK r : r = Append(f, c)
    OBVIOUS
  <2>3. /\ r \in Seq(Containers) /\ Len(r) = Len(f) + 1
        /\ \A i \in 1 .. Len(f) : r[i] = f[i]
        /\ r[Len(f) + 1] = c
    BY <1>2, <1>4, <2>2, AppendProperties
  <2>4. Len(r) = Len(s) /\ \A i \in 1 .. Len(s) : r[i] = s[i]
    BY <1>1, <1>3, <2>1, <2>3 DEF Last
  <2>5. QED
    BY <2>2, <2>3, <2>4, SeqEqual
<1>6. QED
  BY <1>1, <1>2, <1>4, <1>5, OpenPushed

\* The arithmetic of an opener and of a closer that pops its own container: opened and
\* closed so far, open now or afterwards, of one kind and of the other, and the counters.
LEMMA CountsOpen ==
  ASSUME NEW o \in Nat, NEW c \in Nat, NEW l \in Nat, NEW a \in Nat, NEW n \in Nat,
         NEW b \in Nat, NEW m \in Nat, b + m = a + n + 1,
         o <= c + l, o = c + l => a + n = l
  PROVE  /\ o + 1 <= c + (l + 1)
         /\ o + 1 = c + (l + 1) => b + m = l + 1
OBVIOUS

CloseSums(o, c, l, x, y, a, n, b) ==
  /\ x + y = l /\ a <= x + 1 /\ n <= y
  /\ o <= c + l + 1 /\ (o = c + l + 1 => a + n = l + 1)
  /\ b = IF a > 0 THEN a - 1 ELSE 0

\* A token that neither opens nor closes counts for nothing.
LEMMA CountedOther ==
  ASSUME NEW ts \in Seq(Results), NEW t \in Results, NEW s, NEW a, NEW n,
         Counted(ts, s, a, n), t.kind \notin Openers \cup Closers
  PROVE  Counted(Append(ts, t), s, a, n)
<1>1. /\ CountIn(Append(ts, t), Openers) = CountIn(ts, Openers)
      /\ CountIn(Append(ts, t), Closers) = CountIn(ts, Closers)
  BY CountAppended
<1>2. QED
  BY <1>1 DEF Counted

LEMMA CountedOpen ==
  ASSUME NEW ts \in Seq(Results), NEW t \in Results, NEW s \in Seq(Containers),
         NEW c \in Containers, NEW a \in Nat, NEW n \in Nat, NEW b \in Nat, NEW m \in Nat,
         Counted(ts, s, a, n), t.kind \in Openers,
         b = IF c = "array" THEN a + 1 ELSE a,
         m = IF c = "array" THEN n ELSE n + 1
  PROVE  Counted(Append(ts, t), Append(s, c), b, m)
<1>1. t.kind \notin Closers
  BY DEF Openers, Closers
<1>2. /\ CountIn(Append(ts, t), Openers) = CountIn(ts, Openers) + 1
      /\ CountIn(Append(ts, t), Closers) = CountIn(ts, Closers)
      /\ CountIn(ts, Openers) \in Nat /\ CountIn(ts, Closers) \in Nat
  BY <1>1, CountAppended
<1>3. /\ Cardinality(OpenIn(s, "array")) \in Nat /\ Cardinality(OpenIn(s, "inline")) \in Nat
      /\ Len(s) \in Nat
  BY OpenTotal, LenProperties
<1>4. Len(Append(s, c)) = Len(s) + 1
  BY OpenPushed
<1>5. b <= Cardinality(OpenIn(Append(s, c), "array"))
  <2>1. Cardinality(OpenIn(Append(s, c), "array"))
          = IF c = "array" THEN Cardinality(OpenIn(s, "array")) + 1
            ELSE Cardinality(OpenIn(s, "array"))
    BY OpenPushed
  <2>2. QED
    BY <1>3, <2>1 DEF Counted
<1>6. m <= Cardinality(OpenIn(Append(s, c), "inline"))
  <2>1. Cardinality(OpenIn(Append(s, c), "inline"))
          = IF c = "inline" THEN Cardinality(OpenIn(s, "inline")) + 1
            ELSE Cardinality(OpenIn(s, "inline"))
    BY OpenPushed
  <2>2. c = "inline" <=> c # "array"
    BY DEF Containers
  <2>3. QED
    BY <1>3, <2>1, <2>2 DEF Counted
<1>7. PICK o, d, l : o = CountIn(ts, Openers) /\ d = CountIn(ts, Closers) /\ l = Len(s)
  OBVIOUS
<1>8. o \in Nat /\ d \in Nat /\ l \in Nat
  BY <1>2, <1>3, <1>7
<1>9. b + m = a + n + 1
  OBVIOUS
<1>10. o <= d + l /\ (o = d + l => a + n = l)
  BY <1>7 DEF Counted
<1>11. o + 1 <= d + (l + 1) /\ (o + 1 = d + (l + 1) => b + m = l + 1)
  BY ONLY <1>8, <1>9, <1>10, CountsOpen, a \in Nat, n \in Nat, b \in Nat, m \in Nat
<1>12. /\ CountIn(Append(ts, t), Openers) = o + 1 /\ CountIn(Append(ts, t), Closers) = d
       /\ Len(Append(s, c)) = l + 1
  BY <1>2, <1>4, <1>7
<1>13. QED
  BY <1>5, <1>6, <1>11, <1>12 DEF Counted

\* A closer pops its own container, or counts as one that closed nothing.
LEMMA CountedClose ==
  ASSUME NEW ts \in Seq(Results), NEW t \in Results, NEW s \in Seq(Containers), NEW r,
         NEW want \in Containers, NEW a \in Nat, NEW n \in Nat, NEW b, NEW m,
         Counted(ts, s, a, n), t.kind \in Closers,
         r = IF s # << >> /\ Last(s) = want THEN Front(s) ELSE s,
         b = IF want = "array" THEN CountDown(a) ELSE a,
         m = IF want = "array" THEN n ELSE CountDown(n)
  PROVE  Counted(Append(ts, t), r, b, m)
<1>1. t.kind \notin Openers
  BY DEF Openers, Closers
<1>2. /\ CountIn(Append(ts, t), Openers) = CountIn(ts, Openers)
      /\ CountIn(Append(ts, t), Closers) = CountIn(ts, Closers) + 1
      /\ CountIn(ts, Openers) \in Nat /\ CountIn(ts, Closers) \in Nat
  BY <1>1, CountAppended
<1>3. /\ Cardinality(OpenIn(s, "array")) \in Nat /\ Cardinality(OpenIn(s, "inline")) \in Nat
      /\ Len(s) \in Nat
      /\ Cardinality(OpenIn(s, "array")) + Cardinality(OpenIn(s, "inline")) = Len(s)
  BY OpenTotal, LenProperties
<1>4. b \in Nat /\ m \in Nat /\ b <= a /\ m <= n
  BY CountDownTyped
<1>5. CASE s # << >> /\ Last(s) = want
  <2>1. r = Front(s) /\ Len(s) = Len(r) + 1
    BY <1>5, OpenPopped
  <2>2. r \in Seq(Containers) /\ Len(r) \in Nat
    BY <1>5, <2>1, FrontOfSeq, LenProperties
  <2>3. /\ Cardinality(OpenIn(r, "array")) \in Nat /\ Cardinality(OpenIn(r, "inline")) \in Nat
    BY <2>2, OpenTotal
  <2>4. PICK o, c, l, x, y :
          /\ o = CountIn(ts, Openers) /\ c = CountIn(ts, Closers) /\ l = Len(r)
          /\ x = Cardinality(OpenIn(r, "array")) /\ y = Cardinality(OpenIn(r, "inline"))
    OBVIOUS
  <2>5. o \in Nat /\ c \in Nat /\ l \in Nat /\ x \in Nat /\ y \in Nat /\ x + y = l
    BY <1>2, <2>2, <2>3, <2>4, OpenTotal
  <2>6. /\ CountIn(Append(ts, t), Openers) = o /\ CountIn(Append(ts, t), Closers) = c + 1
        /\ Len(s) = l + 1
    BY <1>2, <2>1, <2>4
  <2>7. o <= c + (l + 1) /\ (o = c + (l + 1) => a + n = l + 1)
    BY <2>4, <2>6 DEF Counted
  <2>8. CASE want = "array"
    <3>1. Cardinality(OpenIn(s, "array")) = x + 1 /\ Cardinality(OpenIn(s, "inline")) = y
      BY <1>5, <2>1, <2>4, <2>8, OpenPopped
    <3>2. a <= x + 1 /\ n <= y
      BY <3>1 DEF Counted
    <3>3. b = CountDown(a) /\ m = n
      BY <2>8
    <3>4. CloseSums(o, c, l, x, y, a, n, b)
      BY <2>5, <2>7, <3>2, <3>3 DEF CloseSums, CountDown
    <3>5. /\ b <= x /\ o <= (c + 1) + l
          /\ o = (c + 1) + l => b + n = l
      BY ONLY <2>5, <3>4, a \in Nat, n \in Nat DEF CloseSums
    <3>6. QED
      BY <2>4, <2>6, <3>2, <3>3, <3>5 DEF Counted
  <2>9. CASE want = "inline"
    <3>1. Cardinality(OpenIn(s, "array")) = x /\ Cardinality(OpenIn(s, "inline")) = y + 1
      BY <1>5, <2>1, <2>4, <2>9, OpenPopped
    <3>2. a <= x /\ n <= y + 1
      BY <3>1 DEF Counted
    <3>3. b = a /\ m = CountDown(n)
      BY <2>9
    <3>4. CloseSums(o, c, l, y, x, n, a, m)
      BY <2>5, <2>7, <3>2, <3>3 DEF CloseSums, CountDown
    <3>5. /\ m <= y /\ o <= (c + 1) + l
          /\ o = (c + 1) + l => m + a = l
      BY ONLY <2>5, <3>4, a \in Nat, n \in Nat DEF CloseSums
    <3>6. o = (c + 1) + l => b + m = l
      BY <1>4, <3>3, <3>5
    <3>7. QED
      BY <2>4, <2>6, <3>2, <3>3, <3>5, <3>6 DEF Counted
  <2>10. QED
    BY <2>8, <2>9 DEF Containers
<1>6. CASE ~(s # << >> /\ Last(s) = want)
  BY <1>2, <1>3, <1>4, <1>6 DEF Counted
<1>7. QED
  BY <1>5, <1>6

\* An iteration that neither opens nor closes a container.
Quiet == /\ UNCHANGED depths
         /\ \/ tokens' = tokens
            \/ \E t \in Results : /\ t.kind \notin Openers \cup Closers
                                  /\ tokens' = Append(tokens, t)

LEMMA EmitAppends ==
  ASSUME NEW kind \in TokenKinds, NEW p \in Nat, NEW e \in Nat, NEW next, Emit(kind, p, e, next)
  PROVE  \E t \in Results : t.kind = kind /\ tokens' = Append(tokens, t)
<1>1. Result(kind, p, e) \in Results /\ Result(kind, p, e).kind = kind
  BY DEF Results, Result
<1>2. QED
  BY <1>1 DEF Emit

\* Every iteration but those of the four brackets.
LEMMA LoopQuiet ==
  ASSUME TypeOK, NEW p \in off .. End, ReadTokenLoop!2!(p),
         ~(\/ ScanArrayStart(p) \/ ScanInlineTableStart(p)
           \/ ScanArrayEnd(p) \/ ScanInlineTableEnd(p))
  PROVE  Quiet
<1>1. p \in Nat /\ End \in Nat
  BY EndTyped
<1>2. \A kind : Fail(kind, p) => Quiet
  BY DEF Fail, Quiet
<1>3. ASSUME NEW kind \in {"header", "arrayHeader", "comment", "key", "scalar"}, NEW e \in Nat,
             NEW next, Emit(kind, p, e, next), UNCHANGED depths
      PROVE  Quiet
  <2>1. kind \in TokenKinds /\ kind \notin Openers \cup Closers
    BY DEF TokenKinds, Openers, Closers
  <2>2. QED
    BY <1>1, <1>3, <2>1, EmitAppends DEF Quiet
<1>4. CASE AtEnd(p) \/ LineBreakDue(p) \/ Comma(p)
  BY <1>2, <1>4 DEF AtEnd, LineBreakDue, Comma, Quiet
<1>5. CASE \/ BareCarriageReturn(p) \/ ExpectedComma(p) \/ UnexpectedEquals(p)
           \/ MissingSeparator(p)
  BY <1>2, <1>5
  DEF BareCarriageReturn, ExpectedComma, UnexpectedEquals, MissingSeparator
<1>6. ASSUME NEW open \in {1, 2}, NEW kind \in {"header", "arrayHeader"},
             ScanHeader(p, open, kind)
      PROVE  Quiet
  <2>1. PICK e \in p + open .. End : ScanHeader(p, open, kind)!(e)
    BY <1>6 DEF ScanHeader
  <2>2. CASE Fail("string", p) \/ Fail("syntax", p)
    BY <1>2, <2>2
  <2>3. CASE UNCHANGED <<fixed, flags, depths, tokens>>
    BY <2>3 DEF Quiet
  <2>4. CASE Emit(kind, p, e + open, e + open) /\ UNCHANGED depths
    <3>1. e + open \in Nat
      BY <1>1
    <3>2. QED
      BY <1>3, <2>4, <3>1
  <2>5. QED
    BY <2>1, <2>2, <2>3, <2>4
<1>7. CASE ScanTableHeader(p) \/ ScanArrayTableHeader(p)
  BY <1>6, <1>7 DEF ScanTableHeader, ScanArrayTableHeader
<1>8. CASE ScanComment(p)
  <2>1. CASE ~Fail("syntax", p)
    <3>1. PICK e \in p + 1 .. End : Emit("comment", p, e, e) /\ UNCHANGED depths
      BY <1>8, <2>1 DEF ScanComment
    <3>2. QED
      BY <1>1, <1>3, <3>1
  <2>2. QED
    BY <1>2, <2>1
<1>9. CASE ScanKeyToken(p)
  <2>1. CASE ~\E kind : Fail(kind, p)
    <3>1. PICK j \in p .. End : \E e \in p + 1 .. j :
            Emit("key", p, e, j + 1) /\ UNCHANGED depths
      BY <1>9, <2>1 DEF ScanKeyToken
    <3>2. QED
      BY <1>1, <1>3, <3>1
  <2>2. QED
    BY <1>2, <2>1
<1>10. CASE ScanValueToken(p)
  <2>1. CASE ~\E kind : Fail(kind, p)
    <3>1. PICK e \in p .. End : Emit("scalar", p, e, e) /\ UNCHANGED depths
      BY <1>10, <2>1 DEF ScanValueToken
    <3>2. QED
      BY <1>1, <1>3, <3>1
  <2>2. QED
    BY <1>2, <2>1
<1>11. QED
  BY <1>4, <1>5, <1>7, <1>8, <1>9, <1>10

LEMMA BracketCounted ==
  ASSUME TypeOK, DepthsCounted, NEW p \in off .. End,
         \/ ScanArrayStart(p) \/ ScanInlineTableStart(p)
         \/ ScanArrayEnd(p) \/ ScanInlineTableEnd(p)
  PROVE  DepthsCounted'
<1>1. p \in Nat /\ p + 1 \in Nat
  BY EndTyped
<1>2. /\ tokens \in Seq(Results) /\ stack \in Seq(Containers)
      /\ arrayDepth \in Nat /\ inlineDepth \in Nat
  BY DEF TypeOK
<1>3. Counted(tokens, stack, arrayDepth, inlineDepth)
  BY DEF DepthsCounted
<1>4. CASE ScanArrayStart(p)
  <2>1. PICK t \in Results : t.kind = "arrayStart" /\ tokens' = Append(tokens, t)
    BY <1>1, <1>4, EmitAppends, KindsNamed DEF ScanArrayStart
  <2>2. /\ stack' = Append(stack, "array") /\ arrayDepth' = arrayDepth + 1
        /\ inlineDepth' = inlineDepth
    BY <1>4 DEF ScanArrayStart
  <2>3. err' = IF arrayDepth' > MaxNestedDepth THEN Result("limit", p, p) ELSE err
    BY <1>4 DEF ScanArrayStart
  <2>4. t.kind \in Openers /\ "array" \in Containers
    BY <2>1 DEF Openers, Containers
  <2>5. Counted(tokens', stack', arrayDepth', inlineDepth')
    BY <1>2, <1>3, <2>1, <2>2, <2>4, CountedOpen
  <2>6. err' = Nothing => ~(arrayDepth' > MaxNestedDepth)
    BY <2>3 DEF Nothing, Result
  <2>7. arrayDepth' \in Nat /\ MaxNestedDepth \in Nat
    BY <1>2, <2>2, LimitsAssumption
  <2>8. QED
    BY <2>5, <2>6, <2>7 DEF DepthsCounted
<1>5. CASE ScanInlineTableStart(p)
  <2>1. PICK t \in Results : t.kind = "inlineStart" /\ tokens' = Append(tokens, t)
    BY <1>1, <1>5, EmitAppends, KindsNamed DEF ScanInlineTableStart
  <2>2. /\ stack' = Append(stack, "inline") /\ inlineDepth' = inlineDepth + 1
        /\ arrayDepth' = arrayDepth /\ err' = err
    BY <1>5 DEF ScanInlineTableStart
  <2>3. t.kind \in Openers /\ "inline" \in Containers /\ "inline" # "array"
    BY <2>1 DEF Openers, Containers
  <2>4. Counted(tokens', stack', arrayDepth', inlineDepth')
    BY <1>2, <1>3, <2>1, <2>2, <2>3, CountedOpen
  <2>5. QED
    BY <2>2, <2>4 DEF DepthsCounted
<1>6. CASE ScanArrayEnd(p)
  <2>1. PICK t \in Results : t.kind = "arrayEnd" /\ tokens' = Append(tokens, t)
    BY <1>1, <1>6, EmitAppends, KindsNamed DEF ScanArrayEnd, CloseContainer
  <2>2. /\ stack' = PopContainer("array") /\ arrayDepth' = CountDown(arrayDepth)
        /\ inlineDepth' = inlineDepth /\ err' = err
    BY <1>6 DEF ScanArrayEnd, CloseContainer
  <2>3. t.kind \in Closers /\ "array" \in Containers
    BY <2>1 DEF Closers, Containers
  <2>4. stack' = IF stack # << >> /\ Last(stack) = "array" THEN Front(stack) ELSE stack
    BY <2>2 DEF PopContainer
  <2>5. Counted(tokens', stack', arrayDepth', inlineDepth')
    BY <1>2, <1>3, <2>1, <2>2, <2>3, <2>4, CountedClose
  <2>6. arrayDepth' \in Nat /\ arrayDepth' <= arrayDepth /\ MaxNestedDepth \in Nat
    BY <1>2, <2>2, CountDownTyped, LimitsAssumption
  <2>7. QED
    BY <1>2, <2>2, <2>5, <2>6 DEF DepthsCounted
<1>7. CASE ScanInlineTableEnd(p)
  <2>1. PICK t \in Results : t.kind = "inlineEnd" /\ tokens' = Append(tokens, t)
    BY <1>1, <1>7, EmitAppends, KindsNamed DEF ScanInlineTableEnd, CloseContainer
  <2>2. /\ stack' = PopContainer("inline") /\ inlineDepth' = CountDown(inlineDepth)
        /\ arrayDepth' = arrayDepth /\ err' = err
    BY <1>7 DEF ScanInlineTableEnd, CloseContainer
  <2>3. t.kind \in Closers /\ "inline" \in Containers /\ "inline" # "array"
    BY <2>1 DEF Closers, Containers
  <2>4. stack' = IF stack # << >> /\ Last(stack) = "inline" THEN Front(stack) ELSE stack
    BY <2>2 DEF PopContainer
  <2>5. Counted(tokens', stack', arrayDepth', inlineDepth')
    BY <1>2, <1>3, <2>1, <2>2, <2>3, <2>4, CountedClose
  <2>6. QED
    BY <2>2, <2>5 DEF DepthsCounted
<1>8. QED
  BY <1>4, <1>5, <1>6, <1>7

LEMMA QuietCounted ==
  ASSUME TypeOK, DepthsCounted, Quiet, err' = Nothing => err = Nothing
  PROVE  DepthsCounted'
<1>1. UNCHANGED <<arrayDepth, inlineDepth, stack>> /\ tokens \in Seq(Results)
  BY DEF Quiet, depths, TypeOK
<1>2. Counted(tokens, stack, arrayDepth, inlineDepth)
  BY DEF DepthsCounted
<1>3. Counted(tokens', stack, arrayDepth, inlineDepth)
  BY <1>1, <1>2, CountedOther DEF Quiet
<1>4. QED
  BY <1>1, <1>3 DEF DepthsCounted

LEMMA LoopCounted ==
  ASSUME TypeOK, DispatchFlags, DepthsCounted, ReadTokenLoop
  PROVE  DepthsCounted'
<1>1. PICK p \in off .. End : ReadTokenLoop!2!(p)
  BY DEF ReadTokenLoop
<1>2. CASE \/ ScanArrayStart(p) \/ ScanInlineTableStart(p)
           \/ ScanArrayEnd(p) \/ ScanInlineTableEnd(p)
  BY <1>2, BracketCounted
<1>3. CASE ~(\/ ScanArrayStart(p) \/ ScanInlineTableStart(p)
             \/ ScanArrayEnd(p) \/ ScanInlineTableEnd(p))
  <2>1. Quiet
    BY <1>1, <1>3, LoopQuiet
  <2>2. err' = Nothing => err = Nothing
    BY LoopForward DEF Forward, Nothing, Result, StickyKinds
  <2>3. QED
    BY <2>1, <2>2, QuietCounted
<1>4. QED
  BY <1>2, <1>3

LEMMA CountsAgree ==
  ASSUME TypeOK, DepthsCounted
  PROVE  DepthCounters
<1>1. /\ CountKind({"arrayStart", "inlineStart"}) = CountIn(tokens, Openers)
      /\ CountKind({"arrayEnd", "inlineEnd"}) = CountIn(tokens, Closers)
      /\ Open("array") = OpenIn(stack, "array") /\ Open("inline") = OpenIn(stack, "inline")
  BY DEF CountKind, CountIn, Openers, Closers, Open, OpenIn
<1>2. QED
  BY <1>1 DEF DepthsCounted, Counted, DepthCounters

\* For any document and any limit the depth counters never exceed what is open and agree with
\* it as long as every closer matched, and the cap on arrays holds while no error is pending:
\* what the cap (decoder.go:1031) and the check of a fresh reader (decoder.go:294) rely on.
THEOREM CountersAgree == Spec => []DepthCounters
<1>1. Init => DepthsCounted
  <2>1. SUFFICES ASSUME Init PROVE DepthsCounted
    OBVIOUS
  <2>2. tokens = << >> /\ stack = << >> /\ arrayDepth = 0 /\ inlineDepth = 0
    BY <2>1 DEF Init
  <2>3. \A kind : OpenIn(stack, kind) = {}
    BY <2>2 DEF OpenIn
  <2>4. \A kinds : {i \in DOMAIN tokens : tokens[i].kind \in kinds} = {}
    BY <2>2
  <2>5. Cardinality({}) = 0
    BY FS_EmptySet
  <2>6. \A kinds : CountIn(tokens, kinds) = 0
    BY <2>4, <2>5 DEF CountIn
  <2>7. Len(stack) = 0
    BY <2>2
  <2>8. /\ Cardinality(OpenIn(stack, "array")) = 0 /\ Cardinality(OpenIn(stack, "inline")) = 0
        /\ CountIn(tokens, Openers) = 0 /\ CountIn(tokens, Closers) = 0
    BY <2>3, <2>5, <2>6
  <2>9. Counted(tokens, stack, arrayDepth, inlineDepth)
    BY <2>2, <2>7, <2>8 DEF Counted
  <2>10. QED
    BY <2>2, <2>9, LimitsAssumption DEF DepthsCounted
<1>2. TypeOK /\ DispatchFlags /\ DepthsCounted /\ [Next]_vars => DepthsCounted'
  <2>1. SUFFICES ASSUME TypeOK, DispatchFlags, DepthsCounted, [Next]_vars
                 PROVE  DepthsCounted'
    OBVIOUS
  <2>2. CASE ~ReadTokenLoop
    <3>1. UNCHANGED <<depths, err, tokens>>
      BY <2>1, <2>2 DEF Next, vars, depths, ReadTokenSticky, ReadTokenBegins, Decode
    <3>2. QED
      BY <2>1, <3>1, QuietCounted DEF Quiet
  <2>3. QED
    BY <2>1, <2>2, LoopCounted
<1>3. TypeOK /\ DepthsCounted => DepthCounters
  BY CountsAgree
<1>4. QED
  BY <1>1, <1>2, <1>3, TypeCorrect, FlagsAgree, PTL DEF Spec

-----------------------------------------------------------------------------
(* A failed call fails again.                                              *)

\* The three places where a string is rejected without setting d.err, for a reader that
\* stopped at p.
Width(p) == IF AtArrayHeader(p) THEN 2 ELSE 1
KeyStops == {"=", "#", "nl", "cr", "U", "B"}
BadHeader(p) == /\ AtHeader(p)
                /\ \E e \in p + Width(p) .. End :
                     /\ Cell(e) = "B"
                     /\ \A k \in p + Width(p) .. e - 1 : ~HeaderStops(k, Width(p))
BadKey(p)    == /\ StartsLexeme(p) /\ ~expectingValue /\ ~SeparatorDue
                /\ \E j \in p .. End : StopsAt(p, j, KeyStops) /\ Cell(j) = "B"
BadValue(p)  == StartsLexeme(p) /\ expectingValue /\ ~SeparatorDue /\ Cell(p) = "B"
BadString(p) == /\ Dispatch(p) /\ ~Blank(p)
                /\ BadHeader(p) \/ BadKey(p) \/ BadValue(p)

\* A failed call left its error behind, or it left the reader in front of the string it
\* rejected, where nothing can have changed.
Repeatable ==
  /\ pc = "reading" => err = Nothing
  /\ Failed(out) /\ err # Nothing => out = err
  /\ Failed(out) /\ err = Nothing => out = Result("string", off, off) /\ BadString(off)

\* The reader looks at p in the same way after it failed there.
LEMMA FailedThere ==
  ASSUME TypeOK, NEW kind, NEW p \in off .. End, Fail(kind, p), BadString(p)
  PROVE  BadString(off)'
<1>1. /\ buf' = buf /\ off' = p /\ expectingValue' = expectingValue
      /\ valueNoNewline' = valueNoNewline /\ needSeparator' = needSeparator /\ stack' = stack
      /\ atLineStart' = LineStartAt(p) /\ needLineEnd' = LineEndDue(p)
  BY DEF Fail, fixed, flags, depths
<1>2. /\ \A k : Cell(k)' = Cell(k) /\ (BareCR(k)' <=> BareCR(k)) /\ (Blank(k)' <=> Blank(k))
      /\ End' = End
  BY <1>1 DEF Cell, End, BareCR, Blank, CRLF
<1>3. ~CrossesLine(off)'
  BY <1>1, EndTyped DEF CrossesLine
<1>4. (LineStartAt(off)' <=> LineStartAt(p)) /\ (LineEndDue(off)' <=> LineEndDue(p))
  BY <1>1, <1>3 DEF LineStartAt, LineEndDue
<1>5. Dispatch(off)'
  BY <1>1, <1>2, <1>4 DEF BadString, Dispatch
<1>6. ~Blank(off)'
  BY <1>1, <1>2 DEF BadString
<1>7. SeparatorDue' <=> SeparatorDue
  BY <1>1 DEF SeparatorDue, InArray
<1>8. CASE BadHeader(p)
  <2>1. AtHeader(off)' /\ (AtArrayHeader(off)' <=> AtArrayHeader(p))
    BY <1>1, <1>2, <1>4, <1>8 DEF BadHeader, AtHeader, AtArrayHeader
  <2>2. Width(off)' = Width(p)
    BY <2>1 DEF Width
  <2>3. \A k, w : HeaderStops(k, w)' <=> HeaderStops(k, w)
    BY <1>2 DEF HeaderStops
  <2>4. BadHeader(off)'
    BY <1>1, <1>2, <1>8, <2>1, <2>2, <2>3 DEF BadHeader
  <2>5. QED
    BY <1>5, <1>6, <2>4 DEF BadString
<1>9. CASE BadKey(p)
  <2>1. StartsLexeme(off)'
    BY <1>1, <1>2, <1>5, <1>9 DEF BadKey, StartsLexeme
  <2>2. \A i, j : StopsAt(i, j, KeyStops)' <=> StopsAt(i, j, KeyStops)
    BY <1>1, <1>2 DEF StopsAt
  <2>3. BadKey(off)'
    BY <1>1, <1>2, <1>7, <1>9, <2>1, <2>2 DEF BadKey
  <2>4. QED
    BY <1>5, <1>6, <2>3 DEF BadString
<1>10. CASE BadValue(p)
  <2>1. StartsLexeme(off)'
    BY <1>1, <1>2, <1>5, <1>10 DEF BadValue, StartsLexeme
  <2>2. BadValue(off)'
    BY <1>1, <1>2, <1>7, <1>10, <2>1 DEF BadValue
  <2>3. QED
    BY <1>5, <1>6, <2>2 DEF BadString
<1>11. QED
  BY <1>8, <1>9, <1>10 DEF BadString

\* Where two searches over the same cells stop.
LEMMA HeaderSearch ==
  ASSUME TypeOK, NEW i \in Nat, NEW w, NEW d \in i .. End, NEW e \in i .. End,
         HeaderStops(d, w), \A k \in i .. d - 1 : ~HeaderStops(k, w),
         HeaderStops(e, w), \A k \in i .. e - 1 : ~HeaderStops(k, w)
  PROVE  d = e
<1>1. d \in Nat /\ e \in Nat /\ i \in Nat
  BY EndTyped
<1>2. ~(d < e) /\ ~(e < d)
  BY <1>1
<1>3. QED
  BY <1>1, <1>2

LEMMA StopSearch ==
  ASSUME TypeOK, NEW i \in Nat \ {0}, NEW stops, NEW d \in i .. End, NEW e \in i .. End,
         StopsAt(i, d, stops), StopsAt(i, e, stops), Cell(e) \in stops, Cell(e) # "end"
  PROVE  d = e
<1>1. d \in Nat /\ e \in Nat /\ i \in Nat /\ End \in Nat
  BY EndTyped
<1>2. e < End /\ Cell(e) = buf[e]
  BY DEF Cell
<1>3. ~(e < d)
  BY <1>1, <1>2 DEF StopsAt
<1>4. ASSUME d < e PROVE FALSE
  <2>1. d < End /\ Cell(d) = buf[d]
    BY <1>1, <1>2, <1>4 DEF Cell
  <2>2. Cell(d) \in stops \/ Cell(d) = "end"
    BY DEF StopsAt
  <2>3. buf[d] \notin stops
    BY <1>1, <1>4 DEF StopsAt
  <2>4. Cell(d) \in Cells
    <3>1. buf \in Seq(Cells) /\ Len(buf) \in Nat /\ End = Len(buf) + 1
      BY LenProperties DEF TypeOK, End
    <3>2. d \in 1 .. Len(buf)
      BY <1>1, <2>1, <3>1
    <3>3. QED
      BY <2>1, <3>1, <3>2, ElementOfSeq
  <2>5. QED
    BY <2>1, <2>2, <2>3, <2>4 DEF Cells, Bare, Quoted
<1>5. QED
  BY <1>1, <1>3, <1>4

\* The next call stops at the same place and rejects the same string.
LEMMA FailsAgain ==
  ASSUME TypeOK, ReadTokenLoop, BadString(off)
  PROVE  Fail("string", off)
<1>1. PICK p \in off .. End : ReadTokenLoop!2!(p)
  BY DEF ReadTokenLoop
<1>2. off \in Nat /\ End \in Nat
  BY EndTyped
<1>3. p = off
  <2>1. ASSUME off < p PROVE FALSE
    <3>1. Blank(off)
      BY <1>1, <1>2, <2>1 DEF SkipsTo
    <3>2. QED
      BY <3>1 DEF BadString
  <2>2. QED
    BY <1>2, <2>1
<1>4. ReadTokenLoop!2!(off) /\ Dispatch(off)
  BY <1>1, <1>3 DEF BadString
<1>5. ~AtEnd(off) /\ ~BareCarriageReturn(off) /\ ~LineBreakDue(off)
  BY <1>2, <1>4 DEF Dispatch, AtEnd, BareCarriageReturn, LineBreakDue
<1>6. CASE BadHeader(off)
  <2>1. AtHeader(off) /\ Cell(off) = "["
    BY <1>6 DEF BadHeader, AtHeader
  <2>2. /\ ~ExpectedComma(off) /\ ~ScanArrayStart(off) /\ ~ScanInlineTableStart(off)
        /\ ~ScanArrayEnd(off) /\ ~ScanInlineTableEnd(off) /\ ~ScanComment(off)
        /\ ~UnexpectedEquals(off) /\ ~Comma(off)
        /\ ~MissingSeparator(off) /\ ~ScanKeyToken(off) /\ ~ScanValueToken(off)
    BY <2>1 DEF ExpectedComma, ScanArrayStart, ScanInlineTableStart, OpensContainer,
                ScanArrayEnd, ScanInlineTableEnd, ScanComment, UnexpectedEquals, Comma,
                MissingSeparator, ScanKeyToken, ScanValueToken, StartsLexeme
  <2>3. \E kind : ScanHeader(off, Width(off), kind)
    BY <1>4, <1>5, <2>2 DEF ScanTableHeader, ScanArrayTableHeader, Width
  <2>4. PICK kind : ScanHeader(off, Width(off), kind)
    BY <2>3
  <2>5. PICK d \in off + Width(off) .. End : ScanHeader(off, Width(off), kind)!(d)
    BY <2>4 DEF ScanHeader
  <2>6. PICK e \in off + Width(off) .. End :
          /\ Cell(e) = "B"
          /\ \A k \in off + Width(off) .. e - 1 : ~HeaderStops(k, Width(off))
    BY <1>6 DEF BadHeader
  <2>7. HeaderStops(e, Width(off))
    BY <2>6 DEF HeaderStops
  <2>8. off + Width(off) \in Nat
    BY <1>2 DEF Width
  <2>9. d = e
    BY <2>5, <2>6, <2>7, <2>8, HeaderSearch
  <2>10. QED
    BY <2>5, <2>6, <2>9
<1>7. CASE BadKey(off) \/ BadValue(off)
  <2>1. StartsLexeme(off) /\ ~SeparatorDue
    BY <1>7 DEF BadKey, BadValue
  <2>2. /\ ~ScanTableHeader(off) /\ ~ScanArrayTableHeader(off)
        /\ ~ExpectedComma(off) /\ ~ScanArrayStart(off) /\ ~ScanInlineTableStart(off)
        /\ ~ScanArrayEnd(off) /\ ~ScanInlineTableEnd(off) /\ ~ScanComment(off)
        /\ ~UnexpectedEquals(off) /\ ~Comma(off) /\ ~MissingSeparator(off)
    BY <2>1 DEF ScanTableHeader, ScanArrayTableHeader, AtArrayHeader, AtHeader,
                ExpectedComma, ScanArrayStart, ScanInlineTableStart, OpensContainer,
                ScanArrayEnd, ScanInlineTableEnd, ScanComment, UnexpectedEquals, Comma,
                MissingSeparator, StartsLexeme
  <2>3. ScanKeyToken(off) \/ ScanValueToken(off)
    BY <1>4, <1>5, <2>2
  <2>4. CASE BadKey(off)
    <3>1. ~ScanValueToken(off)
      BY <2>4 DEF BadKey, ScanValueToken
    <3>2. PICK j \in off .. End : ScanKeyToken(off)!2!(j)
      BY <2>3, <3>1 DEF ScanKeyToken
    <3>3. PICK i \in off .. End : StopsAt(off, i, KeyStops) /\ Cell(i) = "B"
      BY <2>4 DEF BadKey
    <3>4. StopsAt(off, j, KeyStops) /\ Cell(i) \in KeyStops
      BY <3>2, <3>3 DEF KeyStops
    <3>5. j = i
      BY <3>3, <3>4, EndTyped, StopSearch
    <3>6. QED
      BY <3>2, <3>3, <3>5
  <2>5. CASE BadValue(off)
    <3>1. ~ScanKeyToken(off) /\ Cell(off) = "B"
      BY <2>5 DEF BadValue, ScanKeyToken
    <3>2. QED
      BY <2>3, <3>1 DEF ScanValueToken
  <2>6. QED
    BY <1>7, <2>4, <2>5
<1>8. QED
  BY <1>6, <1>7 DEF BadString

\* How an iteration of a call that began without an error ends: the loop goes round; the
\* call returns; it fails and leaves its error; it rejects a string and leaves none.
Ends ==
  \/ out' = out /\ pc' = pc /\ err' = err
  \/ pc' = "idle" /\ ~Failed(out')
  \/ pc' = "idle" /\ Failed(out') /\ err' = out'
  \/ pc' = "idle" /\ err' = err /\ out' = Result("string", off', off') /\ BadString(off)'

LEMMA FailEnds ==
  ASSUME NEW kind \in StickyKinds, NEW p, Fail(kind, p)
  PROVE  Ends
<1>1. out' = Result(kind, p, p) /\ err' = out' /\ pc' = "idle" /\ out'.kind = kind
  BY DEF Fail, Result
<1>2. QED
  BY <1>1 DEF Ends, Failed, ErrorKinds

LEMMA RejectEnds ==
  ASSUME TypeOK, NEW p \in off .. End, Fail("string", p), BadString(p)
  PROVE  Ends
<1>1. out' = Result("string", p, p) /\ err' = err /\ off' = p /\ pc' = "idle"
  BY DEF Fail, StickyKinds
<1>2. BadString(off)'
  BY FailedThere
<1>3. QED
  BY <1>1, <1>2 DEF Ends

LEMMA EmitEnds ==
  ASSUME NEW kind \in TokenKinds, NEW p, NEW e, NEW next, Emit(kind, p, e, next)
  PROVE  Ends
<1>1. out'.kind = kind /\ pc' = "idle"
  BY DEF Emit, Result
<1>2. kind \notin ErrorKinds
  BY DEF TokenKinds, ErrorKinds, StickyKinds
<1>3. QED
  BY <1>1, <1>2 DEF Ends, Failed

LEMMA HeaderEnds ==
  ASSUME TypeOK, NEW p \in off .. End, NEW kind \in {"header", "arrayHeader"},
         Dispatch(p), SkipsTo(p), AtHeader(p), ScanHeader(p, Width(p), kind)
  PROVE  Ends
<1>1. PICK e \in p + Width(p) .. End : ScanHeader(p, Width(p), kind)!(e)
  BY DEF ScanHeader
<1>2. CASE Cell(e) = "B" /\ Fail("string", p)
  <2>1. BadHeader(p)
    BY <1>1, <1>2 DEF BadHeader
  <2>2. BadString(p)
    BY <2>1 DEF BadString, SkipsTo
  <2>3. QED
    BY <1>2, <2>2, RejectEnds
<1>3. CASE Fail("syntax", p)
  BY <1>3, FailEnds DEF StickyKinds
<1>4. CASE out' = Result("limit", p, p) /\ err' = out' /\ pc' = "idle"
  BY <1>4 DEF Ends, Failed, Result, ErrorKinds, StickyKinds
<1>5. CASE Emit(kind, p, e + Width(p), e + Width(p))
  BY <1>5, EmitEnds, KindsNamed
<1>6. QED
  BY <1>1, <1>2, <1>3, <1>4, <1>5

LEMMA LoopEnds ==
  ASSUME TypeOK, ReadTokenLoop
  PROVE  Ends
<1>1. PICK p \in off .. End : ReadTokenLoop!2!(p)
  BY DEF ReadTokenLoop
<1>2. SkipsTo(p) /\ ~Blank(p)
  BY <1>1 DEF SkipsTo
<1>3. CASE \E kind \in StickyKinds : Fail(kind, p)
  BY <1>3, FailEnds
<1>4. {"syntax", "limit"} \subseteq StickyKinds
  BY DEF StickyKinds
<1>5. CASE AtEnd(p) /\ ~\E kind \in StickyKinds : Fail(kind, p)
  <2>1. out' = Result("eof", p, p) /\ pc' = "idle"
    BY <1>4, <1>5 DEF AtEnd
  <2>2. QED
    BY <2>1 DEF Ends, Failed, Result, ErrorKinds, StickyKinds
<1>6. CASE (LineBreakDue(p) \/ Comma(p)) /\ ~\E kind \in StickyKinds : Fail(kind, p)
  BY <1>4, <1>6 DEF LineBreakDue, Comma, Ends
<1>7. CASE \/ BareCarriageReturn(p) \/ ExpectedComma(p) \/ UnexpectedEquals(p)
           \/ MissingSeparator(p)
  BY <1>4, <1>7, FailEnds
  DEF BareCarriageReturn, ExpectedComma, UnexpectedEquals, MissingSeparator
<1>8. CASE ScanTableHeader(p) \/ ScanArrayTableHeader(p)
  <2>1. /\ Dispatch(p) /\ AtHeader(p)
        /\ \E kind \in {"header", "arrayHeader"} : ScanHeader(p, Width(p), kind)
    BY <1>8 DEF ScanTableHeader, ScanArrayTableHeader, AtArrayHeader, Width
  <2>2. QED
    BY <1>2, <2>1, HeaderEnds
<1>9. CASE \/ ScanArrayStart(p) \/ ScanInlineTableStart(p)
           \/ ScanArrayEnd(p) \/ ScanInlineTableEnd(p)
  <2>1. \E kind \in TokenKinds : Emit(kind, p, p + 1, p + 1)
    BY <1>9, KindsNamed DEF ScanArrayStart, ScanInlineTableStart, ScanArrayEnd,
                            ScanInlineTableEnd, CloseContainer
  <2>2. QED
    BY <2>1, EmitEnds
<1>10. CASE ScanComment(p) /\ ~\E kind \in StickyKinds : Fail(kind, p)
  <2>1. \E e \in p + 1 .. End : Emit("comment", p, e, e)
    BY <1>4, <1>10 DEF ScanComment
  <2>2. QED
    BY <2>1, EmitEnds, KindsNamed
<1>11. CASE ScanKeyToken(p) /\ ~\E kind \in StickyKinds : Fail(kind, p)
  <2>1. PICK j \in p .. End : ScanKeyToken(p)!2!(j)
    BY <1>11 DEF ScanKeyToken
  <2>2. CASE Cell(j) = "B" /\ Fail("string", p)
    <3>1. BadKey(p)
      BY <1>11, <2>1, <2>2 DEF ScanKeyToken, BadKey, KeyStops
    <3>2. BadString(p)
      BY <1>2, <3>1 DEF BadString, BadKey, StartsLexeme
    <3>3. QED
      BY <2>2, <3>2, RejectEnds
  <2>3. CASE \E e \in p + 1 .. j : Emit("key", p, e, j + 1)
    BY <2>3, EmitEnds, KindsNamed
  <2>4. QED
    BY <1>4, <1>11, <2>1, <2>2, <2>3
<1>12. CASE ScanValueToken(p) /\ ~\E kind \in StickyKinds : Fail(kind, p)
  <2>1. CASE Cell(p) = "B" /\ Fail("string", p)
    <3>1. BadValue(p)
      BY <1>12, <2>1 DEF ScanValueToken, BadValue
    <3>2. BadString(p)
      BY <1>2, <3>1 DEF BadString, BadValue, StartsLexeme
    <3>3. QED
      BY <2>1, <3>2, RejectEnds
  <2>2. CASE \E e \in p .. End : Emit("scalar", p, e, e)
    BY <2>2, EmitEnds, KindsNamed
  <2>3. QED
    BY <1>4, <1>12, <2>1, <2>2 DEF ScanValueToken
<1>13. QED
  BY <1>1, <1>3, <1>5, <1>6, <1>7, <1>8, <1>9, <1>10, <1>11, <1>12

LEMMA FailedIsNoNothing == \A r : Failed(r) => r # Nothing
BY DEF Failed, Nothing, Result, ErrorKinds, StickyKinds

\* Nothing but what the reader looks at decides whether it rejects a string.
LEMMA BadStringKept ==
  ASSUME UNCHANGED <<buf, off, flags, needLineEnd, atLineStart, stack>>
  PROVE  BadString(off)' <=> BadString(off)
BY DEF flags, BadString, Dispatch, Blank, BadHeader, BadKey, BadValue, BareCR, CRLF,
       LineEndDue, LineStartAt, CrossesLine, AtHeader, AtArrayHeader, Cell, End, Width,
       HeaderStops, StartsLexeme, SeparatorDue, InArray, StopsAt

LEMMA RepeatableKept ==
  ASSUME TypeOK, Repeatable, [Next]_vars
  PROVE  /\ Repeatable'
         /\ (ReadTokenSticky \/ ReadTokenLoop) /\ Failed(out) => out' = out
<1>1. CASE UNCHANGED vars
  <2>1. UNCHANGED <<buf, off, flags, needLineEnd, atLineStart, stack, err, pc, out>>
    BY <1>1 DEF vars, flags
  <2>2. BadString(off)' <=> BadString(off)
    BY <2>1, BadStringKept
  <2>3. QED
    BY <2>1, <2>2 DEF Repeatable
<1>2. CASE ReadTokenLoop
  <2>1. pc = "reading" /\ err = Nothing
    BY <1>2 DEF ReadTokenLoop, Repeatable
  <2>2. CASE Failed(out)
    <3>1. out = Result("string", off, off) /\ BadString(off)
      BY <2>1, <2>2 DEF Repeatable
    <3>2. Fail("string", off)
      BY <1>2, <3>1, FailsAgain
    <3>3. off \in off .. End
      BY EndTyped
    <3>4. out' = Result("string", off, off) /\ off' = off /\ err' = err /\ pc' = "idle"
      BY <3>2 DEF Fail, StickyKinds
    <3>5. BadString(off)'
      BY <3>1, <3>2, <3>3, FailedThere
    <3>6. QED
      BY <2>1, <3>1, <3>4, <3>5 DEF Repeatable
  <2>3. CASE ~Failed(out)
    <3>1. Ends
      BY <1>2, LoopEnds
    <3>2. Repeatable'
      BY <2>1, <2>3, <3>1, FailedIsNoNothing DEF Ends, Repeatable, Failed
    <3>3. QED
      BY <2>3, <3>2
  <2>4. QED
    BY <2>2, <2>3
<1>3. CASE ReadTokenSticky
  <2>1. out' = err /\ err' = err /\ err # Nothing /\ pc' = "idle"
    BY <1>3 DEF ReadTokenSticky
  <2>2. QED
    BY <2>1 DEF Repeatable
<1>4. CASE ReadTokenBegins /\ ~ReadTokenLoop
  <2>1. /\ err = Nothing /\ err' = err /\ out' = out
        /\ UNCHANGED <<buf, off, flags, needLineEnd, atLineStart, stack>>
    BY <1>4 DEF ReadTokenBegins, fixed, depths
  <2>2. BadString(off)' <=> BadString(off)
    BY <2>1, BadStringKept
  <2>3. ~ReadTokenSticky
    BY <2>1 DEF ReadTokenSticky
  <2>4. QED
    BY <1>4, <2>1, <2>2, <2>3 DEF Repeatable
<1>5. CASE Decode /\ ~ReadTokenLoop /\ ~ReadTokenSticky
  <2>1. err' = err /\ pc' = "idle"
    BY <1>5 DEF Decode
  <2>2. CASE err # Nothing
    <3>1. out' = err
      BY <1>5, <2>2 DEF Decode
    <3>2. QED
      BY <1>5, <2>1, <2>2, <3>1 DEF Repeatable
  <2>3. CASE err = Nothing
    <3>1. ~Failed(out')
      BY <1>5, <2>3 DEF Decode, Failed, Result, ErrorKinds, StickyKinds
    <3>2. QED
      BY <1>5, <2>1, <3>1 DEF Repeatable, Failed
  <2>4. QED
    BY <2>2, <2>3
<1>6. QED
  BY <1>1, <1>2, <1>3, <1>4, <1>5 DEF Next

\* A ReadToken call that follows a failed one fails in the same way, for every document: also
\* the string errors that the reader does not store (decoder.go:880, 971) come back, because
\* the reader stays in front of the string and what it sees there cannot have changed.
THEOREM FailsTheSame == Spec => ErrorRepeats
<1>1. Init => Repeatable
  BY DEF Init, Repeatable, Failed, Nothing, Result, ErrorKinds, StickyKinds
<1>2. TypeOK /\ Repeatable /\ [Next]_vars => Repeatable'
  BY RepeatableKept
<1>3. TypeOK /\ Repeatable /\ [Next]_vars
        => [(ReadTokenSticky \/ ReadTokenLoop) /\ Failed(out) => out' = out]_vars
  BY RepeatableKept
<1>4. QED
  BY <1>1, <1>2, <1>3, TypeCorrect, PTL DEF Spec, ErrorRepeats
=============================================================================
