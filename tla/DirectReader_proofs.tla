------------------------ MODULE DirectReader_proofs ------------------------
(***************************************************************************)
(* What the fused code of bindDocumentDirect leaves of the token reader's  *)
(* state between two statements, for every document and every limit.       *)
(***************************************************************************)
EXTENDS DirectReader, Decoder_proofs

Contexts == Containers \cup {"assign"}

\* The reader's stack s is what the client is inside of, c, without the assignments:
\* f says where in c.
Placed(f, s, c, m, n) ==
  /\ \A i, j \in 1 .. m : i < j => f[i] < f[j]
  /\ \A i \in 1 .. m : c[f[i]] = s[i]
  /\ \A j \in 1 .. n : c[j] # "assign" => \E i \in 1 .. m : f[i] = j
Follows(s, c) ==
  \E f \in [1 .. Len(s) -> 1 .. Len(c)] : Placed(f, s, c, Len(s), Len(c))

\* No counter is ahead of the stack.
Within(s, a, n) == /\ a \in Nat /\ n \in Nat
                   /\ a <= Cardinality(OpenIn(s, "array"))
                   /\ n <= Cardinality(OpenIn(s, "inline"))

\* The reader outside of every value.
Clear == ~expectingValue /\ ~valueNoNewline /\ ~needSeparator /\ stack = << >>

\* The reader right behind a complete value.
ValueLeft == /\ expectingValue = (stack # << >> /\ Last(stack) = "array")
             /\ valueNoNewline = FALSE
             /\ needSeparator = (stack # << >>)
             /\ needLineEnd = (stack = << >>)
             /\ atLineStart = FALSE

LineDone == /\ needLineEnd => ~atLineStart
            /\ ~needLineEnd => \/ off = decodeStart \/ atLineStart
                               \/ Cell(off) \in {"nl", "cr", "end"}

\* What the reader left behind for the client that called it.
AtToken == /\ out.kind \in {"comment", "header", "arrayHeader"} => Clear /\ LineDone
           /\ out.kind = "key" => stack = << >>
AtSkip  == /\ out.kind = "comment" => stack = << >>
           /\ out.kind = "scalar" => stack = << >> /\ ValueLeft
AtValue ==
  /\ out.kind \in {"comment", "key", "scalar"} => Follows(stack, ctx)
  /\ out.kind = "arrayStart" => \E s \in Seq(Containers) :
       stack = Append(s, "array") /\ Follows(s, ctx)
  /\ out.kind = "inlineStart" => \E s \in Seq(Containers) :
       stack = Append(s, "inline") /\ Follows(s, ctx)
  /\ out.kind = "arrayEnd" /\ ctx # << >> /\ Last(ctx) = "array" => Follows(stack, Front(ctx))
  /\ out.kind = "inlineEnd" /\ ctx # << >> /\ Last(ctx) = "inline" => Follows(stack, Front(ctx))
  /\ out.kind \in {"scalar", "arrayEnd", "inlineEnd"} => ValueLeft

\* The reader and the direct client, wherever the client is.
TypedStack == stack \in Seq(Containers) /\ Within(stack, arrayDepth, inlineDepth)
Typed   == TypedStack /\ ctx \in Seq(Contexts)
Waiting == /\ pc \in {"idle", "reading"}
           /\ pc = "reading" => at \in {"token", "value", "skip"}
           /\ at \notin {"value", "done"} => ctx = << >>
Apart   == /\ at = "statement" => Clear /\ LineDone
           /\ at = "direct" => Clear
           /\ at \in {"skipping", "frames", "scan"} => stack = << >>
Calling == /\ pc = "reading" /\ at = "token" => Clear
           /\ pc = "reading" /\ at = "skip" => stack = << >>
           /\ pc = "reading" /\ at = "value" => Follows(stack, ctx)
Called  == /\ pc = "idle" /\ at = "token" => AtToken
           /\ pc = "idle" /\ at = "skip" => AtSkip
           /\ pc = "idle" /\ at = "value" => AtValue

Together == Typed /\ Waiting /\ Apart /\ Calling /\ Called
BothInv  == phase = "direct" /\ err = Nothing => Together

-----------------------------------------------------------------------------
(* The reader's stack and the client's context.                            *)

LEMMA EmptyFollows ==
  /\ Follows(<< >>, << >>)
  /\ \A s \in Seq(Containers) : Follows(s, << >>) => s = << >>
<1>1. Follows(<< >>, << >>)
  <2>1. [i \in 1 .. 0 |-> i] \in [1 .. 0 -> 1 .. 0]
    OBVIOUS
  <2>2. PICK f \in [1 .. 0 -> 1 .. 0] : TRUE
    BY <2>1
  <2>3. Placed(f, << >>, << >>, 0, 0)
    BY DEF Placed
  <2>4. Len(<< >>) = 0
    OBVIOUS
  <2>5. QED
    BY <2>3, <2>4 DEF Follows
<1>2. ASSUME NEW s \in Seq(Containers), Follows(s, << >>), s # << >>
      PROVE  FALSE
  <2>1. PICK m : m = Len(s)
    OBVIOUS
  <2>2. m \in Nat \ {0} /\ Len(<< >>) = 0
    BY <1>2, <2>1, EmptySeq
  <2>3. PICK f \in [1 .. m -> 1 .. 0] : TRUE
    BY <1>2, <2>1, <2>2 DEF Follows
  <2>4. 1 \in 1 .. m
    BY <2>2
  <2>5. QED
    BY <2>3, <2>4
<1>3. QED
  BY <1>1, <1>2

\* A container is opened: the reader and the client both go into it.
LEMMA FollowsInto ==
  ASSUME NEW s \in Seq(Containers), NEW c \in Seq(Contexts), NEW k \in Containers, Follows(s, c)
  PROVE  Follows(Append(s, k), Append(c, k))
<1>1. PICK m, n : m = Len(s) /\ n = Len(c)
  OBVIOUS
<1>2. PICK t, d : t = Append(s, k) /\ d = Append(c, k)
  OBVIOUS
<1>3. /\ m \in Nat /\ n \in Nat
      /\ Len(t) = m + 1 /\ Len(d) = n + 1
      /\ \A i \in 1 .. m : t[i] = s[i]
      /\ \A i \in 1 .. n : d[i] = c[i]
      /\ t[m + 1] = k /\ d[n + 1] = k
  BY <1>1, <1>2, AppendProperties, LenProperties DEF Contexts
<1>4. PICK f \in [1 .. m -> 1 .. n] :
        /\ \A i, j \in 1 .. m : i < j => f[i] < f[j]
        /\ \A i \in 1 .. m : c[f[i]] = s[i]
        /\ \A j \in 1 .. n : c[j] # "assign" => \E i \in 1 .. m : f[i] = j
  BY <1>1 DEF Follows, Placed
<1>5. PICK g : g = [i \in 1 .. m + 1 |-> IF i = m + 1 THEN n + 1 ELSE f[i]]
  OBVIOUS
<1>6. /\ g \in [1 .. m + 1 -> 1 .. n + 1] /\ g[m + 1] = n + 1
      /\ \A i \in 1 .. m : g[i] = f[i] /\ f[i] \in 1 .. n
  BY <1>3, <1>4, <1>5
<1>7. \A i, j \in 1 .. m + 1 : i < j => g[i] < g[j]
  <2>1. SUFFICES ASSUME NEW i \in 1 .. m + 1, NEW j \in 1 .. m + 1, i < j
                 PROVE  g[i] < g[j]
    OBVIOUS
  <2>2. i \in 1 .. m /\ (j = m + 1 \/ j \in 1 .. m)
    BY <1>3, <2>1
  <2>3. QED
    BY <1>3, <1>4, <1>6, <2>1, <2>2
<1>8. \A i \in 1 .. m + 1 : d[g[i]] = t[i]
  <2>1. SUFFICES ASSUME NEW i \in 1 .. m + 1 PROVE d[g[i]] = t[i]
    OBVIOUS
  <2>2. i = m + 1 \/ i \in 1 .. m
    BY <1>3
  <2>3. QED
    BY <1>3, <1>4, <1>6, <2>2
<1>9. \A j \in 1 .. n + 1 : d[j] # "assign" => \E i \in 1 .. m + 1 : g[i] = j
  <2>1. SUFFICES ASSUME NEW j \in 1 .. n + 1, d[j] # "assign"
                 PROVE  \E i \in 1 .. m + 1 : g[i] = j
    OBVIOUS
  <2>2. CASE j = n + 1
    BY <1>3, <1>6, <2>2
  <2>3. CASE j # n + 1
    <3>1. j \in 1 .. n /\ c[j] # "assign"
      BY <1>3, <2>1, <2>3
    <3>2. PICK i \in 1 .. m : f[i] = j
      BY <1>4, <3>1
    <3>3. i \in 1 .. m + 1
      BY <1>3
    <3>4. QED
      BY <1>6, <3>2, <3>3
  <2>4. QED
    BY <2>2, <2>3
<1>10. Placed(g, t, d, m + 1, n + 1)
  BY <1>7, <1>8, <1>9 DEF Placed
<1>11. QED
  BY <1>2, <1>3, <1>6, <1>10 DEF Follows

\* The client is behind the key of an inline table: the reader keeps no record of that.
LEMMA FollowsAssign ==
  ASSUME NEW s \in Seq(Containers), NEW c \in Seq(Contexts), Follows(s, c)
  PROVE  Follows(s, Append(c, "assign"))
<1>1. PICK m, n : m = Len(s) /\ n = Len(c)
  OBVIOUS
<1>2. PICK d : d = Append(c, "assign")
  OBVIOUS
<1>3. /\ m \in Nat /\ n \in Nat /\ Len(d) = n + 1
      /\ \A i \in 1 .. n : d[i] = c[i]
      /\ d[n + 1] = "assign"
  BY <1>1, <1>2, AppendProperties, LenProperties DEF Contexts
<1>4. PICK f \in [1 .. m -> 1 .. n] :
        /\ \A i, j \in 1 .. m : i < j => f[i] < f[j]
        /\ \A i \in 1 .. m : c[f[i]] = s[i]
        /\ \A j \in 1 .. n : c[j] # "assign" => \E i \in 1 .. m : f[i] = j
  BY <1>1 DEF Follows, Placed
<1>5. f \in [1 .. m -> 1 .. n + 1] /\ \A i \in 1 .. m : f[i] \in 1 .. n
  BY <1>3, <1>4
<1>6. \A i \in 1 .. m : d[f[i]] = s[i]
  BY <1>3, <1>4, <1>5
<1>7. \A j \in 1 .. n + 1 : d[j] # "assign" => j \in 1 .. n /\ c[j] # "assign"
  BY <1>3
<1>8. Placed(f, s, d, m, n + 1)
  BY <1>4, <1>6, <1>7 DEF Placed
<1>9. QED
  BY <1>1, <1>2, <1>3, <1>5, <1>8 DEF Follows

LEMMA FollowsBack ==
  ASSUME NEW s \in Seq(Containers), NEW c \in Seq(Contexts), c # << >>, Last(c) = "assign",
         Follows(s, c)
  PROVE  Follows(s, Front(c))
<1>1. PICK m, n : m = Len(s) /\ n = Len(c)
  OBVIOUS
<1>2. PICK d : d = Front(c)
  OBVIOUS
<1>3. m \in Nat /\ \A i \in 1 .. m : s[i] # "assign"
  BY <1>1, ElementOfSeq, LenProperties DEF Containers
<1>4. /\ n \in Nat \ {0} /\ Len(d) = n - 1
      /\ \A i \in 1 .. n - 1 : d[i] = c[i]
      /\ c[n] = "assign"
  BY <1>1, <1>2, FrontParts DEF Last
<1>5. PICK f \in [1 .. m -> 1 .. n] :
        /\ \A i, j \in 1 .. m : i < j => f[i] < f[j]
        /\ \A i \in 1 .. m : c[f[i]] = s[i]
        /\ \A j \in 1 .. n : c[j] # "assign" => \E i \in 1 .. m : f[i] = j
  BY <1>1 DEF Follows, Placed
<1>6. \A i \in 1 .. m : f[i] # n /\ f[i] \in 1 .. n
  BY <1>3, <1>4, <1>5
<1>7. \A i \in 1 .. m : f[i] \in 1 .. n - 1
  BY <1>4, <1>6
<1>8. f \in [1 .. m -> 1 .. n - 1]
  BY <1>5, <1>7
<1>9. \A i \in 1 .. m : d[f[i]] = s[i]
  BY <1>4, <1>5, <1>7
<1>10. \A j \in 1 .. n - 1 : j \in 1 .. n /\ d[j] = c[j]
  BY <1>4
<1>11. Placed(f, s, d, m, n - 1)
  BY <1>5, <1>9, <1>10 DEF Placed
<1>12. QED
  BY <1>1, <1>2, <1>4, <1>8, <1>11 DEF Follows

\* The container the client is inside of is the reader's innermost one, and closing it
\* leaves both outside of it.
LEMMA FollowsOut ==
  ASSUME NEW s \in Seq(Containers), NEW c \in Seq(Contexts), c # << >>,
         Last(c) # "assign", Follows(s, c)
  PROVE  s # << >> /\ Last(s) = Last(c) /\ Follows(Front(s), Front(c))
<1>1. PICK m, n : m = Len(s) /\ n = Len(c)
  OBVIOUS
<1>2. PICK d, t : d = Front(c) /\ t = Front(s)
  OBVIOUS
<1>3. /\ n \in Nat \ {0} /\ Len(d) = n - 1
      /\ \A i \in 1 .. n - 1 : d[i] = c[i]
      /\ c[n] # "assign" /\ Last(c) = c[n]
  BY <1>1, <1>2, FrontParts DEF Last
<1>4. PICK f \in [1 .. m -> 1 .. n] :
        /\ \A i, j \in 1 .. m : i < j => f[i] < f[j]
        /\ \A i \in 1 .. m : c[f[i]] = s[i]
        /\ \A j \in 1 .. n : c[j] # "assign" => \E i \in 1 .. m : f[i] = j
  BY <1>1 DEF Follows, Placed
<1>5. m \in Nat
  BY <1>1, LenProperties
<1>6. n \in 1 .. n
  BY <1>3
<1>7. PICK l \in 1 .. m : f[l] = n
  BY <1>3, <1>4, <1>6
<1>8. m \in Nat \ {0} /\ m \in 1 .. m /\ l \in Nat /\ l <= m
  BY <1>5
<1>9. f[m] \in 1 .. n /\ f[m] \in Nat
  BY <1>3, <1>4, <1>8
<1>10. l = m
  <2>1. SUFFICES ASSUME l < m PROVE FALSE
    BY <1>8
  <2>2. f[l] < f[m]
    BY <1>4, <1>7, <1>8, <2>1
  <2>3. QED
    BY <1>3, <1>7, <1>9, <2>2
<1>11. s # << >>
  BY <1>1, <1>8, EmptySeq
<1>12. Len(t) = m - 1 /\ \A i \in 1 .. m - 1 : t[i] = s[i]
  BY <1>1, <1>2, <1>11, FrontParts
<1>13. Last(s) = s[m]
  BY <1>1 DEF Last
<1>14. Last(s) = Last(c)
  BY <1>3, <1>4, <1>7, <1>8, <1>10, <1>13
<1>15. \A i \in 1 .. m - 1 : i \in 1 .. m /\ i < m
  BY <1>8
<1>16. \A i \in 1 .. m - 1 : f[i] < n /\ f[i] \in 1 .. n
  BY <1>4, <1>7, <1>8, <1>10, <1>15
<1>17. \A i \in 1 .. m - 1 : f[i] \in 1 .. n - 1
  BY <1>3, <1>16
<1>18. PICK g : g = [i \in 1 .. m - 1 |-> f[i]]
  OBVIOUS
<1>19. g \in [1 .. m - 1 -> 1 .. n - 1] /\ \A i \in 1 .. m - 1 : g[i] = f[i]
  BY <1>17, <1>18
<1>20. \A i, j \in 1 .. m - 1 : i < j => g[i] < g[j]
  BY <1>4, <1>15, <1>19
<1>21. \A i \in 1 .. m - 1 : d[g[i]] = t[i]
  BY <1>3, <1>4, <1>12, <1>15, <1>17, <1>19
<1>22. \A j \in 1 .. n - 1 : d[j] # "assign" => \E i \in 1 .. m - 1 : g[i] = j
  <2>1. SUFFICES ASSUME NEW j \in 1 .. n - 1, d[j] # "assign"
                 PROVE  \E i \in 1 .. m - 1 : g[i] = j
    OBVIOUS
  <2>2. j \in 1 .. n /\ j # n /\ c[j] # "assign"
    BY <1>3, <2>1
  <2>3. PICK i \in 1 .. m : f[i] = j
    BY <1>4, <2>2
  <2>4. i # m
    BY <1>7, <1>10, <2>2, <2>3
  <2>5. i \in 1 .. m - 1
    BY <1>8, <2>4
  <2>6. QED
    BY <1>19, <2>3, <2>5
<1>23. Placed(g, t, d, m - 1, n - 1)
  BY <1>20, <1>21, <1>22 DEF Placed
<1>24. Follows(t, d)
  BY <1>3, <1>12, <1>19, <1>23 DEF Follows
<1>25. QED
  BY <1>2, <1>11, <1>14, <1>24

-----------------------------------------------------------------------------
(* What one step of the token reader does to the flags and the stack.      *)

Ended      == /\ pc' = "idle" /\ out'.kind \in ErrorKinds \cup {"eof"}
              /\ UNCHANGED depths
GoneRound  == pc' = "reading" /\ UNCHANGED depths /\ (Clear => Clear')
Commented  == /\ pc' = "idle" /\ out'.kind = "comment"
              /\ UNCHANGED <<flags, depths>> /\ LineDone'
Headed     == /\ pc' = "idle" /\ out'.kind \in {"header", "arrayHeader"}
              /\ UNCHANGED depths /\ (Clear => Clear') /\ LineDone'
Keyed      == pc' = "idle" /\ out'.kind = "key" /\ UNCHANGED depths
Valued     == pc' = "idle" /\ out'.kind = "scalar" /\ UNCHANGED depths /\ ValueLeft'
Opened(kind, container) ==
  /\ pc' = "idle" /\ out'.kind = kind
  /\ stack' = Append(stack, container)
  /\ arrayDepth' = IF container = "array" THEN arrayDepth + 1 ELSE arrayDepth
  /\ inlineDepth' = IF container = "inline" THEN inlineDepth + 1 ELSE inlineDepth
Closed(kind, container) ==
  /\ pc' = "idle" /\ out'.kind = kind
  /\ stack' = PopContainer(container) /\ ValueLeft'
  /\ arrayDepth' = IF container = "array" THEN CountDown(arrayDepth) ELSE arrayDepth
  /\ inlineDepth' = IF container = "inline" THEN CountDown(inlineDepth) ELSE inlineDepth

Outcome == \/ Ended \/ GoneRound \/ Commented \/ Headed \/ Keyed \/ Valued
           \/ Opened("arrayStart", "array") \/ Opened("inlineStart", "inline")
           \/ Closed("arrayEnd", "array") \/ Closed("inlineEnd", "inline")

LEMMA FailOutcome ==
  ASSUME NEW kind \in ErrorKinds, NEW p, Fail(kind, p)
  PROVE  Outcome
BY DEF Fail, Result, Outcome, Ended

LEMMA AfterValueLeft ==
  ASSUME AfterValue(stack'), atLineStart' = FALSE
  PROVE  ValueLeft'
BY DEF AfterValue, ValueLeft

LEMMA CloserOutcome ==
  ASSUME NEW p, ScanArrayEnd(p) \/ ScanInlineTableEnd(p)
  PROVE  Outcome
<1>1. ASSUME NEW kind, NEW want, CloseContainer(p, kind, want)
      PROVE  pc' = "idle" /\ out'.kind = kind /\ stack' = PopContainer(want) /\ ValueLeft'
  BY <1>1, AfterValueLeft DEF CloseContainer, Emit, Result
<1>2. CASE ScanArrayEnd(p)
  BY <1>1, <1>2 DEF ScanArrayEnd, Outcome, Closed
<1>3. CASE ScanInlineTableEnd(p)
  BY <1>1, <1>3 DEF ScanInlineTableEnd, Outcome, Closed
<1>4. QED
  BY <1>2, <1>3

LEMMA OpenerOutcome ==
  ASSUME NEW p, ScanArrayStart(p) \/ ScanInlineTableStart(p)
  PROVE  Outcome
<1>1. CASE ScanArrayStart(p)
  BY <1>1 DEF ScanArrayStart, Emit, Result, Outcome, Opened
<1>2. CASE ScanInlineTableStart(p)
  BY <1>2 DEF ScanInlineTableStart, Emit, Result, Outcome, Opened
<1>3. QED
  BY <1>1, <1>2

LEMMA ValueOutcome ==
  ASSUME NEW p, ScanValueToken(p)
  PROVE  Outcome
<1>1. {"syntax", "string", "limit"} \subseteq ErrorKinds
  BY DEF ErrorKinds, StickyKinds
<1>2. CASE \E kind \in ErrorKinds : Fail(kind, p)
  BY <1>2, FailOutcome
<1>3. CASE ~\E kind \in ErrorKinds : Fail(kind, p)
  <2>1. PICK e : Emit("scalar", p, e, e) /\ AfterValue(stack) /\ UNCHANGED depths
    BY <1>1, <1>3 DEF ScanValueToken
  <2>2. AfterValue(stack') /\ atLineStart' = FALSE
    BY <2>1 DEF depths, Emit
  <2>3. QED
    BY <2>1, <2>2, AfterValueLeft DEF Emit, Result, Outcome, Valued
<1>4. QED
  BY <1>2, <1>3

LEMMA CommentOutcome ==
  ASSUME NEW p, ScanComment(p)
  PROVE  Outcome
<1>1. PICK e : /\ StopsAt(p + 1, e, {"nl", "cr"})
               /\ Fail("syntax", p) \/ (Emit("comment", p, e, e) /\ UNCHANGED <<flags, depths>>)
  BY DEF ScanComment
<1>2. CASE Fail("syntax", p)
  BY <1>2, FailOutcome DEF ErrorKinds, StickyKinds
<1>3. CASE Emit("comment", p, e, e) /\ UNCHANGED <<flags, depths>>
  <2>1. Cell(e) \in {"nl", "cr", "end"}
    BY <1>1 DEF StopsAt
  <2>2. off' = e /\ buf' = buf /\ atLineStart' = FALSE
    BY <1>3 DEF Emit, fixed
  <2>3. LineDone'
    BY <2>1, <2>2 DEF LineDone, Cell, End
  <2>4. QED
    BY <1>3, <2>3 DEF Emit, Result, Outcome, Commented
<1>4. QED
  BY <1>1, <1>2, <1>3

LEMMA HeaderOutcome ==
  ASSUME NEW p, ScanTableHeader(p) \/ ScanArrayTableHeader(p)
  PROVE  Outcome
<1>1. PICK kind \in {"header", "arrayHeader"}, open \in {1, 2} : ScanHeader(p, open, kind)
  BY DEF ScanTableHeader, ScanArrayTableHeader
<1>2. PICK e : ScanHeader(p, open, kind)!(e)
  BY <1>1 DEF ScanHeader
<1>3. {"syntax", "string"} \subseteq ErrorKinds
  BY DEF ErrorKinds, StickyKinds
<1>4. CASE \E k \in ErrorKinds : Fail(k, p)
  BY <1>4, FailOutcome
<1>5. CASE out' = Result("limit", p, p) /\ pc' = "idle" /\ UNCHANGED depths
  BY <1>5 DEF Result, Outcome, Ended, ErrorKinds, StickyKinds
<1>6. CASE /\ Emit(kind, p, e + open, e + open)
           /\ expectingValue' = FALSE /\ needLineEnd' = TRUE
           /\ UNCHANGED <<valueNoNewline, needSeparator, depths>>
  <2>1. LineDone'
    BY <1>6 DEF Emit, LineDone
  <2>2. Clear => Clear'
    BY <1>6 DEF Clear, depths
  <2>3. QED
    BY <1>6, <2>1, <2>2 DEF Emit, Result, Outcome, Headed
<1>7. QED
  BY <1>2, <1>3, <1>4, <1>5, <1>6

LEMMA KeyOutcome ==
  ASSUME NEW p, ScanKeyToken(p)
  PROVE  Outcome
<1>1. {"syntax", "string", "limit"} \subseteq ErrorKinds
  BY DEF ErrorKinds, StickyKinds
<1>2. CASE \E kind \in ErrorKinds : Fail(kind, p)
  BY <1>2, FailOutcome
<1>3. CASE ~\E kind \in ErrorKinds : Fail(kind, p)
  <2>1. PICK e, j : Emit("key", p, e, j + 1) /\ UNCHANGED depths
    BY <1>1, <1>3 DEF ScanKeyToken
  <2>2. QED
    BY <2>1 DEF Emit, Result, Outcome, Keyed
<1>4. QED
  BY <1>2, <1>3

\* Every iteration ends in one of these ways.
LEMMA LoopOutcome ==
  ASSUME NEW p \in off .. End, pc = "reading", ReadTokenLoop!2!(p)
  PROVE  Outcome
<1>1. "syntax" \in ErrorKinds
  BY DEF ErrorKinds, StickyKinds
<1>2. CASE Fail("syntax", p)
  BY <1>1, <1>2, FailOutcome
<1>3. CASE AtEnd(p) /\ ~Fail("syntax", p)
  BY <1>3 DEF AtEnd, Result, Outcome, Ended
<1>4. CASE (LineBreakDue(p) \/ Comma(p)) /\ ~Fail("syntax", p)
  <2>1. pc' = "reading" /\ UNCHANGED depths
    BY <1>4 DEF LineBreakDue, Comma
  <2>2. Clear => Clear'
    BY <1>4 DEF LineBreakDue, Comma, Clear, flags, depths
  <2>3. QED
    BY <2>1, <2>2 DEF Outcome, GoneRound
<1>5. CASE \/ BareCarriageReturn(p) \/ ExpectedComma(p) \/ UnexpectedEquals(p)
           \/ MissingSeparator(p)
  BY <1>2, <1>5
  DEF BareCarriageReturn, ExpectedComma, UnexpectedEquals, MissingSeparator
<1>6. CASE ScanTableHeader(p) \/ ScanArrayTableHeader(p)
  BY <1>6, HeaderOutcome
<1>7. CASE ScanArrayStart(p) \/ ScanInlineTableStart(p)
  BY <1>7, OpenerOutcome
<1>8. CASE ScanArrayEnd(p) \/ ScanInlineTableEnd(p)
  BY <1>8, CloserOutcome
<1>9. CASE ScanComment(p)
  BY <1>9, CommentOutcome
<1>10. CASE ScanKeyToken(p)
  BY <1>10, KeyOutcome
<1>11. CASE ScanValueToken(p)
  BY <1>11, ValueOutcome
<1>12. QED
  BY <1>2, <1>3, <1>4, <1>5, <1>6, <1>7, <1>8, <1>9, <1>10, <1>11

-----------------------------------------------------------------------------
(* The invariant along the steps of both.                                  *)

LEMMA PushedWithin ==
  ASSUME NEW s \in Seq(Containers), NEW a, NEW n, Within(s, a, n)
  PROVE  /\ Within(Append(s, "array"), a + 1, n)
         /\ Within(Append(s, "inline"), a, n + 1)
<1>1. PICK x, y : x = Cardinality(OpenIn(s, "array")) /\ y = Cardinality(OpenIn(s, "inline"))
  OBVIOUS
<1>2. a \in Nat /\ n \in Nat /\ a <= x /\ n <= y /\ x \in Nat /\ y \in Nat
  BY <1>1, OpenTotal DEF Within
<1>3. {"array", "inline"} \subseteq Containers /\ "array" # "inline"
  BY DEF Containers
<1>4. /\ Cardinality(OpenIn(Append(s, "array"), "array")) = x + 1
      /\ Cardinality(OpenIn(Append(s, "array"), "inline")) = y
      /\ Cardinality(OpenIn(Append(s, "inline"), "array")) = x
      /\ Cardinality(OpenIn(Append(s, "inline"), "inline")) = y + 1
  BY <1>1, <1>3, OpenPushed
<1>5. QED
  BY <1>2, <1>4 DEF Within

LEMMA PoppedWithin ==
  ASSUME NEW s \in Seq(Containers), NEW a, NEW n, Within(s, a, n), s # << >>
  PROVE  /\ Last(s) = "array" => Within(Front(s), CountDown(a), n)
         /\ Last(s) = "inline" => Within(Front(s), a, CountDown(n))
<1>1. PICK x, y : x = Cardinality(OpenIn(s, "array")) /\ y = Cardinality(OpenIn(s, "inline"))
  OBVIOUS
<1>2. PICK f : f = Front(s)
  OBVIOUS
<1>3. PICK v, w : v = Cardinality(OpenIn(f, "array")) /\ w = Cardinality(OpenIn(f, "inline"))
  OBVIOUS
<1>4. a \in Nat /\ n \in Nat /\ a <= x /\ n <= y
  BY <1>1 DEF Within
<1>5. v \in Nat /\ w \in Nat
  BY <1>2, <1>3, OpenPopped
<1>6. Last(s) = "array" => x = v + 1 /\ y = w
  BY <1>1, <1>2, <1>3, OpenPopped
<1>7. Last(s) = "inline" => y = w + 1 /\ x = v
  BY <1>1, <1>2, <1>3, OpenPopped
<1>8. /\ Last(s) = "array" => CountDown(a) \in Nat /\ CountDown(a) <= v /\ n <= w
      /\ Last(s) = "inline" => CountDown(n) \in Nat /\ CountDown(n) <= w /\ a <= v
  BY <1>4, <1>5, <1>6, <1>7 DEF CountDown
<1>9. QED
  BY <1>2, <1>3, <1>4, <1>8 DEF Within

\* A closer that does not match counts down its own depth only.
LEMMA CountedDownWithin ==
  ASSUME NEW s \in Seq(Containers), NEW a, NEW n, Within(s, a, n)
  PROVE  Within(s, CountDown(a), n) /\ Within(s, a, CountDown(n))
<1>1. PICK x, y : x = Cardinality(OpenIn(s, "array")) /\ y = Cardinality(OpenIn(s, "inline"))
  OBVIOUS
<1>2. a \in Nat /\ n \in Nat /\ a <= x /\ n <= y /\ x \in Nat /\ y \in Nat
  BY <1>1, OpenTotal DEF Within
<1>3. /\ CountDown(a) \in Nat /\ CountDown(a) <= x
      /\ CountDown(n) \in Nat /\ CountDown(n) <= y
  BY <1>2 DEF CountDown
<1>4. QED
  BY <1>1, <1>2, <1>3 DEF Within

LEMMA TypedAfter ==
  ASSUME TypedStack, Outcome
  PROVE  TypedStack'
<1>1. stack \in Seq(Containers) /\ Within(stack, arrayDepth, inlineDepth)
  BY DEF TypedStack
<1>2. {"array", "inline"} \subseteq Containers /\ "array" # "inline"
  BY DEF Containers
<1>3. CASE UNCHANGED depths
  BY <1>1, <1>3 DEF depths, TypedStack
<1>4. CASE Commented \/ Ended \/ GoneRound \/ Headed \/ Keyed \/ Valued
  BY <1>3, <1>4 DEF Commented, Ended, GoneRound, Headed, Keyed, Valued
<1>5. CASE Opened("arrayStart", "array")
  <2>1. /\ stack' = Append(stack, "array") /\ arrayDepth' = arrayDepth + 1
        /\ inlineDepth' = inlineDepth
    BY <1>2, <1>5 DEF Opened
  <2>2. stack' \in Seq(Containers)
    BY <1>1, <1>2, <2>1, StackTyped
  <2>3. QED
    BY <1>1, <2>1, <2>2, PushedWithin DEF TypedStack
<1>6. CASE Opened("inlineStart", "inline")
  <2>1. /\ stack' = Append(stack, "inline") /\ inlineDepth' = inlineDepth + 1
        /\ arrayDepth' = arrayDepth
    BY <1>2, <1>6 DEF Opened
  <2>2. stack' \in Seq(Containers)
    BY <1>1, <1>2, <2>1, StackTyped
  <2>3. QED
    BY <1>1, <2>1, <2>2, PushedWithin DEF TypedStack
<1>7. ASSUME NEW want \in Containers, stack' = PopContainer(want)
      PROVE  /\ stack' \in Seq(Containers)
             /\ \/ stack' = stack
                \/ stack # << >> /\ Last(stack) = want /\ stack' = Front(stack)
  <2>1. stack' \in Seq(Containers)
    BY <1>1, <1>7, StackTyped
  <2>2. QED
    BY <1>7, <2>1 DEF PopContainer
<1>8. CASE Closed("arrayEnd", "array")
  <2>1. /\ stack' = PopContainer("array") /\ arrayDepth' = CountDown(arrayDepth)
        /\ inlineDepth' = inlineDepth
    BY <1>2, <1>8 DEF Closed
  <2>2. /\ stack' \in Seq(Containers)
        /\ \/ stack' = stack
           \/ stack # << >> /\ Last(stack) = "array" /\ stack' = Front(stack)
    BY <1>2, <1>7, <2>1
  <2>3. Within(stack', CountDown(arrayDepth), inlineDepth)
    BY <1>1, <2>2, PoppedWithin, CountedDownWithin
  <2>4. QED
    BY <2>1, <2>2, <2>3 DEF TypedStack
<1>9. CASE Closed("inlineEnd", "inline")
  <2>1. /\ stack' = PopContainer("inline") /\ inlineDepth' = CountDown(inlineDepth)
        /\ arrayDepth' = arrayDepth
    BY <1>2, <1>9 DEF Closed
  <2>2. /\ stack' \in Seq(Containers)
        /\ \/ stack' = stack
           \/ stack # << >> /\ Last(stack) = "inline" /\ stack' = Front(stack)
    BY <1>2, <1>7, <2>1
  <2>3. Within(stack', arrayDepth, CountDown(inlineDepth))
    BY <1>1, <2>2, PoppedWithin, CountedDownWithin
  <2>4. QED
    BY <2>1, <2>2, <2>3 DEF TypedStack
<1>10. QED
  BY <1>4, <1>5, <1>6, <1>8, <1>9 DEF Outcome

\* A step of the reader for a client that reads a value.
LEMMA ValueStep ==
  ASSUME TypedStack, ctx \in Seq(Contexts), Follows(stack, ctx), Outcome, ctx' = ctx
  PROVE  /\ pc' = "idle" => AtValue'
         /\ pc' # "idle" => Follows(stack, ctx)'
<1>1. stack \in Seq(Containers)
  BY DEF TypedStack
<1>2. CASE Ended
  BY <1>2 DEF Ended, AtValue, ErrorKinds, StickyKinds
<1>3. CASE GoneRound
  <2>1. Follows(stack, ctx)'
    BY <1>3 DEF GoneRound, depths
  <2>2. QED
    BY <1>3, <2>1 DEF GoneRound
<1>4. CASE Commented \/ Headed \/ Keyed \/ Valued
  <2>1. Follows(stack, ctx)'
    BY <1>4 DEF Commented, Headed, Keyed, Valued, depths
  <2>2. QED
    BY <1>4, <2>1 DEF Commented, Headed, Keyed, Valued, AtValue
<1>5. CASE Opened("arrayStart", "array")
  <2>1. pc' = "idle" /\ out'.kind = "arrayStart" /\ stack' = Append(stack, "array")
    BY <1>5 DEF Opened
  <2>2. QED
    BY <1>1, <2>1 DEF AtValue
<1>6. CASE Opened("inlineStart", "inline")
  <2>1. pc' = "idle" /\ out'.kind = "inlineStart" /\ stack' = Append(stack, "inline")
    BY <1>6 DEF Opened
  <2>2. QED
    BY <1>1, <2>1 DEF AtValue
<1>7. ASSUME NEW want \in Containers, ctx # << >>, Last(ctx) = want
      PROVE  Follows(PopContainer(want), Front(ctx))
  <2>1. want # "assign"
    BY DEF Containers
  <2>2. stack # << >> /\ Last(stack) = want /\ Follows(Front(stack), Front(ctx))
    BY <1>1, <1>7, <2>1, FollowsOut
  <2>3. QED
    BY <2>2 DEF PopContainer
<1>8. "array" \in Containers /\ "inline" \in Containers
  BY DEF Containers
<1>9. CASE Closed("arrayEnd", "array")
  <2>1. pc' = "idle" /\ out'.kind = "arrayEnd" /\ stack' = PopContainer("array") /\ ValueLeft'
    BY <1>9 DEF Closed
  <2>2. ctx # << >> /\ Last(ctx) = "array" => Follows(stack', Front(ctx))
    BY <1>7, <1>8, <2>1
  <2>3. QED
    BY <2>1, <2>2 DEF AtValue
<1>10. CASE Closed("inlineEnd", "inline")
  <2>1. pc' = "idle" /\ out'.kind = "inlineEnd" /\ stack' = PopContainer("inline") /\ ValueLeft'
    BY <1>10 DEF Closed
  <2>2. ctx # << >> /\ Last(ctx) = "inline" => Follows(stack', Front(ctx))
    BY <1>7, <1>8, <2>1
  <2>3. QED
    BY <2>1, <2>2 DEF AtValue
<1>11. QED
  BY <1>2, <1>3, <1>4, <1>5, <1>6, <1>9, <1>10 DEF Outcome

\* A step of the reader for a client that reads a statement, or past a value.
LEMMA StatementStep ==
  ASSUME Outcome
  PROVE  /\ Clear => (pc' = "idle" => AtToken') /\ (pc' # "idle" => Clear')
         /\ stack = << >> => (pc' = "idle" => AtSkip') /\ (pc' # "idle" => stack' = << >>)
<1>1. CASE Ended
  BY <1>1 DEF Ended, AtToken, AtSkip, ErrorKinds, StickyKinds
<1>2. CASE GoneRound
  <2>1. stack' = stack /\ (Clear => Clear') /\ pc' = "reading"
    BY <1>2 DEF GoneRound, depths
  <2>2. QED
    BY <2>1
<1>3. CASE Commented
  <2>1. stack' = stack /\ (Clear => Clear')
    BY <1>3 DEF Commented, depths, flags, Clear
  <2>2. QED
    BY <1>3, <2>1 DEF Commented, AtToken, AtSkip
<1>4. CASE Headed \/ Keyed \/ Valued
  <2>1. stack' = stack
    BY <1>4 DEF Headed, Keyed, Valued, depths
  <2>2. QED
    BY <1>4, <2>1 DEF Headed, Keyed, Valued, AtToken, AtSkip, Clear
<1>5. CASE /\ pc' = "idle"
           /\ out'.kind \in {"arrayStart", "inlineStart", "arrayEnd", "inlineEnd"}
  BY <1>5 DEF AtToken, AtSkip
<1>6. QED
  BY <1>1, <1>2, <1>3, <1>4, <1>5 DEF Outcome, Opened, Closed

\* A step of the reader on its own.
LEMMA ReadKept ==
  ASSUME Together, Read
  PROVE  Together'
<1>1. UNCHANGED <<at, ctx>> /\ pc = "reading" /\ ReadTokenLoop
  BY DEF Read, ReadTokenLoop, client
<1>2. PICK p \in off .. End : ReadTokenLoop!2!(p)
  BY <1>1 DEF ReadTokenLoop
<1>3. Outcome
  BY <1>1, <1>2, LoopOutcome
<1>4. pc' \in {"idle", "reading"}
  BY <1>3 DEF Outcome, Ended, GoneRound, Commented, Headed, Keyed, Valued, Opened, Closed
<1>5. /\ TypedStack /\ ctx \in Seq(Contexts) /\ at \in {"token", "value", "skip"}
      /\ at # "value" => ctx = << >>
  BY <1>1 DEF Together, Typed, Waiting
<1>6. TypedStack' /\ Typed'
  BY <1>1, <1>3, <1>5, TypedAfter DEF Typed
<1>7. CASE at = "value"
  <2>1. Follows(stack, ctx)
    BY <1>1, <1>7 DEF Together, Calling
  <2>2. /\ pc' = "idle" => AtValue'
        /\ pc' # "idle" => Follows(stack, ctx)'
    BY <1>1, <1>3, <1>5, <2>1, ValueStep
  <2>3. QED
    BY <1>1, <1>4, <1>6, <1>7, <2>2 DEF Together, Waiting, Apart, Calling, Called
<1>8. CASE at = "token"
  <2>1. Clear
    BY <1>1, <1>8 DEF Together, Calling
  <2>2. (pc' = "idle" => AtToken') /\ (pc' # "idle" => Clear')
    BY <1>3, <2>1, StatementStep
  <2>3. QED
    BY <1>1, <1>4, <1>5, <1>6, <1>8, <2>2 DEF Together, Waiting, Apart, Calling, Called
<1>9. CASE at = "skip"
  <2>1. stack = << >>
    BY <1>1, <1>9 DEF Together, Calling
  <2>2. (pc' = "idle" => AtSkip') /\ (pc' # "idle" => stack' = << >>)
    BY <1>3, <2>1, StatementStep
  <2>3. QED
    BY <1>1, <1>4, <1>5, <1>6, <1>9, <2>2 DEF Together, Waiting, Apart, Calling, Called
<1>10. QED
  BY <1>5, <1>7, <1>8, <1>9

\* The client begins a call.
LEMMA CallKept ==
  ASSUME TypedStack, ctx' \in Seq(Contexts), err = Nothing,
         NEW where \in {"token", "value", "skip"}, Call(where),
         where = "token" => Clear, where = "skip" => stack = << >>,
         where = "value" => Follows(stack, ctx'), where # "value" => ctx' = << >>
  PROVE  Together'
<1>1. at' = where /\ ReadTokenBegins
  BY DEF Call, ReadTokenSticky
<1>2. pc' = "reading" /\ UNCHANGED <<flags, depths>>
  BY <1>1 DEF ReadTokenBegins
<1>3. TypedStack' /\ (Clear => Clear') /\ stack' = stack
  BY <1>2 DEF TypedStack, Clear, flags, depths
<1>4. QED
  BY <1>1, <1>2, <1>3 DEF Together, Typed, Waiting, Apart, Calling, Called

\* The client goes on without a call.
LEMMA SettlesKept ==
  ASSUME TypedStack, pc' = "idle", UNCHANGED depths, ctx' \in Seq(Contexts),
         at' \in {"statement", "direct", "skipping", "frames", "scan", "done"},
         at' # "done" => ctx' = << >>,
         at' = "statement" => Clear' /\ LineDone',
         at' = "direct" => Clear',
         at' \in {"skipping", "frames", "scan"} => stack' = << >>
  PROVE  Together'
<1>1. TypedStack'
  BY DEF TypedStack, depths
<1>2. QED
  BY <1>1 DEF Together, Typed, Waiting, Apart, Calling, Called

LEMMA ConcludeKept ==
  ASSUME Together, pc = "idle", NEW v, Conclude(v)
  PROVE  Together'
<1>1. at' = "done" /\ UNCHANGED <<depths, pc, ctx>>
  BY DEF Conclude, decoder, depths
<1>2. QED
  BY <1>1, SettlesKept DEF Together, Typed

\* What the reader looks like to a client that did not touch it.
LEMMA ReaderKept ==
  ASSUME UNCHANGED decoder
  PROVE  /\ Clear => Clear'
         /\ LineDone => LineDone'
         /\ UNCHANGED <<depths, pc, out, stack, err>>
BY DEF decoder, Clear, LineDone, Cell, End, depths

LEMMA EmptyContext ==
  /\ << >> \in Seq(Contexts)
  /\ ValueLeft /\ stack = << >> => Clear /\ LineDone
<1>1. << >> \in Seq(Contexts)
  OBVIOUS
<1>2. ValueLeft /\ stack = << >> => Clear /\ LineDone
  BY DEF ValueLeft, Clear, LineDone
<1>3. QED
  BY <1>1, <1>2

LEMMA ValueOverKept ==
  ASSUME Together, err = Nothing, pc = "idle", NEW s \in Seq(Contexts), Follows(stack, s),
         ValueLeft, NEW elems, ValueOver(s, elems)
  PROVE  Together'
<1>1. TypedStack /\ stack \in Seq(Containers)
  BY DEF Together, Typed, TypedStack
<1>2. CASE Conclude("mismatch")
  BY <1>2, ConcludeKept
<1>3. CASE s = << >> /\ ctx' = << >> /\ at' = "statement" /\ UNCHANGED decoder
  <2>1. stack = << >>
    BY <1>1, <1>3, EmptyFollows
  <2>2. Clear /\ LineDone
    BY <2>1, EmptyContext
  <2>3. Clear' /\ LineDone' /\ UNCHANGED <<depths, pc>>
    BY <1>3, <2>2, ReaderKept
  <2>4. QED
    BY <1>1, <1>3, <2>3, EmptyContext, SettlesKept
<1>4. CASE /\ s # << >> /\ ctx' = IF Last(s) = "assign" THEN Front(s) ELSE s
           /\ Call("value")
  <2>1. ctx' \in Seq(Contexts) /\ Follows(stack, ctx')
    BY <1>1, <1>4, FrontOfSeq, FollowsBack
  <2>2. QED
    BY <1>1, <1>4, <2>1, CallKept
<1>5. QED
  BY <1>2, <1>3, <1>4 DEF ValueOver

-----------------------------------------------------------------------------
(* One lemma per kind of step of the direct client.                        *)

\* Where the client reads a statement.
LEMMA StatementKept ==
  ASSUME Together, err = Nothing, phase = "direct", CommentRead \/ HeaderRead \/ KeyRead
  PROVE  Together'
<1>1. TypedStack /\ ctx \in Seq(Contexts) /\ pc = "idle"
  BY DEF Together, Typed, CommentRead, HeaderRead, KeyRead, Returned
<1>2. ASSUME at = "token" PROVE AtToken /\ ctx = << >>
  BY <1>1, <1>2 DEF Together, Waiting, Called
<1>3. CASE CommentRead
  <2>1. ctx' = ctx
    BY <1>3 DEF CommentRead, Stay
  <2>2. CASE at = "token" /\ at' = "statement" /\ UNCHANGED decoder
    <3>1. Clear /\ LineDone
      BY <1>2, <1>3, <2>2 DEF AtToken, CommentRead
    <3>2. Clear' /\ LineDone' /\ UNCHANGED <<depths, pc>>
      BY <2>2, <3>1, ReaderKept
    <3>3. QED
      BY <1>1, <1>2, <2>1, <2>2, <3>2, SettlesKept
  <2>3. CASE at = "value" /\ Call("value")
    <3>1. Follows(stack, ctx)
      BY <1>1, <1>3, <2>3 DEF Together, Called, AtValue, CommentRead
    <3>2. QED
      BY <1>1, <2>1, <2>3, <3>1, CallKept
  <2>4. CASE at = "skip" /\ Call("skip")
    <3>1. stack = << >> /\ ctx = << >>
      BY <1>1, <1>3, <2>4 DEF Together, Called, AtSkip, CommentRead, Waiting
    <3>2. QED
      BY <1>1, <2>1, <2>4, <3>1, CallKept
  <2>5. QED
    BY <1>3, <2>2, <2>3, <2>4 DEF CommentRead, Returned
<1>4. CASE HeaderRead
  <2>1. Clear /\ LineDone /\ ctx = << >> /\ at' = "statement" /\ ctx' = ctx /\ UNCHANGED decoder
    BY <1>2, <1>4 DEF HeaderRead, Returned, AtToken
  <2>2. Clear' /\ LineDone' /\ UNCHANGED <<depths, pc>>
    BY <2>1, ReaderKept
  <2>3. QED
    BY <1>1, <2>1, <2>2, SettlesKept
<1>5. CASE KeyRead
  <2>1. stack = << >> /\ ctx = << >> /\ ctx' = ctx
    BY <1>2, <1>5 DEF KeyRead, Returned, AtToken
  <2>2. CASE at' = "skipping" /\ UNCHANGED decoder
    <3>1. stack' = << >> /\ UNCHANGED <<depths, pc>>
      BY <2>1, <2>2, ReaderKept
    <3>2. QED
      BY <1>1, <2>1, <2>2, <3>1, SettlesKept
  <2>3. CASE Call("value")
    <3>1. Follows(stack, ctx')
      BY <2>1, EmptyFollows
    <3>2. QED
      BY <1>1, <2>1, <2>3, <3>1, CallKept
  <2>4. QED
    BY <1>5, <2>2, <2>3 DEF KeyRead
<1>6. QED
  BY <1>3, <1>4, <1>5

\* Where the client ends or gives up.
LEMMA EndKept ==
  ASSUME Together, phase = "direct",
         CallFailed \/ EndOfDocument \/ StrayToken \/ UnexpectedInValue
  PROVE  Together'
<1>1. pc = "idle" /\ \E v : Conclude(v)
  BY DEF CallFailed, EndOfDocument, StrayToken, StrayIgnored, UnexpectedInValue, Returned, Refuse
<1>2. QED
  BY <1>1, ConcludeKept

\* Where the client reads a value.
LEMMA ValueKept ==
  ASSUME Together, err = Nothing,
         ScalarRead \/ ContainerOpens \/ InlineKeyRead \/ ContainerCloses
  PROVE  Together'
<1>1. /\ TypedStack /\ ctx \in Seq(Contexts) /\ pc = "idle" /\ at = "value" /\ AtValue
      /\ stack \in Seq(Containers)
  BY DEF Together, Typed, TypedStack, Called, ScalarRead, ContainerOpens, InlineKeyRead,
         ContainerCloses, Returned
<1>2. CASE ScalarRead
  <2>1. Follows(stack, ctx) /\ ValueLeft
    BY <1>1, <1>2 DEF ScalarRead, AtValue
  <2>2. QED
    BY <1>1, <1>2, <2>1, ValueOverKept DEF ScalarRead
<1>3. ASSUME NEW c \in Contexts, Follows(stack, Append(ctx, c)), Deeper(Append(ctx, c))
      PROVE  Together'
  <2>1. ctx' = Append(ctx, c) /\ Call("value")
    BY <1>3 DEF Deeper
  <2>2. ctx' \in Seq(Contexts) /\ Follows(stack, ctx')
    BY <1>1, <1>3, <2>1, AppendProperties
  <2>3. QED
    BY <1>1, <2>1, <2>2, CallKept
<1>4. {"array", "inline", "assign"} \subseteq Contexts /\ {"array", "inline"} \subseteq Containers
  BY DEF Contexts, Containers
<1>5. CASE out.kind = "arrayStart" /\ Deeper(Append(ctx, "array"))
  <2>1. PICK s \in Seq(Containers) : stack = Append(s, "array") /\ Follows(s, ctx)
    BY <1>1, <1>5 DEF AtValue
  <2>2. Follows(stack, Append(ctx, "array"))
    BY <1>1, <1>4, <2>1, FollowsInto
  <2>3. QED
    BY <1>3, <1>4, <1>5, <2>2
<1>6. CASE out.kind = "inlineStart" /\ Deeper(Append(ctx, "inline"))
  <2>1. PICK s \in Seq(Containers) : stack = Append(s, "inline") /\ Follows(s, ctx)
    BY <1>1, <1>6 DEF AtValue
  <2>2. Follows(stack, Append(ctx, "inline"))
    BY <1>1, <1>4, <2>1, FollowsInto
  <2>3. QED
    BY <1>3, <1>4, <1>6, <2>2
<1>7. CASE InlineKeyRead
  <2>1. Follows(stack, ctx)
    BY <1>1, <1>7 DEF InlineKeyRead, AtValue
  <2>2. Follows(stack, Append(ctx, "assign"))
    BY <1>1, <2>1, FollowsAssign
  <2>3. QED
    BY <1>3, <1>4, <1>7, <2>2 DEF InlineKeyRead
<1>8. CASE ContainerCloses
  <2>1. ctx # << >> /\ ValueLeft /\ Follows(stack, Front(ctx))
    BY <1>1, <1>8 DEF ContainerCloses, AtValue
  <2>2. Front(ctx) \in Seq(Contexts)
    BY <1>1, <2>1, FrontOfSeq
  <2>3. QED
    BY <1>1, <1>8, <2>1, <2>2, ValueOverKept DEF ContainerCloses
<1>9. QED
  BY <1>2, <1>5, <1>6, <1>7, <1>8 DEF ContainerOpens

\* Where the client scans past a value.
LEMMA SkipKept ==
  ASSUME Together, err = Nothing, SkipBegins \/ ScanSkipped \/ SkipEnds \/ SkipToken
  PROVE  Together'
<1>1. /\ TypedStack /\ ctx \in Seq(Contexts)
      /\ at \in {"skipping", "frames", "skip"} => ctx = << >>
  BY DEF Together, Typed, Waiting
<1>2. at \in {"skipping", "frames"} => pc = "idle" /\ stack = << >>
  BY DEF Together, Waiting, Apart
<1>3. CASE SkipBegins
  <2>1. at = "skipping" /\ ctx' = ctx
    BY <1>3 DEF SkipBegins, Stay
  <2>2. CASE at' = "frames" /\ UNCHANGED decoder
    BY <1>1, <1>2, <2>1, <2>2, ReaderKept, SettlesKept
  <2>3. CASE Call("skip")
    BY <1>1, <1>2, <2>1, <2>3, CallKept
  <2>4. QED
    BY <1>3, <2>2, <2>3 DEF SkipBegins
<1>4. CASE ScanSkipped
  <2>1. at = "frames"
    BY <1>4 DEF ScanSkipped
  <2>2. ASSUME NEW i, NEW fs, Goto(i, fs) PROVE Together'
    <3>1. UNCHANGED <<decoder, at, ctx>>
      BY <2>2 DEF Goto
    <3>2. QED
      BY <1>1, <1>2, <2>1, <3>1, ReaderKept, SettlesKept
  <2>3. ASSUME Refuse PROVE Together'
    BY <1>2, <2>1, <2>3, ConcludeKept DEF Refuse
  <2>4. QED
    BY <1>4, <2>2, <2>3 DEF ScanSkipped, SkipValue
<1>5. CASE SkipEnds
  <2>1. /\ at = "frames" /\ at' = "statement" /\ ctx' = ctx
        /\ ~expectingValue' /\ ~valueNoNewline' /\ ~needSeparator'
        /\ needLineEnd' = TRUE /\ atLineStart' = FALSE
        /\ UNCHANGED <<depths, pc>>
    BY <1>5 DEF SkipEnds, ReaderAfterSkip
  <2>2. Clear' /\ LineDone'
    BY <1>2, <2>1 DEF Clear, LineDone, depths
  <2>3. QED
    BY <1>1, <1>2, <2>1, <2>2, SettlesKept
<1>6. CASE SkipToken
  <2>1. at = "skip" /\ pc = "idle" /\ AtSkip
    BY <1>6 DEF SkipToken, Returned, Together, Called
  <2>2. CASE Refuse
    BY <2>1, <2>2, ConcludeKept DEF Refuse
  <2>3. CASE ~Refuse
    <3>1. out.kind = "scalar" /\ at' = "statement" /\ ctx' = ctx /\ UNCHANGED decoder
      BY <1>6, <2>3 DEF SkipToken
    <3>2. Clear /\ LineDone
      BY <2>1, <3>1, EmptyContext DEF AtSkip
    <3>3. Clear' /\ LineDone' /\ UNCHANGED <<depths, pc>>
      BY <3>1, <3>2, ReaderKept
    <3>4. QED
      BY <1>1, <2>1, <3>1, <3>3, SettlesKept
  <2>4. QED
    BY <2>2, <2>3
<1>7. QED
  BY <1>3, <1>4, <1>5, <1>6

\* A fused statement leaves the reader outside of every value.
LEMMA FusedKept ==
  ASSUME Together, at = "statement", ctx' = ctx, UNCHANGED <<depths, pc>>,
         \/ /\ at' = "statement" /\ LineDone'
            /\ ~expectingValue' /\ ~valueNoNewline' /\ ~needSeparator'
         \/ at' \in {"scan", "skipping"}
  PROVE  Together'
<1>1. TypedStack /\ ctx \in Seq(Contexts) /\ ctx = << >> /\ stack = << >> /\ pc = "idle"
  BY DEF Together, Typed, Waiting, Apart, Clear
<1>2. stack' = << >> /\ pc' = "idle"
  BY <1>1 DEF depths
<1>3. CASE /\ at' = "statement" /\ LineDone'
           /\ ~expectingValue' /\ ~valueNoNewline' /\ ~needSeparator'
  <2>1. Clear'
    BY <1>2, <1>3 DEF Clear
  <2>2. QED
    BY <1>1, <1>2, <1>3, <2>1, SettlesKept
<1>4. CASE at' \in {"scan", "skipping"}
  BY <1>1, <1>2, <1>4, SettlesKept
<1>5. QED
  BY <1>3, <1>4

LEMMA HeaderFusedKept ==
  ASSUME Together, at = "statement", pc = "idle", NEW p, FusedHeader(p)
  PROVE  Together'
<1>1. CASE Refuse
  BY <1>1, ConcludeKept DEF Refuse
<1>2. CASE ~Refuse
  <2>1. /\ atLineStart' = FALSE /\ needLineEnd' = TRUE
        /\ expectingValue' = FALSE /\ valueNoNewline' = FALSE /\ needSeparator' = FALSE
        /\ UNCHANGED <<depths, pc, at, ctx>>
    BY <1>2 DEF FusedHeader
  <2>2. LineDone'
    BY <2>1 DEF LineDone
  <2>3. QED
    BY <2>1, <2>2, FusedKept
<1>3. QED
  BY <1>1, <1>2

LEMMA AssignmentFusedKept ==
  ASSUME Together, at = "statement", pc = "idle", NEW p, FusedAssignment(p)
  PROVE  Together'
<1>1. ASSUME NEW e, NEW v, NEW field, NEW where \in {"scan", "skipping"},
             KeyTaken(p, e, v, field, where)
      PROVE  Together'
  <2>1. at' = where /\ UNCHANGED <<depths, pc, ctx>>
    BY <1>1 DEF KeyTaken
  <2>2. QED
    BY <2>1, FusedKept
<1>2. ASSUME NEW e, NEW array, ArrayTaken(p, e, array)
      PROVE  Together'
  <2>1. /\ ~expectingValue' /\ ~valueNoNewline' /\ ~needSeparator'
        /\ UNCHANGED <<depths, pc, at, ctx>>
    BY <1>2 DEF ArrayTaken, ReaderAfterArray
  <2>2. LineDone'
    BY <1>2 DEF ArrayTaken, ReaderAfterArray, LineDone
  <2>3. QED
    BY <2>1, <2>2, FusedKept
<1>3. ASSUME Refuse PROVE Together'
  BY <1>3, ConcludeKept DEF Refuse
<1>4. \/ Refuse
      \/ \E e, v, field, where : where \in {"scan", "skipping"} /\ KeyTaken(p, e, v, field, where)
      \/ \E e, array : ArrayTaken(p, e, array)
  BY DEF FusedAssignment
<1>5. QED
  BY <1>1, <1>2, <1>3, <1>4

\* The loop of bindDocumentDirect.
LEMMA DirectKept ==
  ASSUME Together, err = Nothing, DirectStatement \/ DirectToken \/ ScanFused
  PROVE  Together'
<1>1. TypedStack /\ ctx \in Seq(Contexts)
  BY DEF Together, Typed
<1>2. at \in {"statement", "direct", "scan"} => ctx = << >> /\ pc = "idle"
  BY DEF Together, Waiting
<1>3. CASE DirectStatement
  <2>1. PICK p \in off .. End :
          LineEndCheck(p) \/ FusedHeader(p) \/ FusedAssignment(p) \/ ReadsToken(p)
    BY <1>3 DEF DirectStatement
  <2>2. at = "statement" /\ Clear /\ LineDone
    BY <1>3 DEF DirectStatement, Together, Apart
  <2>3. CASE LineEndCheck(p)
    <3>1. CASE Refuse
      BY <1>2, <2>2, <3>1, ConcludeKept DEF Refuse
    <3>2. CASE ~Refuse
      <4>1. /\ atLineStart' = LineStartAt(p) /\ LineEndDue(p)
            /\ UNCHANGED <<flags, needLineEnd, depths, pc, client>>
        BY <2>3, <3>2 DEF LineEndCheck
      <4>2. needLineEnd' /\ ~atLineStart'
        BY <2>2, <4>1 DEF LineDone, LineEndDue, LineStartAt
      <4>3. LineDone' /\ ~expectingValue' /\ ~valueNoNewline' /\ ~needSeparator'
        BY <2>2, <4>1, <4>2 DEF LineDone, Clear, flags
      <4>4. at' = at /\ ctx' = ctx
        BY <4>1 DEF client
      <4>5. QED
        BY <2>2, <4>1, <4>3, <4>4, FusedKept
    <3>3. QED
      BY <3>1, <3>2
  <2>4. CASE FusedHeader(p)
    BY <1>2, <2>2, <2>4, HeaderFusedKept
  <2>5. CASE FusedAssignment(p)
    BY <1>2, <2>2, <2>5, AssignmentFusedKept
  <2>6. CASE ReadsToken(p)
    <3>1. at' = "direct" /\ ctx' = ctx /\ UNCHANGED <<flags, depths, pc>>
      BY <2>6 DEF ReadsToken, StopAt, Stay
    <3>2. Clear'
      BY <2>2, <3>1 DEF Clear, flags, depths
    <3>3. QED
      BY <1>1, <1>2, <2>2, <3>1, <3>2, SettlesKept
  <2>7. QED
    BY <2>1, <2>3, <2>4, <2>5, <2>6
<1>4. CASE DirectToken
  <2>1. at = "direct" /\ Call("token") /\ ctx' = ctx
    BY <1>4 DEF DirectToken, Stay
  <2>2. Clear
    BY <2>1 DEF Together, Apart
  <2>3. QED
    BY <1>1, <1>2, <2>1, <2>2, CallKept
<1>5. CASE ScanFused
  <2>1. at = "scan" /\ stack = << >>
    BY <1>5 DEF ScanFused, Together, Apart
  <2>2. CASE Refuse
    BY <1>2, <2>1, <2>2, ConcludeKept DEF Refuse
  <2>3. CASE ~Refuse
    <3>1. /\ \/ ScanArrayStart(off) \/ ScanInlineTableStart(off)
             \/ ScanArrayEnd(off) \/ ScanInlineTableEnd(off) \/ ScanValueToken(off)
          /\ at' = "value" /\ ctx' = ctx
      BY <1>5, <2>3 DEF ScanFused, Stay
    <3>2. Outcome
      BY <3>1, OpenerOutcome, CloserOutcome, ValueOutcome
    <3>3. pc' \in {"idle", "reading"}
      BY <3>2
      DEF Outcome, Ended, GoneRound, Commented, Headed, Keyed, Valued, Opened, Closed
    <3>4. Follows(stack, ctx)
      BY <1>2, <2>1, EmptyFollows
    <3>5. /\ TypedStack'
          /\ pc' = "idle" => AtValue'
          /\ pc' # "idle" => Follows(stack, ctx)'
      BY <1>1, <3>1, <3>2, <3>4, TypedAfter, ValueStep
    <3>6. QED
      BY <1>1, <3>1, <3>3, <3>5 DEF Together, Typed, Waiting, Apart, Calling, Called
  <2>4. QED
    BY <2>2, <2>3
<1>6. QED
  BY <1>3, <1>4, <1>5

LEMMA BeginKept ==
  ASSUME BeginDirect
  PROVE  Together'
<1>1. /\ at' = "statement" /\ ctx' = << >> /\ off' = decodeStart /\ decodeStart' = decodeStart
      /\ expectingValue' = FALSE /\ valueNoNewline' = FALSE
      /\ needSeparator' = FALSE /\ needLineEnd' = FALSE
      /\ arrayDepth' = 0 /\ inlineDepth' = 0 /\ stack' = << >> /\ pc' = "idle"
  BY DEF BeginDirect, ReaderAgain, fixed
<1>2. << >> \in Seq(Containers) /\ \A kind : Cardinality(OpenIn(<< >>, kind)) = 0
  <2>1. \A kind : OpenIn(<< >>, kind) = {}
    BY DEF OpenIn
  <2>2. QED
    BY <2>1, FS_EmptySet
<1>3. Within(<< >>, 0, 0)
  BY <1>2 DEF Within
<1>4. TypedStack' /\ Typed'
  BY <1>1, <1>2, <1>3, EmptyContext DEF TypedStack, Typed
<1>5. Clear' /\ LineDone'
  BY <1>1 DEF Clear, LineDone
<1>6. QED
  BY <1>1, <1>4, <1>5 DEF Together, Waiting, Apart, Calling, Called

\* Only BeginDirect starts the second reading.
LEMMA PhaseKept ==
  ASSUME NextBoth, ~BeginDirect
  PROVE  phase' = phase
<1>1. UNCHANGED reading => phase' = phase
  BY DEF reading
<1>2. CASE Read
  BY <1>2 DEF Read, client
<1>3. ASSUME NEW v, Conclude(v) PROVE phase' = phase
  BY <1>1, <1>3 DEF Conclude
<1>4. ASSUME Stay PROVE phase' = phase
  BY <1>1, <1>4 DEF Stay
<1>5. CASE NextStatement \/ CommentRead \/ DirectToken
  BY <1>4, <1>5 DEF NextStatement, CommentRead, DirectToken
<1>6. CASE CallFailed \/ EndOfDocument \/ UnexpectedInValue
  BY <1>3, <1>6 DEF CallFailed, EndOfDocument, UnexpectedInValue, Refuse
<1>7. CASE HeaderRead \/ KeyRead
  BY <1>1, <1>7 DEF HeaderRead, KeyRead
<1>8. CASE StrayToken
  BY <1>3, <1>8 DEF StrayToken, Refuse
<1>9. ASSUME NEW s, Deeper(s) PROVE phase' = phase
  BY <1>1, <1>9 DEF Deeper
<1>10. ASSUME NEW s, NEW elems, ValueOver(s, elems) PROVE phase' = phase
  BY <1>1, <1>3, <1>10 DEF ValueOver
<1>11. CASE ScalarRead \/ ContainerOpens \/ InlineKeyRead \/ ContainerCloses
  BY <1>9, <1>10, <1>11 DEF ScalarRead, ContainerOpens, InlineKeyRead, ContainerCloses
<1>12. CASE SkipBegins \/ SkipEnds \/ SkipToken
  BY <1>1, <1>3, <1>4, <1>12 DEF SkipBegins, SkipEnds, SkipToken, Refuse
<1>13. ASSUME NEW i, NEW fs, Goto(i, fs) PROVE phase' = phase
  BY <1>1, <1>13 DEF Goto
<1>14. CASE ScanSkipped
  BY <1>3, <1>13, <1>14 DEF ScanSkipped, SkipValue, Refuse
<1>15. CASE ScanFused
  BY <1>3, <1>4, <1>15 DEF ScanFused, Refuse
<1>16. ASSUME NEW p, FusedAssignment(p) PROVE phase' = phase
  <2>1. \/ Refuse
        \/ \E e, v, field, where : KeyTaken(p, e, v, field, where)
        \/ \E e, array : ArrayTaken(p, e, array)
    BY <1>16 DEF FusedAssignment
  <2>2. QED
    BY <1>1, <1>3, <2>1 DEF KeyTaken, ArrayTaken, Refuse
<1>17. ASSUME NEW p, FusedHeader(p) PROVE phase' = phase
  BY <1>1, <1>3, <1>17 DEF FusedHeader, Refuse
<1>18. ASSUME NEW p, LineEndCheck(p) PROVE phase' = phase
  BY <1>3, <1>18 DEF LineEndCheck, Refuse, client
<1>19. CASE DirectStatement
  BY <1>4, <1>16, <1>17, <1>18, <1>19 DEF DirectStatement, ReadsToken
<1>20. QED
  BY <1>2, <1>5, <1>6, <1>7, <1>8, <1>11, <1>12, <1>14, <1>15, <1>19 DEF NextBoth

\* Only BeginDirect clears an error of the reader.
LEMMA ErrorKept ==
  ASSUME NextBoth, ~BeginDirect, err' = Nothing
  PROVE  err = Nothing
<1>1. ASSUME NEW kind, NEW p, Fail(kind, p) PROVE err = Nothing
  BY <1>1 DEF Fail, Result, Nothing, StickyKinds
<1>2. ASSUME NEW p, ScanArrayStart(p) \/ ScanInlineTableStart(p)
      PROVE  err = Nothing
  BY <1>2 DEF ScanArrayStart, ScanInlineTableStart, Result, Nothing
<1>3. ASSUME NEW p, \/ ScanArrayEnd(p) \/ ScanInlineTableEnd(p) \/ ScanValueToken(p)
      PROVE  err = Nothing
  BY <1>1, <1>3 DEF ScanArrayEnd, ScanInlineTableEnd, ScanValueToken, CloseContainer
<1>4. CASE Read
  <2>1. PICK p \in off .. End : ReadTokenLoop!2!(p)
    BY <1>4 DEF Read, ReadTokenLoop
  <2>2. CASE err' = err
    BY <2>2
  <2>3. CASE err' # err
    <3>1. ASSUME NEW open, NEW kind, ScanHeader(p, open, kind) PROVE err = Nothing
      BY <1>1, <2>3, <3>1 DEF ScanHeader, Result, Nothing
    <3>2. CASE ScanTableHeader(p) \/ ScanArrayTableHeader(p)
      BY <3>1, <3>2 DEF ScanTableHeader, ScanArrayTableHeader
    <3>3. CASE ScanComment(p) \/ ScanKeyToken(p)
      BY <1>1, <2>3, <3>3 DEF ScanComment, ScanKeyToken
    <3>4. CASE AtEnd(p) \/ LineBreakDue(p) \/ Comma(p)
      BY <1>1, <2>3, <3>4 DEF AtEnd, LineBreakDue, Comma
    <3>5. CASE \/ BareCarriageReturn(p) \/ ExpectedComma(p) \/ UnexpectedEquals(p)
               \/ MissingSeparator(p)
      BY <1>1, <3>5
      DEF BareCarriageReturn, ExpectedComma, UnexpectedEquals, MissingSeparator
    <3>6. QED
      BY <1>2, <1>3, <2>1, <3>2, <3>3, <3>4, <3>5
  <2>4. QED
    BY <2>2, <2>3
<1>5. UNCHANGED decoder => err' = err
  BY DEF decoder
<1>6. ASSUME NEW v, Conclude(v) PROVE err' = err
  BY <1>5, <1>6 DEF Conclude
<1>7. ASSUME NEW where, Call(where) PROVE err' = err
  BY <1>7 DEF Call, ReadTokenBegins, ReadTokenSticky
<1>8. CASE NextStatement \/ CommentRead \/ DirectToken \/ HeaderRead \/ KeyRead \/ StrayToken
  BY <1>5, <1>6, <1>7, <1>8
  DEF NextStatement, CommentRead, DirectToken, HeaderRead, KeyRead, StrayToken, Refuse
<1>9. CASE CallFailed \/ EndOfDocument \/ UnexpectedInValue
  BY <1>6, <1>9 DEF CallFailed, EndOfDocument, UnexpectedInValue, Refuse
<1>10. ASSUME NEW s, Deeper(s) PROVE err' = err
  BY <1>7, <1>10 DEF Deeper
<1>11. ASSUME NEW s, NEW elems, ValueOver(s, elems) PROVE err' = err
  BY <1>5, <1>6, <1>7, <1>11 DEF ValueOver
<1>12. CASE ScalarRead \/ ContainerOpens \/ InlineKeyRead \/ ContainerCloses
  BY <1>10, <1>11, <1>12 DEF ScalarRead, ContainerOpens, InlineKeyRead, ContainerCloses
<1>13. CASE SkipBegins \/ SkipEnds \/ SkipToken
  BY <1>5, <1>6, <1>7, <1>13 DEF SkipBegins, SkipEnds, SkipToken, Refuse, ReaderAfterSkip
<1>14. ASSUME NEW i, NEW fs, Goto(i, fs) PROVE err' = err
  BY <1>5, <1>14 DEF Goto
<1>15. CASE ScanSkipped
  BY <1>6, <1>14, <1>15 DEF ScanSkipped, SkipValue, Refuse
<1>16. CASE ScanFused
  BY <1>2, <1>3, <1>6, <1>16 DEF ScanFused, Refuse
<1>17. ASSUME NEW p, FusedAssignment(p) PROVE err' = err
  <2>1. \/ Refuse
        \/ \E e, v, field, where : KeyTaken(p, e, v, field, where)
        \/ \E e, array : ArrayTaken(p, e, array)
    BY <1>17 DEF FusedAssignment
  <2>2. QED
    BY <1>6, <2>1 DEF KeyTaken, ArrayTaken, ReaderAfterArray, Refuse
<1>18. ASSUME NEW p, FusedHeader(p) PROVE err' = err
  BY <1>6, <1>18 DEF FusedHeader, Refuse
<1>19. ASSUME NEW p, LineEndCheck(p) PROVE err' = err
  BY <1>6, <1>19 DEF LineEndCheck, Refuse
<1>20. CASE DirectStatement
  BY <1>17, <1>18, <1>19, <1>20 DEF DirectStatement, ReadsToken, StopAt
<1>21. QED
  BY <1>4, <1>8, <1>9, <1>12, <1>13, <1>15, <1>16, <1>20 DEF NextBoth

LEMMA NextKept ==
  ASSUME BothInv, [NextBoth]_clientVars
  PROVE  BothInv'
<1>1. SUFFICES ASSUME phase' = "direct", err' = Nothing PROVE Together'
  BY DEF BothInv
<1>2. CASE UNCHANGED clientVars
  <2>1. /\ UNCHANGED <<phase, err, at, ctx, pc, out, off, buf, decodeStart, stack>>
        /\ UNCHANGED <<arrayDepth, inlineDepth, expectingValue, valueNoNewline>>
        /\ UNCHANGED <<needSeparator, needLineEnd, atLineStart>>
    BY <1>2 DEF clientVars, client, decoder
  <2>2. Together
    BY <1>1, <2>1 DEF BothInv
  <2>3. UNCHANGED <<Clear, LineDone, ValueLeft>>
    BY <2>1 DEF Clear, LineDone, ValueLeft, Cell, End
  <2>4. Typed' /\ Waiting' /\ Apart' /\ Calling'
    BY <2>1, <2>2, <2>3 DEF Together, Typed, TypedStack, Waiting, Apart, Calling
  <2>5. AtToken => AtToken'
    BY <2>1, <2>3 DEF AtToken
  <2>6. AtSkip => AtSkip'
    BY <2>1, <2>3 DEF AtSkip
  <2>7. AtValue => AtValue'
    BY <2>1, <2>3 DEF AtValue
  <2>8. QED
    BY <2>1, <2>2, <2>4, <2>5, <2>6, <2>7 DEF Together, Called
<1>3. CASE BeginDirect
  BY <1>3, BeginKept
<1>4. CASE NextBoth /\ ~BeginDirect
  <2>1. phase' = phase
    BY <1>4, PhaseKept
  <2>2. err = Nothing
    BY <1>1, <1>4, ErrorKept
  <2>3. Together
    BY <1>1, <2>1, <2>2 DEF BothInv
  <2>4. ~NextStatement
    BY <1>1, <2>1 DEF NextStatement
  <2>5. QED
    BY <1>1, <1>4, <2>1, <2>2, <2>3, <2>4, ReadKept, StatementKept, EndKept, ValueKept,
       SkipKept, DirectKept DEF NextBoth
<1>5. QED
  BY <1>2, <1>3, <1>4

\* Whatever the document and the limits, each time the direct client is between two
\* statements the reader is outside of every value and at, or behind, the end of a line: the
\* flags bindDocumentDirect sets by hand (unmarshal_direct.go) are those the token reader
\* would have left, so either may read the next statement.
THEOREM BoundaryKept == SpecBoth => []StatementBoundary
<1>1. InitBoth => BothInv
  BY DEF InitBoth, BothInv
<1>2. BothInv /\ [NextBoth]_clientVars => BothInv'
  BY NextKept
<1>3. BothInv => StatementBoundary
  <2>1. SUFFICES ASSUME Together, at = "statement" PROVE StatementBoundary!2
    BY DEF BothInv, StatementBoundary
  <2>2. Clear /\ LineDone /\ Within(<< >>, arrayDepth, inlineDepth)
    BY <2>1 DEF Together, Typed, TypedStack, Apart, Clear
  <2>3. \A kind : Cardinality(OpenIn(<< >>, kind)) = 0
    <3>1. \A kind : OpenIn(<< >>, kind) = {}
      BY DEF OpenIn
    <3>2. QED
      BY <3>1, FS_EmptySet
  <2>4. arrayDepth = 0 /\ inlineDepth = 0
    BY <2>2, <2>3 DEF Within
  <2>5. QED
    BY <2>2, <2>4 DEF Clear, LineDone
<1>4. QED
  BY <1>1, <1>2, <1>3, PTL DEF SpecBoth
=============================================================================
