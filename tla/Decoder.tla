------------------------------ MODULE Decoder ------------------------------
(***************************************************************************)
(* The token reader of decoder.go.  A Decoder holds a whole document in    *)
(* buf and hands it out one token per ReadToken call.  What the next       *)
(* character means depends on four flags (is a value expected, may it be   *)
(* on another line, is a separator due, is the line over), on whether the  *)
(* reader is at the start of a line and on the stack of open containers.   *)
(*                                                                         *)
(* A document is a sequence of cells.  A cell is one character where the   *)
(* reader looks at characters and one lexeme where it only measures it:    *)
(*   "1"  a byte that is fine in a bare key and in a bare value            *)
(*   "a"  a byte that is fine in a bare key only                           *)
(*   "q"  a complete quoted string        "Q"  one over MaxStringLength    *)
(*   "B"  a closed string whose contents are rejected (a bad escape)       *)
(*   "U"  a quote that is never closed                                     *)
(*   "nl", "cr", "sp"  line feed, carriage return, space or tab            *)
(*   "bom"  the byte order mark           "bad"  a byte that is not UTF-8  *)
(* A run of bare cells stands for a dotted bare key as well.               *)
(*                                                                         *)
(* off is the index of the next unread cell: d.off + 1 in the code.        *)
(***************************************************************************)
EXTENDS Integers, Sequences, FiniteSets, SequencesExt

CONSTANTS
  Inputs,           \* the documents a decoder is created over
  MaxNestedDepth,   \* Limits.MaxNestedDepth, in containers
  MaxKeyLength,     \* Limits.MaxKeyLength, in cells
  MaxStringLength,  \* Limits.MaxStringLength, in cells
  MaxDocumentSize   \* Limits.MaxDocumentSize, in cells

Bare    == {"1", "a"}
Quoted  == {"q", "Q"}
Cells   == Bare \cup Quoted \cup
           {"B", "U", "nl", "cr", "sp", "bom", "bad", "[", "]", "{", "}", ",", "=", "#"}

ASSUME InputsAssumption == Inputs \subseteq Seq(Cells)
ASSUME LimitsAssumption ==
  /\ MaxNestedDepth \in Nat \ {0}
  /\ MaxKeyLength \in Nat \ {0}
  /\ MaxStringLength \in Nat \ {0}
  /\ MaxDocumentSize \in Nat \ {0}

VARIABLES
  buf, off, decodeStart, err, decoded,
  expectingValue, valueNoNewline, needSeparator, needLineEnd, atLineStart,
  arrayDepth, inlineDepth,
  stack,   \* containerStack, containerDepth and containerExtra as one sequence
  pc,      \* "idle" between calls, "reading" inside the loop of readToken
  out,     \* what the last call returned
  tokens   \* history: the tokens returned so far

flags  == <<expectingValue, valueNoNewline, needSeparator>>
depths == <<arrayDepth, inlineDepth, stack>>
fixed  == <<buf, decodeStart, decoded>>
vars   == <<buf, off, decodeStart, err, decoded, expectingValue, valueNoNewline,
            needSeparator, needLineEnd, atLineStart, arrayDepth, inlineDepth,
            stack, pc, out, tokens>>

Containers == {"array", "inline"}
TokenKinds == {"key", "scalar", "arrayStart", "arrayEnd", "inlineStart", "inlineEnd",
               "header", "arrayHeader", "comment"}
StickyKinds == {"syntax", "limit", "utf8"}
ErrorKinds  == StickyKinds \cup {"string"}
CallResults == {"none", "eof", "state", "unmarshal", "decoded"}

Result(kind, at, end) == [kind |-> kind, at |-> at, end |-> end]
Nothing == Result("none", 0, 0)
Failed(r) == r.kind \in ErrorKinds

-----------------------------------------------------------------------------
(* Looking at the buffer.                                                  *)

End == Len(buf) + 1

\* The cell at k, "end" past the last one.
Cell(k) == IF k < End THEN buf[k] ELSE "end"

CRLF(k) == Cell(k) = "cr" /\ Cell(k + 1) = "nl"
BareCR(k) == Cell(k) = "cr" /\ Cell(k + 1) # "nl"

\* Mutant: skipSpaces takes a lone carriage return for a line end.
BlankAnyCR(k) == \/ Cell(k) \in {"sp", "cr"}
                 \/ ~valueNoNewline /\ Cell(k) = "nl"

\* What skipSpaces passes over: blanks, and line ends unless a value is due on this line.
Blank(k) == \/ Cell(k) = "sp"
            \/ ~valueNoNewline /\ (Cell(k) = "nl" \/ CRLF(k))

\* The line feed of a CRLF goes with its carriage return, so it is never where this stops.
SkipsTo(p) == ~Blank(p) /\ \A k \in off .. p - 1 : Blank(k)

CrossesLine(p) == \E k \in off .. p - 1 : buf[k] = "nl"

\* The flags skipSpaces leaves when it stops at p.
LineStartAt(p) == atLineStart \/ CrossesLine(p)
LineEndDue(p)  == needLineEnd /\ ~CrossesLine(p)

\* e is the first position at or after i that holds a cell of stops, or the end.
StopsAt(i, e, stops) == /\ Cell(e) \in stops \cup {"end"}
                        /\ \A k \in i .. e - 1 : buf[k] \notin stops

\* Cells i .. j - 1 are one well-formed key.
KeyText(i, j) == \/ i < j /\ \A k \in i .. j - 1 : buf[k] \in Bare
                 \/ j = i + 1 /\ buf[i] \in Quoted
TextLength(i, j) == IF \E k \in i .. j - 1 : buf[k] = "Q" THEN j - i + MaxStringLength ELSE j - i

\* validateHeaderKey: cells i .. j - 1 are one key with blanks around it.
HeaderKeyText(i, j) ==
  \E a \in i .. j - 1 : \E b \in a + 1 .. j :
     /\ KeyText(a, b)
     /\ \A k \in (i .. a - 1) \cup (b .. j - 1) : buf[k] = "sp"

InArray == stack # << >> /\ Last(stack) = "array"

\* Mutant: a closer pops whatever container is innermost.
PopContainerAny(want) == IF stack # << >> THEN Front(stack) ELSE stack

\* popContainer: only a matching closer pops.
PopContainer(want) == IF stack # << >> /\ Last(stack) = want THEN Front(stack) ELSE stack

-----------------------------------------------------------------------------
(* How an iteration of the loop ends.                                      *)

\* Mutant: a failed call leaves the reader past the offending cell.
FailPast(kind, p) ==
  /\ out' = Result(kind, p, p)
  /\ err' = IF kind \in StickyKinds THEN Result(kind, p, p) ELSE err
  /\ off' = IF p < End THEN p + 1 ELSE p
  /\ atLineStart' = LineStartAt(p)
  /\ needLineEnd' = LineEndDue(p)
  /\ pc' = "idle"
  /\ UNCHANGED <<fixed, flags, depths, tokens>>

\* syntaxError and setErr make the error sticky; the errors of the string validator
\* are returned as they are.  skipSpaces has already moved the reader to p.
Fail(kind, p) ==
  /\ out' = Result(kind, p, p)
  /\ err' = IF kind \in StickyKinds THEN Result(kind, p, p) ELSE err
  /\ off' = p
  /\ atLineStart' = LineStartAt(p)
  /\ needLineEnd' = LineEndDue(p)
  /\ pc' = "idle"
  /\ UNCHANGED <<fixed, flags, depths, tokens>>

\* makeToken, advanceBytes and the return: the token is cells p .. e - 1, reading
\* resumes at next.  The flags are left to the caller.
Emit(kind, p, e, next) ==
  /\ out' = Result(kind, p, e)
  /\ tokens' = Append(tokens, Result(kind, p, e))
  /\ off' = next
  /\ atLineStart' = FALSE
  /\ pc' = "idle"
  /\ UNCHANGED fixed

\* Mutants: the line rule of the value survives it; an array forgets to expect a value.
AfterValueKeepsLine(s) ==
  /\ expectingValue' = (s # << >> /\ Last(s) = "array")
  /\ UNCHANGED valueNoNewline
  /\ needSeparator' = (s # << >>)
  /\ needLineEnd' = (s = << >>)
AfterValueInArray(s) ==
  /\ expectingValue' = FALSE
  /\ valueNoNewline' = FALSE
  /\ needSeparator' = (s # << >>)
  /\ needLineEnd' = (s = << >>)

\* What a complete value leaves behind, with s the containers still open.
AfterValue(s) ==
  /\ expectingValue' = (s # << >> /\ Last(s) = "array")
  /\ valueNoNewline' = FALSE
  /\ needSeparator' = (s # << >>)
  /\ needLineEnd' = (s = << >>)

-----------------------------------------------------------------------------
(* The branches of the loop, each for the reader stopped at p.             *)

AtEnd(p) ==
  /\ p = End
  /\ \/ expectingValue /\ Fail("syntax", p)
     \/ /\ ~expectingValue
        /\ out' = Result("eof", p, p)
        /\ off' = p
        /\ atLineStart' = LineStartAt(p)
        /\ needLineEnd' = LineEndDue(p)
        /\ pc' = "idle"
        /\ UNCHANGED <<fixed, err, flags, depths, tokens>>

BareCarriageReturn(p) == BareCR(p) /\ Fail("syntax", p)

\* The line is over: only a comment or the line break may follow.  A line break here is
\* one skipSpaces refused to pass; the loop goes round again.
LineBreakDue(p) ==
  /\ p < End /\ ~BareCR(p) /\ LineEndDue(p)
  /\ \/ /\ Cell(p) = "nl"
        /\ off' = p
        /\ UNCHANGED <<fixed, err, flags, needLineEnd, atLineStart, depths, pc, out, tokens>>
     \/ Cell(p) \notin {"nl", "#"} /\ Fail("syntax", p)

Dispatch(p) == p < End /\ ~BareCR(p) /\ ~LineEndDue(p)

AtHeader(p) == LineStartAt(p) /\ ~expectingValue /\ Cell(p) = "["
AtArrayHeader(p) == AtHeader(p) /\ Cell(p + 1) = "["

\* The end of a comment body is a line end; any other control byte is an error.
ScanComment(p) ==
  /\ Cell(p) = "#"
  /\ \E e \in p + 1 .. End :
       /\ StopsAt(p + 1, e, {"nl", "cr"})
       /\ \/ BareCR(e) /\ Fail("syntax", p)
          \/ /\ ~BareCR(e)
             /\ Emit("comment", p, e, e)
             /\ needLineEnd' = LineEndDue(p)
             /\ UNCHANGED <<err, flags, depths>>

\* scanTableHeader and scanArrayTableHeader, with open the width of the bracket.
\* scanHeaderEnd gives up at a line end or a bad quote before the closing bracket.
HeaderStops(e, open) ==
  \/ Cell(e) \in {"nl", "cr", "U", "B", "end"}
  \/ Cell(e) = "]" /\ (open = 2 => Cell(e + 1) = "]")

ScanHeader(p, open, kind) ==
  \E e \in p + open .. End :
     LET good == Cell(e) = "]" /\ HeaderKeyText(p + open, e)
         long == TextLength(p + open, e) > MaxKeyLength
     IN
     /\ HeaderStops(e, open) /\ \A k \in p + open .. e - 1 : ~HeaderStops(k, open)
     /\ \/ Cell(e) = "B" /\ Fail("string", p)
        \/ Cell(e) # "B" /\ ~good /\ Fail("syntax", p)
        \/ /\ good /\ long
           /\ out' = Result("limit", p, p)
           /\ err' = out'
           /\ off' = e + open
           /\ atLineStart' = FALSE
           /\ needLineEnd' = LineEndDue(p)
           /\ pc' = "idle"
           /\ UNCHANGED <<fixed, flags, depths, tokens>>
        \/ /\ good /\ ~long
           /\ Emit(kind, p, e + open, e + open)
           /\ expectingValue' = FALSE
           /\ needLineEnd' = TRUE
           /\ UNCHANGED <<err, valueNoNewline, needSeparator, depths>>

ScanArrayTableHeader(p) == Dispatch(p) /\ AtArrayHeader(p) /\ ScanHeader(p, 2, "arrayHeader")
ScanTableHeader(p) ==
  Dispatch(p) /\ AtHeader(p) /\ ~AtArrayHeader(p) /\ ScanHeader(p, 1, "header")

\* Mutant: the depth counters are decremented below zero.
CountDownAlways(n) == n - 1
CountDown(n) == IF n > 0 THEN n - 1 ELSE 0

\* A closer that does not match counts down its own depth but leaves the stack alone.
CloseContainer(p, kind, want) ==
  /\ Emit(kind, p, p + 1, p + 1)
  /\ stack' = PopContainer(want)
  /\ AfterValue(stack')
  /\ UNCHANGED err

ScanArrayEnd(p) ==
  /\ Dispatch(p) /\ Cell(p) = "]"
  /\ CloseContainer(p, "arrayEnd", "array")
  /\ arrayDepth' = CountDown(arrayDepth)
  /\ UNCHANGED inlineDepth

ScanInlineTableEnd(p) ==
  /\ Dispatch(p) /\ Cell(p) = "}"
  /\ CloseContainer(p, "inlineEnd", "inline")
  /\ inlineDepth' = CountDown(inlineDepth)
  /\ UNCHANGED arrayDepth

OpensContainer(p) ==
  Dispatch(p) /\ ~AtHeader(p) /\ Cell(p) \in {"[", "{"}

ExpectedComma(p) ==
  OpensContainer(p) /\ InArray /\ ~expectingValue /\ Fail("syntax", p)

\* enforceNestedDepth only records the error: this token is still returned.
ScanArrayStart(p) ==
  /\ OpensContainer(p) /\ ~(InArray /\ ~expectingValue) /\ Cell(p) = "["
  /\ Emit("arrayStart", p, p + 1, p + 1)
  /\ arrayDepth' = arrayDepth + 1
  /\ err' = IF arrayDepth' > MaxNestedDepth THEN Result("limit", p, p) ELSE err
  /\ stack' = Append(stack, "array")
  /\ expectingValue' = TRUE
  /\ valueNoNewline' = FALSE
  /\ needSeparator' = FALSE
  /\ needLineEnd' = LineEndDue(p)
  /\ UNCHANGED inlineDepth

ScanInlineTableStart(p) ==
  /\ OpensContainer(p) /\ ~(InArray /\ ~expectingValue) /\ Cell(p) = "{"
  /\ Emit("inlineStart", p, p + 1, p + 1)
  /\ inlineDepth' = inlineDepth + 1
  /\ stack' = Append(stack, "inline")
  /\ expectingValue' = FALSE
  /\ valueNoNewline' = FALSE
  /\ needSeparator' = FALSE
  /\ needLineEnd' = LineEndDue(p)
  /\ UNCHANGED <<err, arrayDepth>>

UnexpectedEquals(p) == Dispatch(p) /\ Cell(p) = "=" /\ Fail("syntax", p)

\* A separator is consumed without returning: the loop goes round again.
Comma(p) ==
  /\ Dispatch(p) /\ Cell(p) = ","
  /\ \/ ~needSeparator /\ Fail("syntax", p)
     \/ /\ needSeparator
        /\ off' = p + 1
        /\ atLineStart' = FALSE
        /\ needLineEnd' = LineEndDue(p)
        /\ needSeparator' = FALSE
        /\ expectingValue' = InArray
        /\ UNCHANGED <<fixed, err, valueNoNewline, depths, pc, out, tokens>>

\* Everything that is neither punctuation nor a comment is the start of a key or value.
StartsLexeme(p) == Dispatch(p) /\ Cell(p) \notin {"[", "]", "{", "}", "#", "=", ","}

SeparatorDue == needSeparator /\ IF expectingValue THEN InArray ELSE stack # << >>

MissingSeparator(p) == StartsLexeme(p) /\ SeparatorDue /\ Fail("syntax", p)

\* scanKeyToken runs to the '=', the comment or the line end, trims the blanks, checks
\* the key's form, then its length, then the '='.
KeyEndsAt(p, e, j) == KeyText(p, e) /\ \A k \in e .. j - 1 : buf[k] = "sp"

ScanKeyToken(p) ==
  /\ StartsLexeme(p) /\ ~expectingValue /\ ~SeparatorDue
  /\ \E j \in p .. End :
       /\ StopsAt(p, j, {"=", "#", "nl", "cr", "U", "B"})
       /\ \/ Cell(j) = "B" /\ Fail("string", p)
          \/ Cell(j) = "U" /\ Fail("syntax", p)
          \/ /\ Cell(j) \notin {"B", "U"}
             /\ ~\E e \in p + 1 .. j : KeyEndsAt(p, e, j)
             /\ Fail("syntax", p)
          \/ \E e \in p + 1 .. j :
               /\ Cell(j) \notin {"B", "U"} /\ KeyEndsAt(p, e, j)
               /\ \/ TextLength(p, e) > MaxKeyLength /\ Fail("limit", p)
                  \/ TextLength(p, e) <= MaxKeyLength /\ Cell(j) # "=" /\ Fail("syntax", p)
                  \/ /\ TextLength(p, e) <= MaxKeyLength /\ Cell(j) = "="
                     /\ Emit("key", p, e, j + 1)
                     /\ expectingValue' = TRUE
                     /\ valueNoNewline' = TRUE
                     /\ needLineEnd' = FALSE
                     /\ UNCHANGED <<err, needSeparator, depths>>

\* Mutant: a bare value runs through the brace that closes its inline table.
BareValueStopsNoBrace == {"sp", "nl", "cr", ",", "]", "#", "="}

\* scanBareValueEnd stops at these; what it read must be a literal.
BareValueStops == {"sp", "nl", "cr", ",", "]", "}", "#", "="}

Literal(p, e) == IF Cell(p) = "q" THEN e = p + 1
                 ELSE p < e /\ \A k \in p .. e - 1 : buf[k] = "1"

ScanValueToken(p) ==
  /\ StartsLexeme(p) /\ expectingValue /\ ~SeparatorDue
  /\ \/ Cell(p) = "U" /\ Fail("syntax", p)
     \/ Cell(p) = "B" /\ Fail("string", p)
     \/ Cell(p) = "Q" /\ Fail("limit", p)
     \/ \E e \in p .. End :
          /\ Cell(p) \notin {"U", "B", "Q"}
          /\ IF Cell(p) = "q" THEN e = p + 1 ELSE StopsAt(p, e, BareValueStops)
          /\ \/ ~Literal(p, e) /\ Fail("syntax", p)
             \/ /\ Literal(p, e)
                /\ Emit("scalar", p, e, e)
                /\ AfterValue(stack)
                /\ UNCHANGED <<err, depths>>

-----------------------------------------------------------------------------
(* The calls a client makes.                                               *)

ReadTokenSticky ==
  /\ pc = "idle" /\ err # Nothing
  /\ out' = err
  /\ UNCHANGED <<fixed, off, err, flags, needLineEnd, atLineStart, depths, pc, tokens>>

ReadTokenBegins ==
  /\ pc = "idle" /\ err = Nothing
  /\ pc' = "reading"
  /\ UNCHANGED <<fixed, off, err, flags, needLineEnd, atLineStart, depths, out, tokens>>

\* One iteration of the loop of readToken.
ReadTokenLoop ==
  /\ pc = "reading"
  /\ \E p \in off .. End :
       /\ SkipsTo(p)
       /\ \/ AtEnd(p) \/ BareCarriageReturn(p) \/ LineBreakDue(p)
          \/ ScanTableHeader(p) \/ ScanArrayTableHeader(p)
          \/ ExpectedComma(p) \/ ScanArrayStart(p) \/ ScanInlineTableStart(p)
          \/ ScanArrayEnd(p) \/ ScanInlineTableEnd(p) \/ ScanComment(p)
          \/ UnexpectedEquals(p) \/ Comma(p) \/ MissingSeparator(p)
          \/ ScanKeyToken(p) \/ ScanValueToken(p)

\* Mutant: Decode does not look at how far the reader got.
UntouchedAnyOffset == ~decoded /\ ~expectingValue /\ stack = << >>

Untouched == /\ ~decoded /\ off = decodeStart /\ ~expectingValue
             /\ arrayDepth = 0 /\ inlineDepth = 0 /\ stack = << >>

\* Decode: whether unmarshalWithOptions accepts the document depends on the destination
\* as well, so both outcomes are possible.
Decode ==
  /\ pc = "idle"
  /\ \/ err # Nothing /\ out' = err /\ UNCHANGED <<decoded, off>>
     \/ /\ err = Nothing /\ ~Untouched
        /\ out' = Result("state", off, off)
        /\ UNCHANGED <<decoded, off>>
     \/ /\ err = Nothing /\ Untouched
        /\ out' = Result("unmarshal", off, off)
        /\ UNCHANGED <<decoded, off>>
     \/ /\ err = Nothing /\ Untouched
        /\ out' = Result("decoded", off, off)
        /\ decoded' = TRUE
        /\ off' = End
  /\ UNCHANGED <<buf, decodeStart, err, flags, needLineEnd, atLineStart, depths, pc, tokens>>

\* NewDecoder and NewDecoderBytes check the size, then the encoding, then skip the mark.
NewDecoder(doc) ==
  LET invalid == \E k \in 1 .. Len(doc) : doc[k] = "bad"
      start == IF doc # << >> /\ doc[1] = "bom" THEN 2 ELSE 1
  IN  /\ buf = doc
      /\ err = IF Len(doc) > MaxDocumentSize THEN Result("limit", 1, 1)
               ELSE IF invalid THEN Result("utf8", 1, 1) ELSE Nothing
      /\ off = IF err = Nothing THEN start ELSE 1
      /\ decodeStart = off
      /\ atLineStart = (off = 1)

Init ==
  /\ \E doc \in Inputs : NewDecoder(doc)
  /\ decoded = FALSE
  /\ expectingValue = FALSE /\ valueNoNewline = FALSE
  /\ needSeparator = FALSE /\ needLineEnd = FALSE
  /\ arrayDepth = 0 /\ inlineDepth = 0 /\ stack = << >>
  /\ pc = "idle" /\ out = Nothing /\ tokens = << >>

Next == ReadTokenSticky \/ ReadTokenBegins \/ ReadTokenLoop \/ Decode

\* A call is plain sequential code: once begun it keeps going round its loop.
Fairness == WF_vars(ReadTokenLoop)

Spec == Init /\ [][Next]_vars /\ Fairness

-----------------------------------------------------------------------------
(* Properties.                                                             *)

Results == [kind : TokenKinds \cup ErrorKinds \cup CallResults, at : Nat, end : Nat]

TypeOK ==
  /\ buf \in Seq(Cells)
  /\ off \in 1 .. End
  /\ decodeStart \in {1, 2}
  /\ err \in Results /\ out \in Results
  /\ decoded \in BOOLEAN /\ needLineEnd \in BOOLEAN /\ atLineStart \in BOOLEAN
  /\ expectingValue \in BOOLEAN /\ valueNoNewline \in BOOLEAN /\ needSeparator \in BOOLEAN
  /\ arrayDepth \in Nat /\ inlineDepth \in Nat
  /\ stack \in Seq(Containers)
  /\ pc \in {"idle", "reading"}
  /\ tokens \in Seq(Results)

\* The flags never contradict each other or the stack.  needLineEnd with valueNoNewline
\* would make readToken spin on a line break (decoder.go:369); no separator is due between
\* a key and its value; the last conjunct says an open array always expects a value, so a
\* document cannot end inside one unnoticed.
DispatchFlags ==
  /\ valueNoNewline => expectingValue /\ ~needSeparator
  /\ needLineEnd => ~expectingValue
  /\ needSeparator => stack # << >>
  /\ InArray => expectingValue

\* ReadToken reports a clean end of input only when it read everything, no value is
\* missing and no array is open.
CleanEOF == out.kind = "eof" /\ ~decoded => off = End /\ ~expectingValue /\ ~InArray

\* Tokens are handed out in document order without overlap, and nothing but blanks, line
\* ends and the separators '=' and ',' is passed over between them.
NothingSkipped ==
  ~decoded /\ err = Nothing =>
    /\ \A i \in 1 .. Len(tokens) :
         /\ tokens[i].at < tokens[i].end /\ tokens[i].end <= off
         /\ i > 1 => tokens[i - 1].end <= tokens[i].at
    /\ \A k \in decodeStart .. off - 1 :
         \/ buf[k] \in {"sp", "nl", "=", ","} \/ CRLF(k)
         \/ \E i \in 1 .. Len(tokens) : k \in tokens[i].at .. tokens[i].end - 1

\* Binding a document and reading its tokens exclude each other: once Decode succeeded
\* ReadToken never returns a token, and it never succeeds after one.
DecodeExclusive == decoded => tokens = << >>

Open(kind) == {i \in DOMAIN stack : stack[i] = kind}
CountKind(kinds) == Cardinality({i \in DOMAIN tokens : tokens[i].kind \in kinds})

\* arrayDepth and inlineDepth agree with the stack as long as every closer matched; after
\* a mismatched closer they only ever fall behind it.  The array depth cap holds.
DepthCounters ==
  /\ arrayDepth <= Cardinality(Open("array"))
  /\ inlineDepth <= Cardinality(Open("inline"))
  /\ err = Nothing => arrayDepth <= MaxNestedDepth
  /\ CountKind({"arrayStart", "inlineStart"})
       = CountKind({"arrayEnd", "inlineEnd"}) + Len(stack)
     => arrayDepth + inlineDepth = Len(stack)

\* An error is final for the token stream: a ReadToken call that follows a failed one
\* returns the same error, also when the first left d.err unset (decoder.go:880, 971).
ErrorRepeats ==
  [][(ReadTokenSticky \/ ReadTokenLoop) /\ Failed(out) => out' = out]_vars

\* Every ReadToken call returns: the loop cannot go round forever on any input.
CallReturns == pc = "reading" ~> pc = "idle"

=============================================================================
