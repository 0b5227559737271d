---------------------------- MODULE DirectReader ----------------------------
(***************************************************************************)
(* Two ways to read one document.  parseDocument (value.go) asks the       *)
(* reader of Decoder for every token.  bindDocumentDirect                  *)
(* (unmarshal_direct.go) does too, but for headers of one bare name, for   *)
(* assignments to one bare key, for arrays of strings and for the values   *)
(* of fields its destination does not have it scans the buffer itself and  *)
(* then moves the reader's offset and sets its flags by hand.              *)
(*                                                                         *)
(* A behaviour reads its document first the one way and then the other.    *)
(* What a destination has fields for is told by the cells of a key, see    *)
(* FieldOf; it has every table that the document opens under such a name.  *)
(***************************************************************************)
EXTENDS Decoder

VARIABLES
  phase,     \* "tokens": parseDocument, then "direct": bindDocumentDirect
  at,        \* where the client is; "token", "value", "skip": it called ReadToken
  inTable,   \* a header was read
  known,     \* the current table is one of the destination (currentDirect # nil)
  target,    \* the field the value being read goes to
  ctx,       \* what parseRawValueToken is inside of, outermost first
  frames, pos,  \* the stack of scanSkippedStructuralValue and its index i
  log,       \* the statements read so far
  verdict,   \* how the reading ended
  first,     \* [verdict, log] of the first reading
  lenient    \* the liberties of the token reader that it used

client  == <<phase, at, inTable, known, target, ctx, frames, pos, log, verdict, first, lenient>>
decoder == <<buf, off, decodeStart, err, decoded, expectingValue, valueNoNewline,
             needSeparator, needLineEnd, atLineStart, arrayDepth, inlineDepth,
             stack, pc, out, tokens>>
reading == <<phase, first, lenient>>   \* what only BeginDirect changes
clientVars == <<decoder, client>>

-----------------------------------------------------------------------------
(* The destination and the log.                                            *)

\* What the destination does with the key in cells i .. j - 1: a field of type any,
\* a field of type []string, or no field.
FieldOf(i, j) == CASE buf[i] \in {"q", "Q"} \/ (buf[i] = "a" /\ j = i + 1) -> "any"
                   [] buf[i] = "a" /\ j > i + 1 -> "strings"
                   [] OTHER -> "none"

\* The name in a header starts at the first cell that is not a bracket or a blank.
HeaderKnown(i, j) ==
  LET k == CHOOSE k \in i .. j : /\ buf[k] \notin {"[", "sp"}
                                 /\ \A l \in i .. k - 1 : buf[l] \in {"[", "sp"}
  IN  buf[k] # "1"

\* A statement: a header, or a key with the scalars of its value and where that ends.
Header(kind, i, j) == [kind |-> kind, at |-> i, end |-> j, elems |-> << >>, stop |-> j]
Key(i, j) == [kind |-> "key", at |-> i, end |-> j, elems |-> << >>, stop |-> 0]

Current == log[Len(log)]
Logged(elems, stop) == [log EXCEPT ![Len(log)].elems = elems, ![Len(log)].stop = stop]

Stay == UNCHANGED <<reading, inTable, known, target, ctx, frames, pos, log, verdict>>

\* The decoder is a local variable of both clients: an error drops it.
Conclude(v) == /\ at' = "done" /\ verdict' = v
               /\ UNCHANGED <<decoder, reading, inTable, known, target, ctx, frames, pos, log>>
Refuse == Conclude("refused")

-----------------------------------------------------------------------------
(* Reading by tokens.                                                      *)

\* A call of ReadToken: where tells which code looks at its result.
Call(where) == at' = where /\ (ReadTokenBegins \/ ReadTokenSticky)

Read == ReadTokenLoop /\ UNCHANGED client

NextStatement == /\ phase = "tokens" /\ at = "statement"
                 /\ Call("token")
                 /\ Stay

Returned(where) == pc = "idle" /\ at = where

CallFailed ==
  /\ \E where \in {"token", "value", "skip"} : Returned(where)
  /\ Failed(out) \/ (out.kind = "eof" /\ at # "token")
  /\ Refuse

EndOfDocument == Returned("token") /\ out.kind = "eof" /\ Conclude("accepted")

CommentRead ==
  /\ out.kind = "comment"
  /\ \/ Returned("token") /\ at' = "statement" /\ UNCHANGED decoder
     \/ Returned("value") /\ Call("value")
     \/ Returned("skip") /\ Call("skip")
  /\ Stay

HeaderRead ==
  /\ Returned("token") /\ out.kind \in {"header", "arrayHeader"}
  /\ log' = Append(log, Header(out.kind, out.at, out.end))
  /\ inTable' = TRUE
  /\ known' = HeaderKnown(out.at, out.end)
  /\ at' = "statement"
  /\ UNCHANGED <<decoder, reading, target, ctx, frames, pos, verdict>>

\* Only the direct client has a destination while it reads.
KeyRead ==
  /\ Returned("token") /\ out.kind = "key"
  /\ log' = Append(log, Key(out.at, out.end))
  /\ target' = IF phase = "tokens" THEN "any"
               ELSE IF known THEN FieldOf(out.at, out.end) ELSE "none"
  /\ IF target' = "none" THEN at' = "skipping" /\ UNCHANGED decoder ELSE Call("value")
  /\ UNCHANGED <<reading, inTable, known, ctx, frames, pos, verdict>>

\* parseDocument reads over a token that starts no statement once it saw a header.
StrayIgnored == phase = "tokens" /\ inTable

StrayToken ==
  /\ Returned("token")
  /\ out.kind \in {"scalar", "arrayStart", "arrayEnd", "inlineStart", "inlineEnd"}
  /\ \/ ~StrayIgnored /\ Refuse
     \/ /\ StrayIgnored
        /\ at' = "statement" /\ lenient' = lenient \cup {"stray"}
        /\ UNCHANGED <<decoder, phase, first, inTable, known, target, ctx, frames, pos, log, verdict>>

-----------------------------------------------------------------------------
(* parseRawValueToken, parseArrayValue, parseInlineTableValue and their    *)
(* typed counterparts directBindTypedToken and directBindStringSlice.      *)

Expecting == ctx # << >> => Last(ctx) # "inline"

\* The value whose last token is out is complete and s is what it was inside of.
Fits(s) == CASE target # "strings" -> TRUE
             [] s = << >> -> out.kind = "arrayEnd"
             [] s = <<"array">> -> out.kind = "scalar" /\ buf[out.at] = "q"
             [] OTHER -> TRUE

ValueOver(s, elems) ==
  \/ ~Fits(s) /\ Conclude("mismatch")
  \/ /\ Fits(s) /\ s = << >>
     /\ log' = Logged(elems, out.end)
     /\ ctx' = << >> /\ at' = "statement"
     /\ UNCHANGED <<decoder, reading, inTable, known, target, frames, pos, verdict>>
  \/ /\ Fits(s) /\ s # << >>
     /\ ctx' = IF Last(s) = "assign" THEN Front(s) ELSE s
     /\ log' = Logged(elems, 0)
     /\ Call("value")
     /\ UNCHANGED <<reading, inTable, known, target, frames, pos, verdict>>

Deeper(s) == /\ ctx' = s /\ Call("value")
             /\ UNCHANGED <<reading, inTable, known, target, frames, pos, log, verdict>>

ScalarRead ==
  /\ Returned("value") /\ out.kind = "scalar" /\ Expecting
  /\ ValueOver(ctx, Append(Current.elems, <<out.at, out.end>>))

ContainerOpens ==
  /\ Returned("value") /\ Expecting
  /\ \/ out.kind = "arrayStart" /\ Deeper(Append(ctx, "array"))
     \/ out.kind = "inlineStart" /\ Deeper(Append(ctx, "inline"))

InlineKeyRead ==
  /\ Returned("value") /\ out.kind = "key" /\ ~Expecting
  /\ Deeper(Append(ctx, "assign"))

ContainerCloses ==
  /\ Returned("value") /\ ctx # << >>
  /\ \/ out.kind = "arrayEnd" /\ Last(ctx) = "array"
     \/ out.kind = "inlineEnd" /\ Last(ctx) = "inline"
  /\ ValueOver(Front(ctx), Current.elems)

\* expected value, expected inline table key
UnexpectedInValue ==
  /\ Returned("value")
  /\ \/ Expecting /\ out.kind \in {"key", "header", "arrayHeader", "inlineEnd"}
     \/ ~Expecting /\ out.kind \notin {"key", "inlineEnd", "comment", "eof"} \cup ErrorKinds
     \/ out.kind = "arrayEnd" /\ Expecting /\ (ctx # << >> => Last(ctx) # "array")
  /\ Refuse

-----------------------------------------------------------------------------
(* Scanning past a value nobody asked for: skipNextValue.                  *)

\* scanCommentEnd: the line end or the end of the document after the '#' at i.
CommentEnd(i) == CHOOSE e \in i + 1 .. End : StopsAt(i + 1, e, {"nl", "cr"})
BadComment(i) == BareCR(CommentEnd(i))

\* skipSkippedStructuralSpace: blanks, line ends and comments; 0 at what cannot be passed.
StructuralSpace[i \in 1 .. End] ==
  CASE Cell(i) \in {"sp", "nl"} -> StructuralSpace[i + 1]
    [] CRLF(i) -> StructuralSpace[i + 2]
    [] Cell(i) = "#" /\ ~BadComment(i) -> StructuralSpace[CommentEnd(i)]
    [] BareCR(i) \/ (Cell(i) = "#" /\ BadComment(i)) -> 0
    [] OTHER -> i

\* skipSkippedInlineAssignmentSpace stays on the line.
InlineSpace(i) == CHOOSE e \in i .. End : Cell(e) # "sp" /\ \A k \in i .. e - 1 : buf[k] = "sp"

Top == frames[Len(frames)]
Settled(state) == [frames EXCEPT ![Len(frames)].state = state]
Frame(kind) == [kind |-> kind, state |-> IF kind = "array" THEN "value" ELSE "key"]
Nested(kind) == Cardinality({i \in DOMAIN frames : frames[i].kind = kind})
OpenedBy(c) == IF c = "[" THEN "array" ELSE "inline"
TooDeep(kind) == Nested(kind) + 1 > MaxNestedDepth

\* scanSkippedInlineKey: the text up to the '=' at j.
InlineKeyEnds(i, j) ==
  /\ StopsAt(i, j, {"=", ",", "}", "nl", "cr", "#", "U", "B"}) /\ Cell(j) = "="
  /\ \E e \in i + 1 .. j : KeyEndsAt(i, e, j) /\ TextLength(i, e) <= MaxKeyLength

\* The scalar of scanSkippedValue: cells i .. e - 1.
SkippedScalar(i, e) ==
  /\ Cell(i) \notin {"U", "B", "Q", "[", "{"}
  /\ IF Cell(i) = "q" THEN e = i + 1 ELSE StopsAt(i, e, BareValueStops)
  /\ Literal(i, e)

Goto(i, fs) == /\ frames' = fs /\ pos' = i
               /\ UNCHANGED <<decoder, reading, at, inTable, known, target, ctx, log, verdict>>

\* scanSkippedValue; the frame it is called from is done with its value.
SkipValue(i) ==
  \/ /\ Cell(i) \in {"[", "{"}
     /\ \/ TooDeep(OpenedBy(Cell(i))) /\ Refuse
        \/ /\ ~TooDeep(OpenedBy(Cell(i)))
           /\ Goto(i + 1, Append(Settled("separator"), Frame(OpenedBy(Cell(i)))))
  \/ \E e \in i + 1 .. End : SkippedScalar(i, e) /\ Goto(e, Settled("separator"))
  \/ /\ Cell(i) \notin {"[", "{"} /\ ~\E e \in i + 1 .. End : SkippedScalar(i, e)
     /\ Refuse

Closer == IF Top.kind = "array" THEN "]" ELSE "}"

\* One iteration of the loop of scanSkippedStructuralValue.
ScanSkipped ==
  LET i == IF Top.kind = "inline" /\ Top.state = "value"
           THEN InlineSpace(pos) ELSE StructuralSpace[pos]
  IN
  /\ at = "frames" /\ frames # << >>
  /\ \/ i \in {0, End} /\ Refuse
     \/ /\ i \notin {0, End} /\ Cell(i) = Closer
        /\ Top.state # "value" \/ Top.kind = "array"
        /\ Goto(i + 1, Front(frames))
     \/ /\ i \notin {0, End} /\ Top.state = "separator" /\ Cell(i) # Closer
        /\ \/ Cell(i) # "," /\ Refuse
           \/ Cell(i) = "," /\ Goto(i + 1, Settled(Frame(Top.kind).state))
     \/ /\ i \notin {0, End} /\ Top.state = "key" /\ Cell(i) # Closer
        /\ \/ \E j \in i + 1 .. End : InlineKeyEnds(i, j) /\ Goto(j + 1, Settled("value"))
           \/ ~(\E j \in i + 1 .. End : InlineKeyEnds(i, j)) /\ Refuse
     \/ /\ i \notin {0, End} /\ Top.state = "value"
        /\ Top.kind = "array" => Cell(i) # "]"
        /\ SkipValue(i)

\* skipStructuralValueFast takes a value that starts with a bracket or a brace.
SkipBegins ==
  /\ at = "skipping"
  /\ \E p \in off .. End :
       /\ SkipsTo(p)
       /\ \/ /\ err = Nothing /\ Cell(p) \in {"[", "{"}
             /\ frames' = <<Frame(OpenedBy(Cell(p)))>> /\ pos' = p + 1
             /\ at' = "frames"
             /\ UNCHANGED <<decoder, reading, inTable, known, target, ctx, log, verdict>>
          \/ /\ err # Nothing \/ Cell(p) \notin {"[", "{"}
             /\ Call("skip") /\ Stay

\* Mutant: the reader still expects the value that was skipped.
ReaderAfterSkipExpecting ==
  /\ off' = pos /\ atLineStart' = FALSE
  /\ valueNoNewline' = FALSE /\ needSeparator' = FALSE /\ needLineEnd' = TRUE
  /\ UNCHANGED <<fixed, err, expectingValue, depths, pc, out, tokens>>

\* What skipStructuralValueFast leaves behind; no container is open around it.
ReaderAfterSkip ==
  /\ off' = pos /\ atLineStart' = FALSE
  /\ expectingValue' = FALSE /\ valueNoNewline' = FALSE /\ needSeparator' = FALSE
  /\ needLineEnd' = TRUE
  /\ UNCHANGED <<fixed, err, depths, pc, out, tokens>>

SkipEnds ==
  /\ at = "frames" /\ frames = << >>
  /\ ReaderAfterSkip
  /\ log' = Logged(<< >>, pos)
  /\ at' = "statement"
  /\ UNCHANGED <<reading, inTable, known, target, ctx, frames, pos, verdict>>

\* skipRawValueToken.  A container only gets here behind a comment, where the reader
\* has already refused the document, so its loop over tokens is never entered.
SkipToken ==
  /\ Returned("skip") /\ ~Failed(out) /\ out.kind \notin {"comment", "eof"}
  /\ \/ out.kind # "scalar" /\ Refuse
     \/ /\ out.kind = "scalar"
        /\ log' = Logged(<< >>, out.end)
        /\ at' = "statement"
        /\ UNCHANGED <<decoder, reading, inTable, known, target, ctx, frames, pos, verdict>>

-----------------------------------------------------------------------------
(* The statements bindDocumentDirect reads without the token reader.       *)

Blanks(i) == CHOOSE e \in i .. End : Cell(e) # "sp" /\ \A k \in i .. e - 1 : buf[k] = "sp"
LineSpace[i \in 1 .. End] ==
  CASE Cell(i) \in {"sp", "nl"} -> LineSpace[i + 1]
    [] CRLF(i) -> LineSpace[i + 2]
    [] OTHER -> i

\* The bare name that starts at i ends before the result.
NameEnd(i) == CHOOSE e \in i .. End : Cell(e) \notin Bare /\ \A k \in i .. e - 1 : buf[k] \in Bare

\* The reader as skipSpaces leaves it at p.
StopAt(p) == /\ off' = p /\ atLineStart' = LineStartAt(p) /\ needLineEnd' = LineEndDue(p)
             /\ UNCHANGED <<fixed, err, flags, depths, pc, out, tokens>>

\* Mutant: the comment is found but not passed.
LineEndCheckStays(p) ==
  /\ LineEndDue(p) /\ p < End
  /\ \/ Cell(p) = "#" /\ ~BadComment(p) /\ StopAt(p) /\ UNCHANGED client
     \/ ~(Cell(p) = "#" /\ ~BadComment(p)) /\ Refuse

\* The top of the loop: something else follows the previous statement on its line.
LineEndCheck(p) ==
  /\ LineEndDue(p) /\ p < End
  /\ \/ /\ Cell(p) = "#" /\ ~BadComment(p)
        /\ off' = CommentEnd(p) /\ atLineStart' = LineStartAt(p)
        /\ UNCHANGED <<fixed, err, flags, needLineEnd, depths, pc, out, tokens>>
        /\ UNCHANGED client
     \/ Cell(p) = "#" /\ BadComment(p) /\ Refuse
     \/ Cell(p) # "#" /\ Refuse

\* tryBindArrayOrTableHeader and commitFusedHeader.  It does not ask whether the reader
\* is at the start of a line.  A header with a dotted or quoted name, or of a table the
\* destination does not have, is left to the token reader.
FusedHeaderAt(p, w, e) ==
  LET i == Blanks(p + w) IN
  /\ Cell(p) = "[" /\ w = IF Cell(p + 1) = "[" THEN 2 ELSE 1
  /\ i < NameEnd(i) /\ e = Blanks(NameEnd(i))
  /\ Cell(e) = "]" /\ (w = 2 => Cell(e + 1) = "]")

FusedHeader(p) ==
  \E w \in {1, 2} : \E e \in p + w .. End :
     /\ FusedHeaderAt(p, w, e)
     /\ \/ e - (p + w) > MaxKeyLength /\ Refuse
        \/ /\ e - (p + w) <= MaxKeyLength /\ HeaderKnown(p, e)
           /\ off' = e + w /\ atLineStart' = FALSE
           /\ expectingValue' = FALSE /\ valueNoNewline' = FALSE /\ needSeparator' = FALSE
           /\ needLineEnd' = TRUE
           /\ log' = Append(log, Header(IF w = 2 THEN "arrayHeader" ELSE "header", p, e + w))
           /\ inTable' = TRUE /\ known' = TRUE
           /\ UNCHANGED <<fixed, err, depths, pc, out, tokens>>
           /\ UNCHANGED <<reading, at, target, ctx, frames, pos, verdict>>

\* A bare key, blanks and '=' at eq.
FusedKeyAt(p, e, eq) == e = NameEnd(p) /\ e > p /\ eq = Blanks(e) /\ Cell(eq) = "="

\* skipSimpleStringArrayValue and bindFusedStringArray scan an array of strings the same
\* way; due is expectElem.  The outcome is "closed" before stop with the strings in
\* elems, "mistake" for a comma or a string out of place, "refused" or "declined".
StringArray[i \in 1 .. End, due \in BOOLEAN] ==
  LET j == LineSpace[i]
      Outcome(kind, stop) == [kind |-> kind, stop |-> stop, elems |-> << >>]
      rest == StringArray[j + 1, FALSE]
  IN  CASE Cell(j) = "]" -> Outcome("closed", j + 1)
        [] Cell(j) = "#" /\ ~BadComment(j) -> StringArray[CommentEnd(j), due]
        [] Cell(j) = "#" /\ BadComment(j) -> Outcome("refused", j)
        [] Cell(j) = "," /\ ~due -> StringArray[j + 1, TRUE]
        [] Cell(j) = "," /\ due -> Outcome("mistake", j)
        [] Cell(j) \in Quoted \cup {"U", "B"} /\ ~due -> Outcome("mistake", j)
        [] Cell(j) = "q" /\ due -> [rest EXCEPT !.elems = <<<<j, j + 1>>>> \o @]
        [] Cell(j) \in {"Q", "U", "B"} /\ due -> Outcome("refused", j)
        [] OTHER -> Outcome("declined", j)

\* Mutant: the line break behind an array is passed but still due.
ReaderAfterArrayStuck(i) ==
  LET e == Blanks(i) IN
  /\ off' = IF Cell(e) = "nl" THEN e + 1 ELSE IF CRLF(e) THEN e + 2 ELSE e
  /\ atLineStart' = (off' # e)
  /\ needLineEnd' = TRUE
  /\ expectingValue' = FALSE /\ valueNoNewline' = FALSE /\ needSeparator' = FALSE
  /\ UNCHANGED <<fixed, err, depths, pc, out, tokens>>

\* finishTopLevelArrayValue: blanks and one line end behind the array go with it.
ReaderAfterArray(i) ==
  LET e == Blanks(i) IN
  /\ off' = IF Cell(e) = "nl" THEN e + 1 ELSE IF CRLF(e) THEN e + 2 ELSE e
  /\ atLineStart' = (off' # e)
  /\ needLineEnd' = (off' = e)
  /\ expectingValue' = FALSE /\ valueNoNewline' = FALSE /\ needSeparator' = FALSE
  /\ UNCHANGED <<fixed, err, depths, pc, out, tokens>>

\* Mutant: the string before the closing bracket is lost.
ArrayTakenShort(p, e, array) ==
  /\ ReaderAfterArray(array.stop)
  /\ log' = Append(log, [Key(p, e) EXCEPT
       !.elems = SubSeq(array.elems, 1, Len(array.elems) - 1), !.stop = array.stop])
  /\ UNCHANGED <<reading, at, inTable, known, target, ctx, frames, pos, verdict>>

\* The array goes to its []string field, or nowhere.
ArrayTaken(p, e, array) ==
  /\ ReaderAfterArray(array.stop)
  /\ log' = Append(log, [Key(p, e) EXCEPT !.elems = array.elems, !.stop = array.stop])
  /\ UNCHANGED <<reading, at, inTable, known, target, ctx, frames, pos, verdict>>

\* The key is taken and a value expected at v, which where looks at.
KeyTaken(p, e, v, field, where) ==
  /\ off' = v /\ atLineStart' = FALSE /\ needLineEnd' = LineEndDue(p)
  /\ expectingValue' = TRUE /\ valueNoNewline' = TRUE
  /\ log' = Append(log, Key(p, e))
  /\ target' = field /\ at' = where
  /\ UNCHANGED <<fixed, err, needSeparator, depths, pc, out, tokens>>
  /\ UNCHANGED <<reading, inTable, known, ctx, frames, pos, verdict>>

\* tryBindSimpleAssignment.
FusedAssignment(p) ==
  \E e \in p + 1 .. End : \E eq \in e .. End :
     LET v     == Blanks(eq + 1)
         field == FieldOf(p, e)
         array == StringArray[v + 1, TRUE]
     IN
     /\ known /\ FusedKeyAt(p, e, eq)
     /\ \/ (err # Nothing \/ e - p > MaxKeyLength \/ v = End) /\ Refuse
        \/ /\ err = Nothing /\ e - p <= MaxKeyLength /\ v < End
           /\ \/ field = "any" /\ KeyTaken(p, e, v, field, "scan")
              \/ /\ field = "strings"
                 /\ \/ Cell(v) # "[" /\ KeyTaken(p, e, v, field, "scan")
                    \/ /\ Cell(v) = "["
                       /\ \/ array.kind = "closed" /\ ArrayTaken(p, e, array)
                          \/ array.kind = "refused" /\ Refuse
                          \/ /\ array.kind \in {"mistake", "declined"}
                             /\ KeyTaken(p, e, v, field, "scan")
              \/ /\ field = "none"
                 /\ \/ Cell(v) # "[" /\ KeyTaken(p, e, v, field, "skipping")
                    \/ /\ Cell(v) = "["
                       /\ \/ array.kind = "closed" /\ ArrayTaken(p, e, array)
                          \/ array.kind \in {"mistake", "refused"} /\ Refuse
                          \/ /\ array.kind = "declined"
                             /\ KeyTaken(p, e, v, field, "skipping")

\* The token reader's own step for the value at off, called without its loop.
ScanFused ==
  /\ at = "scan"
  /\ \/ /\ Cell(off) \notin {"#", "=", ","} /\ ~BareCR(off)
        /\ \/ ScanArrayStart(off) \/ ScanInlineTableStart(off)
           \/ ScanArrayEnd(off) \/ ScanInlineTableEnd(off) \/ ScanValueToken(off)
        /\ at' = "value" /\ Stay
     \/ (Cell(off) \in {"#", "=", ","} \/ BareCR(off)) /\ Refuse

\* More than one bare cell may stand for a dotted name, which the fused paths decline.
MayBeDotted(i) == NameEnd(i) > i + 1

ReadsToken(p) ==
  /\ \A w \in {1, 2} : \A e \in p + w .. End : FusedHeaderAt(p, w, e) =>
        \/ e - (p + w) <= MaxKeyLength /\ ~HeaderKnown(p, e)
        \/ MayBeDotted(Blanks(p + w))
  /\ known => \A e, eq \in p .. End : FusedKeyAt(p, e, eq) => MayBeDotted(p)
  /\ StopAt(p)
  /\ at' = "direct" /\ Stay

\* The loop of bindDocumentDirect: no value is expected and no container open here.
DirectStatement ==
  /\ phase = "direct" /\ at = "statement"
  /\ \E p \in off .. End :
       /\ SkipsTo(p)
       /\ \/ LineEndCheck(p)
          \/ /\ ~(LineEndDue(p) /\ p < End)
             /\ FusedHeader(p) \/ FusedAssignment(p) \/ ReadsToken(p)

DirectToken == at = "direct" /\ Call("token") /\ Stay

-----------------------------------------------------------------------------
(* The specification.                                                      *)

\* What the token reader let pass, or held against, that a TOML reader would not: a byte
\* order mark keeps the header behind it from being one; a token stands where a statement
\* should; no comma separates an element from a container; inline tables nest too deep.
InlineDepthAt(k) == Cardinality({i \in 1 .. k : tokens[i].kind = "inlineStart"})
                    - Cardinality({i \in 1 .. k : tokens[i].kind = "inlineEnd"})

Liberties ==
  {l \in {"mark", "comma", "nesting"} :
     CASE l = "mark" -> Cell(1) = "bom" /\ Cell(Blanks(2)) = "["
       [] l = "comma" -> \E k \in 2 .. Len(tokens) :
            /\ tokens[k].kind \in {"arrayStart", "inlineStart"}
            /\ tokens[k - 1].kind \in {"scalar", "arrayEnd", "inlineEnd", "comment"}
            /\ \A c \in tokens[k - 1].end .. tokens[k].at - 1 : buf[c] # ","
       [] l = "nesting" -> \E k \in DOMAIN tokens : InlineDepthAt(k) > MaxNestedDepth}

FreshClient ==
  /\ at = "statement" /\ inTable = FALSE /\ known = TRUE /\ target = "none"
  /\ ctx = << >> /\ frames = << >> /\ pos = 1
  /\ log = << >> /\ verdict = "open"

InitBoth == /\ Init /\ FreshClient
            /\ phase = "tokens" /\ lenient = {}
            /\ first = [verdict |-> "open", log |-> << >>]

\* initDecoderBytes over the same bytes.
ReaderAgain ==
  /\ err' = CASE Len(buf) > MaxDocumentSize -> Result("limit", 1, 1)
              [] Len(buf) <= MaxDocumentSize /\ "bad" \in ToSet(buf) -> Result("utf8", 1, 1)
              [] OTHER -> Nothing
  /\ off' = decodeStart /\ atLineStart' = (decodeStart = 1)
  /\ expectingValue' = FALSE /\ valueNoNewline' = FALSE
  /\ needSeparator' = FALSE /\ needLineEnd' = FALSE
  /\ arrayDepth' = 0 /\ inlineDepth' = 0 /\ stack' = << >>
  /\ pc' = "idle" /\ out' = Nothing /\ tokens' = << >>
  /\ UNCHANGED fixed

\* The document is decoded again, now into a struct.
BeginDirect ==
  /\ phase = "tokens" /\ at = "done"
  /\ phase' = "direct"
  /\ first' = [verdict |-> verdict, log |-> log]
  /\ lenient' = lenient \cup Liberties
  /\ ReaderAgain
  /\ at' = "statement" /\ inTable' = FALSE /\ known' = TRUE /\ target' = "none"
  /\ ctx' = << >> /\ frames' = << >> /\ pos' = 1
  /\ log' = << >> /\ verdict' = "open"

NextBoth ==
  \/ NextStatement \/ Read \/ CallFailed \/ EndOfDocument \/ CommentRead
  \/ HeaderRead \/ KeyRead \/ StrayToken
  \/ ScalarRead \/ ContainerOpens \/ InlineKeyRead \/ ContainerCloses \/ UnexpectedInValue
  \/ BeginDirect
  \/ DirectStatement \/ DirectToken \/ ScanFused
  \/ SkipBegins \/ ScanSkipped \/ SkipEnds \/ SkipToken

\* Both clients are sequential code: what can be done next is done.
SpecBoth == InitBoth /\ [][NextBoth]_clientVars /\ WF_clientVars(NextBoth)

-----------------------------------------------------------------------------
(* Properties.                                                             *)

Done == phase = "direct" /\ at = "done"

\* Between two statements the fused code leaves the reader as the token reader does: no
\* value is expected, no container is open, and the line is either to be ended, so that
\* nothing but a comment may follow, or has ended, at its start or behind a comment.
StatementBoundary ==
  phase = "direct" /\ at = "statement" /\ err = Nothing =>
    /\ ~expectingValue /\ ~valueNoNewline /\ ~needSeparator
    /\ stack = << >> /\ arrayDepth = 0 /\ inlineDepth = 0
    /\ needLineEnd => ~atLineStart
    /\ ~needLineEnd => \/ off = decodeStart \/ atLineStart
                       \/ Cell(off) \in {"nl", "cr", "end"}

\* unmarshal_direct.go:720-722: the direct client preserves the same ReadToken source of
\* truth.  Whether a document is well formed does not depend on what the destination has
\* fields for, on which keys are bare and on which arrays hold strings: but for the
\* liberties of the token reader both ways of reading accept the same documents, and the
\* direct one accepts nothing more (but a header behind a byte order mark).
SameVerdict ==
  Done /\ verdict # "mismatch" =>
    /\ verdict = "accepted" /\ first.verdict # "accepted" => "mark" \in lenient
    /\ verdict = "refused" /\ first.verdict # "refused"
         => lenient \cap {"stray", "comma", "nesting"} # {}

\* Both ways see the same statements at the same places, every value ends where the other
\* way ends it, and what is bound is what the tokens say.
SameStatement(s, t) ==
  /\ s.kind = t.kind /\ s.at = t.at /\ s.end = t.end /\ s.stop = t.stop
  /\ s.elems # << >> => s.elems = t.elems

SameStatements ==
  Done /\ verdict = "accepted" /\ first.verdict = "accepted" =>
    /\ Len(log) = Len(first.log)
    /\ \A i \in DOMAIN log : SameStatement(log[i], first.log[i])

\* Every document is read to an end, both ways: no path of the direct client declines a
\* construct that the next one hands back, and the skipper always moves on.
BothReturn == <>Done

=============================================================================
