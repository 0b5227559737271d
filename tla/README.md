# A verification project for go-toml

`go-toml` reads, binds, edits and writes TOML documents. This directory holds
TLA+ models of its stateful parts, TLC configurations that check them on small
instances, and theorems about them proved with TLAPS for every value of the
constants. Paths such as `decoder.go:331` are files of the repository's root.

## The system

| part | state it keeps | operations | what makes it correct |
| --- | --- | --- | --- |
| token reader (`decoder.go`, `token.go`, `errors.go`) | buffer, offset, four dispatch flags, line-start flag, two depth counters, stack of open containers, sticky error | `NewDecoder`, `NewDecoderBytes`, `ReadToken`, `Decode` | valid input is never refused, nothing is skipped, the end is reported only at the end, errors stay, every call returns |
| container stack (`decoder.go:155-216`) | array of 16 markers, depth, spill slice | `pushContainer`, `popContainer`, `innermostIsArray` | array and slice are one stack at every depth |
| document (`document.go`) | source, entries with spans, index by path, edits | `ParseDocument`, `Get`, `Set`, `InsertAfter`, `Delete`, `Bytes` | calls behave as a store by path; untouched text is preserved; the bytes read back as `Get` answers |
| values and tables (`value.go`) | the growing tree; tables declared, tables made by dotted keys, arrays of tables and their epochs, closed inline tables; the skipper's own stack | `parseDocument`, `parseNextValue`, `skipNextValue`, string and number conversion | every redefinition TOML forbids is refused and no other; skipping ends where reading would |
| binding (`unmarshal.go`) | verdicts and decode filters by type, pool of maps | `Unmarshal`, `bindValue` | no map a destination keeps goes back to the pool; a type always takes the same way |
| direct binding (`unmarshal_direct.go`) | the reader's fields, moved by hand; string arena; pooled paths; metadata by type | fused statements, headers and arrays | each fast path leaves the reader where the token path would; a path has one owner |
| datetimes (`datetime.go`, `datetime_parse.go`) | one slot per zone offset; how a time was written | parsing, formatting | what is written reads back; concurrent callers agree on a slot's zone |
| marshalling (`marshal.go`, `encoder.go`) | the scratch buffer, pooled; pooled key slices | `Marshal`, `MarshalTo`, `Encoder.Encode` | scalars of a table precede its headers; what is written reads back; a pooled buffer has one owner |
| type cache (`internal/reflectcache`) | map from type to field metadata, with a precomputed encoder | `Lookup` | callers racing on a type get one result; the precomputed encoder writes what the field loop writes |
| scanning kernels (`internal/scan`) | none | word-at-a-time searches | same answer as the byte loop |
| command line tools (`internal/cmd`), `benchmark/` | none | adapters | not part of the library |

How they interact. Everything that reads TOML goes through the token reader by
plain calls: `parseDocument`, `ParseDocument` and the direct binder loop over
`readToken`, and the direct binder also reads and moves the reader's buffer
position itself. `Decode` does not continue the token stream: it hands the whole
buffer to `unmarshalWithOptions`, which builds a reader of its own. A
`Document` uses a reader while parsing and none afterwards. Token bytes and
document values alias the buffer. Nothing in the library starts a goroutine:
a `Decoder` and a `Document` belong to one caller at a time, and callers share
only the caches and pools (`sync.Map`, `sync.Pool`, the zone slots).

What is hard here is therefore mostly long sequences of calls: about fifteen exits
of the reader's loop that each set some of five flags, counters next to a stack,
errors that are stored on some paths and not on others, two ways to read one
document, edits of one path in any order, spans that overlap when they are finally
applied. What callers share is published without locks or borrowed from pools, on
paths that an error can leave at any point. `PROJECT.json` lists each of these
hazards at its line.

## Modules

### Decoder

One behaviour is the life of one `Decoder`. Variables carry the names of the
struct's fields; `stack` is `containerStack`, `containerDepth` and
`containerExtra` taken together, `pc` says whether a `ReadToken` call is inside
its loop, `out` is what the last call returned and `tokens` the tokens so far.

The input is a sequence of cells: one character where the code looks at single
characters, one lexeme where it only measures one. `"1"` may stand in a bare key
and is a literal, `"a"` only in a key; `"q"`, `"Q"`, `"B"`, `"U"` are quoted
strings that are fine, over the string limit, rejected by `validateStringValue`,
and unterminated. A `Decoder` is created over any document of `Inputs`; size and
encoding are checked as the constructors do.

| code | module |
| --- | --- |
| `NewDecoder`, `NewDecoderBytes` | `NewDecoder`, in `Init` |
| `ReadToken` with `d.err` set | `ReadTokenSticky` |
| entering the loop of `readToken` | `ReadTokenBegins` |
| one iteration: `skipSpaces`, then one exit or another iteration | `ReadTokenLoop` with one operator for each exit (`AtEnd`, `BareCarriageReturn`, `LineBreakDue`, `ScanTableHeader`, ... `ScanValueToken`) |
| `Decode` | `Decode`; whether the binding succeeds depends on the destination too, so both outcomes are possible |

`skipSpaces` is a choice of the position `p` with `SkipsTo(p)`, which fixes `p`
uniquely; `StopsAt` does the same for the scans of keys, values and comments.

### ContainerStack and MarkerStack

`ContainerStack` keeps the array and the slice separately, with the array's
capacity a constant (16 in the code). Popping does not clear the array, so stale
markers lie above the depth. `MarkerStack` is a sequence with push,
pop-if-it-matches and a question. `StackSpec` says that the first implements the
second; it is why `Decoder` may keep one sequence.

### Document and PathStore

A source is a sequence of cells, one for each token: key, value, header, line
break, other text. `ParseDocument` is modelled by what it yields: the entries,
their paths (the last header's path and the key's own), `byPath` with the last
entry of a path, and the spans. The edit state has the code's fields.
`Bytes` is a definition, not an action, because it changes nothing; it is the
code's algorithm: collect operations, sort, walk with a cursor, pass over what
starts before it. `MalformedPath` is every call whose path does not parse. Of the values a program may
give (`Given`), `Formattable` are those `formatDocumentValue` writes without an error,
`Parsable` those that are read back, and `Unreadable` those whose text a reader refuses: a
`Local*` value out of range, which is written as nothing (`marshal.go:649-680`), and an
unsigned integer above `MaxInt64`. `Formattable` and `Unreadable` may share values.

`PathStore` is what a caller is promised: `Get` answers what is stored and
changes nothing, `Set` and `Delete` change the store at their path and nowhere
else, a refused call writes nothing. The one surprise it has to allow is
`InsertAfter` of a path the source already assigns: accepted, never visible to
`Get`. The history variable `answer` records the last call with its path and
value in both modules, so a step of the document has to be the step of the store
that belongs to the same call.

### TableDecl, TreeNodes and TomlTree

`parseDocument` reads statements: `[path]`, `[[path]]` and `key = value`. One
behaviour of `TableDecl` is one call, over any sequence of statements with the
paths and values of the instance. The variables are the function's locals
(`arrayTables` has the domain of `arrayTableEpochs`, because both are written
together), `result` the answer with the statement an error points to.

| code | module |
| --- | --- |
| `case TokenKindTableHeader` | `TableHeader`: refused (`TableClash`, or a value in the way), read over (`SkipSection`), or entered |
| `case TokenKindArrayTableHeader` | `ArrayTableHeader`, which counts the element also when the filter reads over it |
| `case TokenKindKey` | `KeyValue`: read over, refused, or assigned and marked |
| `declarationContext`, `closedInlinePrefix`, `markDottedKeyTables`, `markClosedValuePaths`, `encodedKeyPath` | `declarationContext`, `closedInlinePrefix`, `Record`, `ValuePaths`, `Encode` |
| `ensureTableRaw`, `appendArrayTableRaw`, `appendArrayTableKeyRaw`, `assignUniqueRaw` | `ensureTable`, `appendArrayTable`, `AssignUnique` for the place, `Grow` and `Put` of `TreeNodes` for the change |
| `lookup`, `lookupPath` of the decode filter | `Known` |
| `default`: another token where a statement should be | `StrayToken`: read over once a header was seen, refused before |
| `io.EOF`, or an error of the reader, of a key or of a value | `EndOfDocument` |

`TreeNodes` has the tree as a function from locations (names and element
numbers) to kinds of node. `TomlTree` says what statements may do to a tree, in
terms of nodes: opened by a header, made by a dotted key, come with a value. The
code keeps no such marks but maps from paths to contexts, and a path means
another node as soon as an array of tables has a new element. `opened`, `dotted`
and `sealed` of `TableDecl` are history variables that no guard reads; with them
`TreeSpec` says that `TableDecl` implements `TomlTree`.

The text of a name is kept as its pieces between NUL characters, because
`encodedKeyPath` joins with NUL. The runs use names without NUL; with the name
`"a\u0000b"` next to the path `a.b` the properties fail, which is listed as a
hazard.

### DirectReader

Extends `Decoder` with its two clients. A behaviour reads one document to its end
as `parseDocument` does, starts a new reader over the same bytes
(`BeginDirect`), and reads it as `bindDocumentDirect` does. `at` says where the
client is, `log` what it found: for each statement its cells, the scalars of its
value and where that ends.

| code | module |
| --- | --- |
| `parseDocument`, the loop of `bindDocumentDirect` behind `readToken` | `NextStatement`, `DirectToken`, `HeaderRead`, `KeyRead`, `StrayToken`, `CallFailed`, ... |
| `parseRawValueToken`, `parseArrayValue`, `parseInlineTableValue`; `directBindTypedToken`, `directBindStringSlice` | `ScalarRead`, `ContainerOpens`, `InlineKeyRead`, `ContainerCloses`, `UnexpectedInValue`; `Fits` |
| the check for a line end at the top of the direct loop | `LineEndCheck` |
| `tryBindArrayOrTableHeader`, `commitFusedHeader` | `FusedHeader` |
| `tryBindSimpleAssignment`, its arrays of strings, `finishTopLevelArrayValue` | `FusedAssignment`, `StringArray`, `ArrayTaken`, `ReaderAfterArray`, `KeyTaken` |
| `scanFusedValueToken` | `ScanFused`, which uses the value exits of `Decoder` |
| `skipNextValue`, `skipStructuralValueFast`, `scanSkippedStructuralValue`, `skipRawValueToken` | `SkipBegins`, `ScanSkipped`, `SkipEnds`, `SkipToken` |

A destination is the set of its fields, told by the cells of a key (`FieldOf`): of
type `any`, of type `[]string`, or none, so that each value is bound or skipped. What
is stored where is `TableDecl`'s matter and, for structs, not modelled.

### TypeCaches

Six tables are filled the same way: look up, compute without a lock, publish with
`LoadOrStore` (`CompareAndSwap` for a zone). They are `reflectcache.Lookup`, the
metadata of the direct binder, its verdict on a type, the decode filters, the special
kinds of `marshal.go` and the zones by offset. A caller is a stack of frames, because
the computations call each other: `Unmarshal` asks for the verdict, which walks
`directTypeContainsMap` with its set of structs seen and looks up each of them; then
either the direct metadata or the filter, which recurses into fields and elements; and once
a document was parsed, `canRecycleDocumentFor` (`Recycle`), which keeps no record and recurses
into every exported field (`Exported`), those that `toml:"-"` leaves out included. Every one
of these recursions takes stack, through a list as well as through a struct: the calls of
`directTypeContainsMap` under way are the levels in `todo` of one frame and count like frames
(`Room`). `MaxDepth` is what fits on a goroutine's stack; a call beyond it crashes the
program. An object is named after the caller that built it, so that two built by a race are
told apart. Types have their pointers taken off, as each of these functions does first.

| code | module |
| --- | --- |
| `unmarshalWithOptions` | `Unmarshal`: eligibility, direct metadata or filter, zones, then `Recycle` unless the document is refused |
| `directStructUnmarshalEligible`, `directTypeContainsMap` | `EligibleMiss`, `EligibleStore`; `WalkVisit`, `WalkFields`, `WalkReturn` |
| `newDecodeFilter` | `FilterMiss`, `FilterFields`, `FilterElement` |
| `canRecycleDocumentFor` | `Recycle` |
| `reflectcache.Lookup`, `lookupDirectTypeInfo`, `lookupSpecialKind`, `fixedOffsetZone` | `LookupBuild`, `LookupStore`; `DirectInfo`, `DirectStore`; `SpecialMiss`, `SpecialStore`; `ZoneMiss`, `ZoneStore` |
| `encodeDocument` | `Marshal` |

### Pools

The pools of scratch buffers, key slices, document maps and long paths. `pooled` counts
how often an object lies in its pool (it could be put twice), `dirty` has the objects
with an earlier owner's content, `held` those a result given to a client aliases. A frame
is one call with the objects it has, in their roles. Errors may come at any point; a call
may be made inside another one, from a method of the client's types; a collection may
empty a pool in part at any time.

| code | module |
| --- | --- |
| `getMarshalBuffer`, `putMarshalBuffer`, `marshalWithOptions`, `marshalToBuffer` | `BeginMarshal`, `Enlarge`, `FinishMarshal`, `FailMarshal` |
| `sortedStringKeys`, `recycleStringKeys` and the `defer`s | `EnterMap`, `LeaveMap` |
| `newDocumentMap`, `canRecycleDocumentFor`, `recycleDocument` | `BeginTree`, `NewMap`, `FailTree`, `Bind` |
| `acquireExtra`, `releaseExtra`, `currentPath` and the deferred release | `LongPath`, `DropPath`, `HeaderPath`, `KeyPath`, `EndDirect` |

### Emission

One behaviour is one call of `Marshal` on a value of `Inputs`, a tree with kinds at its
nodes. The encoders call each other; what is left to do is a sequence of jobs: a document
(`encodeStructDocument`, `encodeMapDocument`, `encodeAnyMapDocument`), a field, a header.
`Entries` is the heart: scalars first, then tables and arrays of tables, as
`isTableLike`, `isArrayOfTables` and `isArrayOfTablesAny` tell them apart. `Section` has
the headers of a table or of a list's elements; in a `map[string]any` only a `[]any` is asked
whether it is an array of tables, so that any other list of tables gets a table's header
there and then fails. A struct
without duplicate names has a precomputed encoder, whose own writers of strings and keys
(`encode_format.go`) are `ReadAs` with `fast`; `writerForType` also takes a string, a bool or
a number by its kind, without asking for a `MarshalText` method (`LeafText`, `FastLeaf`). A statement is kept as the reader would find
it, and `Read` applies the rules of `TomlTree` to all of them.

### Literals and DateTimes

`Literals` is a value that is neither string nor container. A number is read character by
character: the recognisers of `decoder.go`, then the accumulator of
`parseUintLiteralDigits` with its cut-off test, at `Width` bits. A float is what
`isFloatCandidate` lets pass and `strconv.ParseFloat` takes: of the right shape
(`FloatShape`) and not `OutOfRange`, where a number from 10^`FloatPower` on stands for one
that `float64` has no room for. A date or time is read
(`Parses`, `Parsed` of `DateTimes`), perhaps changed through its public fields, written
by `MarshalText` and read again.

## Runs

| run | question | bounds |
| --- | --- | --- |
| `decoder` | Does the reader satisfy its properties on valid and invalid input? | all documents of up to three lexical cells, all continuations of an assignment with four structural cells and of a header with two; valid documents from a grammar with two levels of nested arrays and inline tables, comments, both line ends and both kinds of header; limits of 2 cells or containers |
| `container_stack` | Are array and slice one stack? | capacity 2, depth up to 5, so both directions across the capacity |
| `document` | Do the edits of a document keep its promises? | six sources (with and without tables, comments, last line break; a repeated path; an unparsable value; empty), three paths, four values (literal-safe, quoted, not writable, written but unreadable), up to two insertions; 197,774 states |
| `table_decl` | Does `parseDocument` refuse every forbidden redefinition, and without arrays of tables no other statement? | headers for `a`, `a.b`, `a.b.c`, keys `b` and `b.c`, four kinds of value, up to two headers for one array, documents until their tree has ten nodes; a map as destination and a struct with fields `a` and `a.b` |
| `direct_reader` | Do both ways of reading find the same document? | 4,922 documents: every kind of key with every kind of value (each nested in arrays and inline tables, two deep, with each kind of line end, comment and mistake) and every kind of line after it; headers of known and unknown, simple and quoted names before it; strays and byte order marks; limits of 2 |
| `type_caches` | What do callers racing on types and offsets end up with? | two callers with one call each to `Marshal` or `Unmarshal`, on seven of thirteen types: with and without a map, containing themselves through a list, through a map, next to a map and in a field no key gets to, a list of itself, with a refused tag; sixteen calls on a stack; 150,315 states |
| `pools` | Has every pooled object one owner? | two callers with one call each, calls nested two deep, three objects, at most two keys slices or maps of a call |
| `emission` | Does what is written read back? | 5,717 values: a map, a `map[string]any` or a struct with two entries, each a leaf with any class of text (also of a string, bool or number kind with a `MarshalText` of its own, or out of range), a table or list with up to two entries, or one of those again; names that need escapes; duplicate names |
| `literals` | Are numbers, dates and times read as what they say? | width 6; 31,547 texts: all of up to four of eleven characters, integers of every base around the limits, floats with every misplaced mark and on both sides of 10^8; fractions of two digits, dates around the ends of months and leap years, times around their limits, every separator and zone; edits in and out of range |
| `table_decl_element` | Is a statement of a later array element judged by that element alone? | as `table_decl`, eight nodes |
| `document_twice` | Does `Set` of a new path replace an earlier one? | as `document` |
| `emission_struct` | Does the precomputed encoder of a struct write what the field loop writes? | as `emission` |

The last three end in a violation and are described under Findings. `decoder`, `document`
and `container_stack` switch the deadlock check on: no call is ever impossible. The others
switch it off, because a parse, an encoding or a bounded number of calls comes to an end.

Why the bounds are enough. The reader's next step depends on the flags, the
innermost container, whether a depth is at its limit and the cells up to the next
stop; two levels of nesting give every innermost container below every other one,
and the alphabets hold one cell for each class of character `readToken` and its
scanners distinguish. The fused paths and the skipper look at the same classes, never
further than one statement and one line end, and their own stack has the same two kinds of
frame. A `Document` treats paths independently except through
overlapping spans and insertion order, for which two insertions, a deletion and a
replacement next to each other are enough; the proofs below do not depend on
these bounds. For the declarations three nested paths give every relation a check
of the code looks at (the path itself, a proper prefix, the prefix of the current
table), two elements make a context stale, and ten nodes leave room for two arrays
within each other, both with a second element.

Two callers are enough for the tables, because an entry is written once and a third caller
could only lose the same race again; sixteen calls on a stack are what `Roomy` asks of this
instance, more than any of its types needs that does not contain itself. Three pooled objects let one be in use, one be
pooled and one be handed out, and two calls meet at each; a second call of a caller differs
from a nested one only in what it may meet in the pools, which the other caller's call
leaves there as well. Entries of a table are written by kind and in order, so two with
every pair of kinds show every order. Six bits have the cut-off, the asymmetric limit and
the wrap of 64 within reach of a few digits in all four bases; the proof is for every width.

### Properties

Each is stated in its module with the lines it is about.

* `DispatchFlags` (reader): the flags never contradict each other or the stack;
  with `needLineEnd` and `valueNoNewline` set together the loop would spin at
  `decoder.go:369`.
* `CleanEOF`: `io.EOF` only at the end, with no value missing and no array open.
  It cannot say the same of inline tables: `a = {` ends with a clean `io.EOF`
  from `ReadToken` (the value parser behind `Unmarshal` notices).
* `NothingSkipped`: tokens are in order, do not overlap, and leave out nothing but
  blanks, line ends and separators.
* `DecodeExclusive`: `Decode` and `ReadToken` never both consume a document.
* `DepthCounters`: `arrayDepth` and `inlineDepth` agree with the stack while every
  closer matched, and never exceed it.
* `ValidAccepted`: each valid document gives exactly its tokens and no error.
* `ErrorRepeats`: a failed call is followed by the same error, also on the paths
  that do not store it in `d.err`.
* `CallReturns`: every call returns. Fairness is weak fairness of
  `ReadTokenLoop` alone: a call is sequential code, so once begun it goes on;
  that a client makes another call is not assumed.
* `Spill`, `StackSpec`: the stored stack.
* `OneEditPerEntry`, `NothingOnlyInMemory`: the edit maps agree with each other,
  with the cached value and with the list of insertions.
* `UntouchedPreserved`: `Bytes` keeps, once and in place, every cell outside the
  deleted lines and replaced values; stated without the code's line spans.
* `ReadBack`: parsing `Bytes` again gives for every path what `Get` answers, no path twice
  no key or header on the line of another, and every value read, unless `Get` answers one
  whose text the reader refuses: then, and only then, the bytes are no document. It is
  stated for `Hygienic` edits (each inserted path once, writable, outside
  tables, on a line of its own), because the findings and the hazards show that
  other edits do not read back.
* `StoreSpec`: `Document` implements `PathStore`.
* `Bookkeeping` (declarations): every node that can still be reached is recorded
  under its path in the present context. It is what a redefinition would break
  first, several statements before it is accepted.
* `TreeSpec`: what is accepted does to the tree what `TomlTree` allows.
* `RefusalJustified`: what is refused `TomlTree` does not allow, as long as no
  array of tables has a second element.
* `StatementBoundary` (direct reader): after each fused path and each skipped value the
  reader is as the token reader leaves it between two statements.
* `SameVerdict`: a document is well formed or not whatever the destination has fields for.
  The token reader's own liberties are exempt by name (`Liberties`, `StrayIgnored`).
* `SameStatements`: both ways see the same statements at the same places, and the strings a
  fused array binds are those of the tokens.
* `BothReturn`: both readings end. Fairness is weak fairness of the whole next step: the
  clients are sequential code.
* `OneObject`, `Published`, `StoredWhole` (type caches): whoever wins a race, all callers
  get the stored object, it is never replaced, and it is never visible half built or on top
  of an object that lost.
* `EligibleRight`: the cached verdict is right for types that contain themselves, too, and a
  type's first call binds as its later ones do.
* `OverflowOnlyEndless`, `CallsReturn`: a call ends, unless it is for an `Endless` type. That
  is one with a list below it that contains itself without a struct between, which
  `directTypeContainsMap` does not notice; or one that does not bind directly and has any type
  within itself below it, for `newDecodeFilter` among what keys get to and for
  `canRecycleDocumentFor` among all exported fields. Fairness is weak fairness of
  each caller's step: goroutines are scheduled, and no step waits for another caller.
* `OneOwner`, `NoLeftovers`, `PutBackOnExit` (pools): an object is in its pool, with one
  call, or with a client; what an earlier call wrote is never seen; every way out returns
  what was taken.
* `HandedOutForGood`: the bytes `Marshal` returned and the maps a destination holds are
  never written to again.
* `ReadsBack` (emission): the statements written are accepted by the rules of TOML and give
  the value back. `SilentValue` and `OwnText` name the exceptions.
* `ErrorJustified`: `Marshal` fails only for a value without a TOML text (`MixedList` and
  `TypedList` are the exceptions).
* `NoWrap`, `NumbersExact` (literals): what is accepted is exactly TOML's integers (without
  the capital prefixes) and floats, and a number is refused only when it does not fit. What
  fits a float is `OutOfRange` in the model and in the property: both sides mean the limit of
  `float64`, of which the model only has that it is one.
* `StampsKept`: dates and times read back as they were written, their precision included,
  but for what it leaves no room for (`Dropped`).

### Findings

Each of these contradicts what the repository says of itself, and ends a run of its own.

* `Set` of a new path twice writes two lines (`document_twice`).
* Headers and dotted keys of a later array element are refused for what an
  earlier element declared (`table_decl_element`): `[[a]] [a.b] [[a]] [[a.b]]`, and
  likewise `[[a]] [[a.b]] [[a]] [a.b]` and `[[a]] [a.b] [[a]]` with the key `b.c`.
* A struct's precomputed encoder writes strings with the escapes of Go: `\a`, `\v` and
  `\xff` are no TOML, DEL stays as it is, and the `MarshalText` of a type of string, bool or
  number kind is not called
  (`emission_struct`).

### Observations

What the models show besides, where the repository makes no promise that it would break.
Properties that meet one of these name it as an exception.

* `skipBOM` uses `advanceBytes`, which clears `atLineStart`: the token reader takes a header
  right behind a byte order mark for an array, the direct binder for a header
  (liberty `mark`).
* The guards that should require a comma before `[` and `{` in an array never fire
  (`comma`), and `MaxNestedDepth` does not limit inline tables (`nesting`); the skipper
  checks both.
* Once a header was seen, `parseDocument` reads over a stray closing bracket or value; the
  direct binder refuses it (`stray`).
* A line inserted behind a table header is read under that table: the repository's own
  `InsertAfter` example writes `server.host = ...` below `[server]`, where it means
  `server.server.host`. An insertion after an entry on an unfinished last line joins it.
* `Set` rewrites the value in every element of an array of tables.
* The direct binder keeps no record of tables and keys: a redefinition that a map refuses is
  accepted for a struct.
* `newDecodeFilter` and `canRecycleDocumentFor` do not end for a struct that contains itself
  other than through a map and does not bind directly because of a map elsewhere in it, the
  second also if it contains itself only in a field with `toml:"-"`; and nothing ends for a
  type such as `type L []L`.
* `hasNonEmptyTableLikeDescendantAny` can only answer false, so in a `map[string]any` a
  `[]any` becomes an array of tables only if all its elements are empty maps.
* A list of which the first element is a table and a later one is not fails, although an
  array of it could be written (`MixedList`).
* `[]map[string]any` or a list of structs in a `map[string]any` fails, although it could be
  written as an array of tables and is in any other map or struct (`TypedList`).
* A `Local*` value out of range writes nothing after `=` and an unsigned integer above
  `MaxInt64` its digits, both without an error (`SilentValue`; in a `Document`, `Unreadable`),
  and `encodeReflectcacheTable` ignores the error of a header.
* A local time a program builds or changes loses seconds and fraction digits its unexported
  notes have no room for (`Dropped`).

## Proofs

| module | theorem | says |
| --- | --- | --- |
| `Decoder_proofs` | `TypeCorrect` | `Spec => []TypeOK` |
| | `FlagsAgree` | `Spec => []DispatchFlags` |
| | `EOFIsClean` | `Spec => []CleanEOF` |
| | `DecodeOrRead` | `Spec => []DecodeExclusive` |
| | `EverythingRead` | `Spec => []NothingSkipped` |
| | `CountersAgree` | `Spec => []DepthCounters` |
| | `FailsTheSame` | `Spec => []ErrorRepeats` |
| `DirectReader_proofs` | `BoundaryKept` | `SpecBoth => []StatementBoundary` |
| `ContainerStack_proofs` | `StorageSound` | `Spec => [](TypeOK /\ Spill)` |
| | `IsMarkerStack` | `Spec => StackSpec` |
| `Document_proofs` | `TypeCorrect` | `Spec => []TypeOK` |
| | `EditsConsistent` | `Spec => []OneEditPerEntry` |
| | `PendingHasInsertion` | `Spec => []NothingOnlyInMemory` |
| | `IsPathStore` | `Spec => StoreSpec` |
| | `KeepsTheRest` | `Spec => []UntouchedPreserved` |
| | `ReadsBackAsAnswered` | `Spec => []ReadBack` |
| `Literals_proofs` | `AccumulatorExact` | `Spec => []NoWrap` |
| | `ValueExact` | `Spec => []SignExact`: an integer's value is what its digits and its sign mean |
| | `Exactness` | `Spec => []NumbersExact` |
| | `StampsReadBack` | `Spec => []StampsKept` |
| `TableDecl_proofs` | `Typedness` | `Plain` implies `Spec => []TypeOK` |
| | `RecordsCurrent` | `Plain` implies `Spec => []Bookkeeping` |
| | `ImplementsTree` | `Plain` implies `Spec => TreeSpec` |
| | `RefusalsJustified` | `Plain` implies `Spec => []RefusalJustified` |
| `Pools_proofs` | `OwnedOnce` | `Spec => []OneOwner` |
| | `NothingLeftOver` | `Spec => []NoLeftovers` |
| | `HandedOut` | `Spec => HandedOutForGood` |
| | `PutBackAlways` | `Spec => PutBackOnExit` |
| `TypeCaches_proofs` | `OneObjectEach` | `Spec => []OneObject` |
| | `WholeEntries` | `Spec => []StoredWhole` |
| | `NeverReplaced` | `Spec => Published` |
| | `VerdictRight` | `Spec => []EligibleRight` |
| | `OverflowNeedsItself` | `Roomy` implies `Spec => []OverflowOnlyEndless` |

They hold for all inputs, limits, capacities, widths, sources, paths and values that
satisfy the `ASSUME`s of the modules, which TLC evaluates on every instance.

The argument for the reader. `TypeOK /\ DispatchFlags` is inductive: every exit of
the loop either leaves flags and stack alone (`FailKeepsFlags`), sets them by
`AfterValue`, whose result agrees with any stack (`AfterValueFlags`), or is one of
the openers, the comma, a header or a key. There is one typing lemma and one flag
lemma for each kind of exit. `CleanEOF` and `DecodeExclusive` are not inductive:
they speak of what the last call returned and of how far the reader got. The
strengthening `ReadSoFar` relates them to the offset: an offset still at
`decodeStart` with nothing open and no value due means that no token has been
handed out, because every emitted token moves the offset (`LoopForward`); and a
reader on which `Decode` succeeded is at the end, where the loop can only answer
`io.EOF`.

The argument for the stack. `Spill` fixes the slice's length, so a push lands at
the slot above the depth whichever side of the capacity it is on (`PushSlots`) and
a pop leaves the slots below (`PopSlots`); the refinement maps the slots below the
depth to a sequence and appends or drops its last element.

The argument for the document. `Indexed` (every path's `byPath` is its last entry)
and `OnePath` (an entry has one path, because it has one table) make the cached
values of different paths independent, so a call for one path disturbs no other
(`OthersKept`). The refinement to `PathStore` then goes by cases on the call:
`Get` fills the cache with the value it would compute again.

The argument for `Bytes`. The loop passes over an operation that starts before the cursor, so
what has to be shown is that it never passes over an edit that counts. The spans of the
operations are nested or apart: a deletion takes whole lines, a replacement is one cell, an
insertion is empty, and in the order of `Sorted` an operation is passed over only if it lies
in one that was applied. `Looped` says, after `n` operations, that each of them ends before
the cursor, that the cursor is the end of one of them or the beginning, and that what has been
copied is, in order and once, every cell before the cursor that no span covers. After the last
one, no span is left, so the rest is copied. That the operations can be sorted at all, and that
`Sorted` therefore means something, is an induction over finite sets (`Sorting`).

The argument for what the bytes read as. Whether a key starts its line and which table it is
in depend on what stands before it, so the text the loop has written must answer for its end
as well: `Good` says that its keys and headers start their lines, that each key of the source
is in the table it was in and is followed by its value or the one that replaced it, that the
new keys are exactly those of the insertions so far and stand outside the tables, and that
what follows is on a line of its own, and in the table, as in the source at the cursor. One
lemma for each kind of piece shows that this is kept: source that is copied (`GoodOld`), a
deleted line (`GoodDeletion`: for a line that carries one key, and no header, the table
behind it is the one before it), a replaced value, a line that is put in. An insertion, other
than an edit of an entry, must never be passed over, and is not, because it stands between
two lines (`NeverPassedOver`). With `UntouchedPreserved` the entries of the bytes are then the
entries of the source that are not deleted, each once, and the insertions. That they carry
what `Get` answers needs one more invariant of the calls, `CacheHonest`: the cached value of
an entry that is neither replaced nor deleted is what its text parses to.

The argument for the integers. While digits are read, the accumulator equals what they mean
without a width, and is within a limit that is below the modulus (`Reading`). The cut-off
test compares with the quotient and the remainder of the limit, and `CutOff` says, for the
four bases, that what it lets pass stays within the limit; so the sum never wraps and the
invariant holds for the next digit. At the end a positive number is below half the modulus,
where the conversion to a signed integer changes nothing, and a negative one at most at it,
which the code treats apart. `WidthAssumption` gives the prover what TLC computes of powers
of two.

The argument for the grammar of numbers. The recognisers of `decoder.go` ask of every
character what may stand before and behind it; the grammar cuts a text into whole part,
fraction and exponent. Both are brought to statements about positions, first for a run of
digits (`Digits`: every underscore between two digits is the same as digits at both ends and
no two underscores in a row), then for decimal and prefixed integers (`IntegerIs`), then for
floats, for the positions of the point, the exponent and its sign (`FloatIs`: what
`isFloatCandidate` and `strconv.ParseFloat` both take; `NoFloat`: an integer is none). For
the value, `Means` says what the first characters of an integer are worth: the literal
denotes that number moved to the left by the digits that follow, and the sum of those. One
digit more keeps it (`MeansDigit`); at the end nothing follows (`MeansLast`); and since nothing
that follows makes a number smaller (`MeansBound`), an integer refused at a digit by the
cut-off test does not fit, whatever comes after it (`RefusedUnfit`). `TextsAssumption` says
that numbers are texts, `PlacesAssumption` what TLC computes of the powers of each base.

The argument for dates and times. What was read, perhaps with other numbers in its public
fields, is still a time of `digits` digits, none without seconds (`Timed`). The digits that
are written are quotients by powers of ten; of the first `k` together, `WrittenDigits`
says that they are worth the nanoseconds without what is below the `k`-th place, by induction
over `k` with one division (`NextDigit`), so all of them are worth the nanoseconds if the
digits have room for them (not `Dropped`). For a time just read they have (`ReadDigits`: a
sum of digits up to a place is a multiple of that place). `RoundTrip` goes through the shapes
of a text. `AbsentAssumption` says that what is not there is no number, fraction or time,
`TextsAssumption` that nothing is behind a date which nothing follows and that a fraction is
digits, `EditsAssumption` that public fields are integers, and `TenAssumption` what TLC
computes of powers of ten.

The argument for what the reader hands out. An iteration of the loop either hands out
nothing and passes only blanks, line ends and separators, or hands out one token that lies
within what it moved past (`Accounted`, `LoopAccounted`); so the tokens stay in order
(`OrderAppended`) and cover the rest (`HandedOutAppended`). For the counters, `Counted`
speaks of tokens, stack and counters at once: a closer closes at most one container, and as
long as each closed its own, the counters say what is open (`CountedOpen`, `CountedClose`).
A failed call fails again for one of two reasons (`Repeatable`): it left its error in
`d.err`, or it is one of the three places that reject a string without storing the error,
and then the reader still stands in front of the same string with the same flags
(`FailedThere`, `FailsAgain`).

The argument for the direct binder. Between two statements only the flags matter, but to
know them after a value that was read token by token one has to know that the client and the
reader agree on what is open: `Follows` embeds the reader's stack in the client's. `Calling`
and `Called` say how the reader is while a call of each kind runs and when it has returned,
`Clear` and `LineDone` how it is between statements. `BothInv` is claimed only while the
reader has no error; `ErrorKept` says that it never loses one.

The argument for the declarations. What has to be kept is that the maps, which are indexed by
paths, and the tree, which is indexed by nodes, agree on whatever can still be reached
(`Bookkeeping`, stated for any tree and any maps as `Kept`). The invariant adds the shape of
the tree (`Shaped`): nodes are in nodes; what did not come with a value is a table under a
name or a table in an array; a value is in a table, under a name; and the elements of an array
of tables are numbered from 1. It also adds that headers and keys mark tables only
(`MarkedIn`), that everything outside of values was asked for (`AskedIn`), and that the
current table can be reached under the current path (`TableAt`). A location that a statement
can mean is a `Way`: live, with tables and last elements on it, and nothing but missing tables
where the tree ends. `Resolved` says that the walk of `ensureTableRaw` ends at a `Way` under
the statement's path, unless a prefix of it is recorded as closed; `Placed` is the converse,
that a live table is the one that its path resolves to. So a statement that passes the lookups
means a node that no earlier statement made in a way that forbids it, which is what
`ImplementsTree` needs. Growing the tree by tables (`GrowTable`), by an element
(`GrowElement`) or by a value (`PutValue`) keeps its shape. The hard step is a new element of
an array: its epoch makes every record below the path stale at once, and `StillLive` shows
that nothing of what was below it can be reached any more, while `CountKeeps` shows that all
other contexts are as they were. A section that the filter reads over is counted too, and
`AskedIn` shows that there is nothing below it in the tree.

The argument for the refusals is the converse. `Standing` says that every record stands for
something in the tree: a declared path and one made by a dotted key for a table, a closed path
for a value it is or goes on from, a counted path for an array of tables with no more elements
than were counted. While every count is 1, a node that is no part of a value and can be reached
has one path only (`SingleLive`); the walk of `ensureTableRaw` then ends at the table that a
path means (`Meant`) and passes the value that a closed prefix stands for (`ValueOnWay`). So
each of the lookups that refuse a statement says something of the very node the statement
means, and that is what the tree forbids (`RefusedTable`, `RefusedArray`, `RefusedKey`).
`Standing` holds only for a destination that takes every key: a section that is read over is
counted and recorded, and is not in the tree. That is why the property has the same condition.

The hypothesis `Plain` is that no name has a NUL in it and no two names are spelled alike,
so that paths are encoded as differently as they are (`EncodeInjective`). Without it the
properties are false (see the hazard at `value.go:1411`). `MCTableDecl` shows that the
instance satisfies it.

The argument for the pools. Every object made is at exactly one place: with one frame
(`Separate`), in its pool once and then reset (`PoolSound`), or with the client
(`HeldApart`); and what a frame has and did not write itself is clean (`Clean`). Each
operation is shown to be an exchange of one frame with the pools and the client
(`Exchanged`), and the lemma `Exchange` keeps the invariant for all of them.

The argument for the type tables. A caller is a chain of frames, each of which computes what
the one below waits for (`Serves`, `Chained`); what a frame was told is stored, and stored
entries stay (`Grows`), whichever caller wins. `RightInv` adds what the answers mean: an
error is a refused tag below the type, a verdict is right. Its heart is the walk, which
marks a struct as seen before it has looked at its fields. `Through` names a set `D` of
types whose parts are in `D` or still to do; when nothing is left to do, `D` is closed, so
it holds all the type leads to. For the stack there are two counts. The walk enters each
struct once, so in one frame the levels for structs are for different structs. A level for a
list is followed by lists within it until their struct is entered, which happens once, or the
walk has got no further (`Levelled`, kept by `VisitLevelled`); so unless a list is within
itself, each list has at most one level on its way to a struct that was entered and one on a
way that has not got there, and `WalkRoom` bounds the levels by the structs and twice the
lists. A filter or a recycling frame is for a part of the type of
every such frame below it (`Nested`); more of them than structs and lists must hold one type
twice (`OutOfStack`, by the pigeonhole principle), and that type is within itself. `Placed`
says of every frame which of the two counts it is under and how few frames lie below; `Piled`
says so of a whole stack. The hypothesis `Roomy` is that a stack has room for a call for every
struct of the program, two for every list, and three more; Go's limit of a gigabyte leaves
room for millions. Without it any deep type would do. `MCTypeCaches` shows that the instance
satisfies it.

Assumptions. `PoolsAssumption`, `TypesAssumption` and the others are about the shape of the
constants; `TreeAssumption` says that the nodes of a value are in nodes of it, as what
`parseNextValue` returns is, and that a field is reached through the fields around it, as
`newDecodeFilter` builds them. `Inside`, the type below lists, is a constant with its recursion equation, since
no theorem may depend on a `RECURSIVE` operator; it is where the recursion of `unmarshal.go:134`
through lists ends, and itself for a list that never does.
`ValuesAssumption` of `Document` says no more of values than that what reads back is readable:
what can be written need not be.

Checked with TLC only. Liveness under fairness and `ENABLED` are out of reach of this
prover: `CallReturns`, `BothReturn` and `CallsReturn`. Induction is possible in so far as it
can be stated about a set, as in the lemmas `Induct` and `InductSeq` of `TableDecl_proofs`,
which is how the folds over paths are treated there. These are not proved:

* `ValidAccepted`, which compares the reader with a grammar, `SameVerdict` and
  `SameStatements`, which compare two readings of a document from its first byte on, and
  `ReadsBack` and `ErrorJustified` of `Emission`, which fold over everything that was written.

## Not modelled

* The inside of strings and keys: which bytes and escapes are legal, and what they convert
  to. The readers take a lexeme as good or bad; `Emission` has the classes of text on which
  the writers differ.
* `bindValue` and the conversions of the direct binder: a walk over `reflect.Value` that
  keeps no state between calls. What is bound is modelled up to the statement and its
  scalars.
* Floats beyond their syntax and that there is a limit to them, the text of numbers that are written, and offset date-times as
  `time.Time`: left to `strconv` and `time`.
* I/O errors of the `io.Reader` given to `NewDecoder` (stored in `d.err` before
  anything is read), the `io.Writer` of an `Encoder`, and nil receivers.
* Line and column numbers of errors.
* Mutation of aliased bytes by the caller (`Raw`, token bytes).
* In `TableDecl`, statements whose key or value does not parse are one outcome of
  `EndOfDocument`; the order of keys inside an inline table is not modelled.
* In `TableDecl`, `Known` takes names as they are: that `lookup` of the decode filter also
  finds a field by its name in lower case is left out.
* In `Pools`, the maps that the direct binder takes while it reads an inline table for an
  `any` field; in `TypeCaches`, types that are nothing but pointers to themselves
  (`type P *P`), for which the loops over pointers do not end.
* The scanning kernels (`internal/scan`): searches without state, in assembly and over
  machine words, which answer the position the models choose by its definition.
* The command line tools and benchmarks: adapters, no part of the library.

## Plan

1. The composition of `TableDecl` with the direct binder over one document: which
   redefinitions a struct accepts that a map does not, and what it then holds.
