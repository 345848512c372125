# EasyProtoBuf: specifications, model checks and proofs

EasyProtoBuf is a one-header C++ ProtoBuf runtime (`include/easypb.hpp`) and a
code generator (`codegen/`) with its own `.proto` parser. This directory holds
TLA+ modules translated from that code, TLC configurations that check them on
small instances, and TLAPS proofs of properties of the wire format, the encoder and
the decoder, of the lexer, the parser and its string arena, and of the program `codegen`.
`PROJECT.json` lists every run, theorem and hazard, and the source lines each
definition stands for.

## The system and its parts

| Part | State | Operations | Interacts with |
|---|---|---|---|
| Wire primitives (`easypb.hpp` 21-121, 196-265, 476-560) | none | varints, zigzag, fixed widths, padded lengths, tags; two varint readers | called by Encoder and Decoder |
| `Encoder` (`easypb.hpp` 160-425) | `buffer`, `ptr`, `buf_end`; the start positions of open sub-messages on the C++ stack | `put_TYPE`, `put_repeated_*`, `put_packed_*`, `put_map_*`, `put_message`, `result` | called by generated `encode()` functions through lambdas |
| `Decoder` (`easypb.hpp` 428-773) | `ptr`, `buf_end`, `field_num`, `wire_type`; one cursor per nested message | `get_next_field`, `get_*`, `get_repeated_*`, `get_map_*`, `skip_field` | calls generated `decode()` functions recursively; writes into message objects in place |
| Generated code (templates in `codegen/codegen.cpp`) | message objects with `has_` flags | `encode`, `decode`, required-field checks | Encoder, Decoder |
| `StringPool`, `ParsedProto` (`proto_parser.cpp` 87-135, `.hpp`) | blocks of characters that never move; a descriptor tree of `str_view`s into them | `save`, `clear`, reuse by another parse | lexer and parser save, generator reads |
| Lexer and literals (`proto_parser.cpp` 136-680) | cursor, line and column, current token | tokens, literals, comments, conversions of constants | parser |
| Parser (`proto_parser.cpp` 682-1613) | file, current message, oneof or enum, reserved and extension ranges | one function per statement; checks on reading and at a closing brace | string pool, semantic pass |
| Semantic pass (`proto_parser.cpp` 1615-1810) | symbol table | collects names, resolves types, validates fields and defaults | runs once at the end of the file |
| Code generator (`codegen.cpp`) | options, `current_file_is_proto3` and two name prefixes, all global | writes C++ to standard output | descriptor tree |
| Options library (`3rd-party/popl/popl.hpp`) | which options are set, their values, the other arguments | reads `argv` | driver |
| Driver (`main.cpp`, `utils.cpp`) | options; position in the list of files | choose the input format, parse or decode, generate | all of the above |
| Parser benchmark (`parser_benchmark.cpp`) | clock, rounds | parses the files again and again | parser, one reused `ParsedProto` |

The program is single-threaded. Its hard behaviours are not races but

* *stale positions*: the encoder reallocates its buffer while enclosing
  sub-messages, whose lengths are patched later, are open on the C++ stack;
  string views outlive the block they were made in and must not outlive `clear`;
* *partial failure*: exceptions thrown with half a field written, half a
  message decoded in place, or half a descriptor tree built, after which the
  caller may go on with the object;
* *boundaries*: lengths near `INT32_MAX` and near the capacity of a five-byte
  prefix, tags beyond 32 bits, overlong and truncated varints, blocks filled
  exactly;
* *order*: rules of the parser that relate two statements are enforced at one
  of three times (on reading, at the closing brace, in the semantic pass) and
  have to come out alike in any order; names are used before they are declared;
* *global state*: the generator keeps syntax and name prefixes in variables that
  outlive the file and message they were set for, and what it printed before a
  failure has left the program;
* *maximal munch by hand*: where a sign, a dot, an escape or a comment ends
  depends on characters not yet read, and a line end may be two of them;
* *time*: the benchmark is ended by a clock, which may be too coarse to see a parse;
* *protocol evolution*: a field written as one type and read as another,
  repeated occurrences of a sub-message, packed and unpacked data mixed; `encode()`
  writes every field, set or not, so that a version in between adds empty ones.

What makes each part correct: the encoder's output is what a log of complete
nested messages would be; the decoder accepts and computes what the ProtoBuf
rules say of the joined input and reads nothing outside a field's slice; a
decoding fault is local; a view reads what was saved; the parser accepts exactly
the bodies that keep the documented rules and binds each name to the innermost
declaration; tokens, their values and their places are those of the grammar; what
is generated for a file does not depend on the files before it, and is consistent in
itself; the program ends, and measures parsing when it is asked to.

## Modules

    Wire ----------+--> Encoder ..implements..> WireLog
                   |       +--> MCEncoder
                   +--> ScalarTypes --+--> MessageTypes --+--> Decoder ---------+
                                      |                   +--> DecodeReference -+
                                      |                                         |
                                      |         MCDecoder <-- DecoderResults <--+
                                      +--> TypeEvolution

    Encoder, Decoder, CodeGenerator --> Codec --> MCCodec
                                          (compared with VersionRules)

    Lexer --> LexicalGrammar --> Defaults --+
    NumberRanges --+--> MessageBody --------+--> MCParser
                   +--> EnumBody -----------+    (inputs: LexerInputs, MessageInputs,
    ProtoFile ------------------------------+     EnumInputs, FileInputs)
    StringPool -----------------------------+

    CommandLine ------+
    CodeGenerator ----+--> Codegen --> MCCodegen
    ParserBenchmark --+

The proofs are in modules of their own:

    SequenceFacts --+--> WireProof (ScalarTypes) --+--> EncoderProof (Encoder)
                    |                              +--> DecoderProof (DecoderResults)
                    |                              +--> TypeEvolutionProof
                    +--> LexerProof (LexicalGrammar)
                    +--> ParserProof (MessageBody, EnumBody, ProtoFile, StringPool)
                    +--> CodegenProof (Codegen)

**Wire** has the wire format as operators on integers and byte sequences. The
widths of the machine are constants, and every formula is the code's own for any
of them: `VarintSize` counts the shifts of `write_varint`, `PaddedVarint` and
`FitsPadded` are `write_varint_at` and the test after it, `ReadVarintSlow` and
`ReadVarintFast` are the two readers between which `read_varint` chooses.
Errors carry the position at which the pointer is left.

**Encoder** keeps the object as the code does, pointers as addresses: `enc` has
`buffer`, its address `data`, `ptr` and `buf_end`. `Reserve` is the head of
`advance_ptr`, and the allocator may place the grown buffer at any address in
`Addresses`, so that a pointer which survived a reallocation would show. `frames`
is what `write_length_delimited` keeps on the C++ stack. The actions are the
calls a caller can make: `PutScalar`, `PutBytes`, `OpenField` and `CloseField`
(the two halves of `put_message`, of one entry of `put_map_*` and of
`put_packed_*`), `WriteElement`, `Result`, and the two ways in which
`length_too_long` leaves a call, `PutBytesTooLong` and `CloseFieldTooLong`, each
with what it has already written. An exception unwinds all open frames.

**WireLog** is the encoder's promise: a stack of open payloads to which complete
chunks are appended, and whose top is closed behind a prefix that *a reader takes
for its length*. It may fail only because of a byte array or a payload whose
length cannot be encoded. `Encoder!ImplementsWireLog` is the refinement; each
open payload is the slice of the buffer between two prefixes.

**ScalarTypes** is the two macro tables of writers and readers: for each ProtoBuf
type the wire type, the writer's cast and format, and the parser's conversion
from each wire type that it accepts. A floating-point value is its bit pattern,
of which a float is the leading half; exponent ranges are not modelled.

**Decoder** has one record per cursor on the call stack (`stack`) and one action
per kind of field, a step being one field, one packed element, one return or one
level of unwinding. `Schema`, which **MessageTypes** declares, plays the generated
`decode()` functions and structs: kind and type of each field, whether it is required,
and what a new object holds. A sub-message is decoded in place,
a repeated sub-message and a map entry into a local. `Call` may decode further
buffers into the same object; after an exception the object is what it was left as.

**DecodeReference** says the same without a cursor: the last occurrence counts,
sub-messages are the decoding of their occurrences joined, entries replace
earlier ones of the key. It is written apart from the code, on whole strings: two
recursive functions, from a string to the list of its fields (`Items`) and from a string
to the object it makes (`Decode`). It splits a buffer by itself and shares with the
decoder only the conversion of one scalar or element, which `TypeEvolution` checks on its own.
**DecoderResults** states what the one promises of the other.

**TypeEvolution** chains versions of a program, each of which decodes a field by
its own type and encodes it again.

**Codec** runs the code that is generated for a message: it composes `Encoder` and
`Decoder`, which take the steps here that they take by themselves, and asks
`CodeGenerator` (`Gen!MessageCode`) which `put_*` and `get_*` calls a version of a
schema makes. `EncodeCalls` is the body of `encode()`, a list of calls of which one is
made a step, a sub-message's own calls taking the place of the lambda; `Readers` is the
switch of `decode()`. An object is encoded, decoded by any version, encoded again, and
so on; or the bytes come damaged, which ends the behaviour. **VersionRules** follows
the same chain without bytes: the content of a message is a function from field
numbers to items, from which a reader takes what its fields can hold. It is recursive
and used by TLC only.

**StringPool** has the arena's blocks (`mem` starts as junk, since `new char[]`
does not initialise) and the views of the descriptor tree, each with the text it
was made from as a history. A parse begins by clearing the tree and the pool, and
may end at any time, since an exception leaves the tree half built.

**Lexer** is `class Lexer`: one action per kind of token, and one each for white
space, the two kinds of comment and the faults; `at` is its cursor with line and
column. A character is a string of length one (or a name, where TLA+ has no string for it), so
that the lookahead of the code is translated as it stands. `ParseUnsignedInteger`,
`ParseSigned` and `EscapeBytes` are the conversions of tokens the parser applies.
**LexicalGrammar** says the same from the rules of `grammar/easypb-parser.peg`,
without a cursor: which texts are a token, that a token is the longest such text, and
that lines are the line ends before it. **Defaults** follows a string default from its
literal into the descriptor, from there into the text of the generated struct, and
through the reading of that text by a C++ compiler.

**MessageBody** is the parser on one message body: one action per statement, the
closing brace, and the semantic pass. A statement is a record of decoded parts. The
guards are the code's conditions; `RejectMessage` stands for every thrown error (which
diagnostic is issued is not modelled). **EnumBody** is the same for enums;
**NumberRanges** has the overlap tests both use. **ProtoFile** is the file: order
of statements, nested scopes, symbol table, and lookup from the innermost scope
outwards. Names in `ProtoFile` are sequences of components.

**CommandLine** is `OptionParser::parse` of popl on argument records (`--`, long and
clustered short options, words), one argument a step, and then `parse_cmdline`:
conflicts, completed options, the input format. An option that takes a value may take
the next argument, whatever that is.

**CodeGenerator** is `generator()`: its three global variables, and what it writes
for a message, as a record of decisions (members with their flag and default, library
calls, required checks), not text. A message is written when it is whole, or not at
all: the pieces are put together before they reach `std::cout`.

**ParserBenchmark** reads all files, parses each once, then round after round; `Tick`
advances its clock, at any time.

**Codegen** is `main()`, the composition of these three: one action for each argument,
each file and each message, for each way out of the program, and for the passing of
time. Contents of files are records that tell apart what the driver does (missing,
empty, a compiled set, whole or cut, a source that parses or not, with unresolved types
or not).

**MCParser** checks the parts of the parser next to each other: a behaviour chooses a
part and an input, and the variables of the other parts keep their initial values. The
parts are independent in these runs; what they pass to each other (tokens, bodies,
saved strings) is part of the inputs of each.

## Runs

Six runs pass; six more, listed further below, end in a violation. In the runs of
the runtime all widths are scaled down. `SIZE32 = 2` and `SIZE64 = 4` keep one word half the
other, and `MAX_VARINT_SIZE` and `MAX_LENGTH_CODE_SIZE` are just enough for them,
as 10 and 5 are in the code. The encoder runs on a machine whose varint byte
carries one bit (`Base = 2`), so that lengths at `INT32_MAX`, lengths beyond a
prefix and tags beyond `uint32_t` are all a few bytes away; the decoder and the codec run with
three bits to a byte (`Base = 8`), where the tags of all its fields are short.

| Run | Bounds | Shows |
|---|---|---|
| `encoder` | field numbers with a tag of four bytes and with a tag that wraps; 4 scalars, one of each format; byte arrays of 0, `INT32_MAX` and one more byte; 2 buffer addresses; depth 2; no write beyond position 12 | type, pointers and nesting invariants, `WrittenStays`, refinement of `WireLog`. Buffers are reallocated with two prefixes open; both exceptions occur. |
| `decoder` | 14 sound fields, 11 malformed ones and every truncation of two, in up to 3 buffers for one object; all 8^5 strings of five bytes over tags in three wire types and small values; a schema with a field of every kind, a required field, and two kinds of map | the decoder computes and accepts what the reference does, faults are local, slices nest |
| `codec` | five versions of a schema: proto2 with required fields, proto3 with packed ones, one that holds sub-messages as bytes and a map as repeated entries, one that lacks fields, one that has made single fields repeated; 6 objects; 3 versions in a row; on the first way the bytes cut anywhere, or any of them overwritten by a group tag or the largest byte | what arrives, or is refused, is what the rules say; every `decode()` call returns or throws |
| `type_evolution` | every value of two wide words, chains of 3 of the 10 integral types | which type changes keep values, and that none throws |
| `parser`, part `lexer` | all texts of up to 5 or 6 characters from each of four alphabets: digits, `x`, `e`, `.` and signs; slashes, stars and both line ends; quotes, backslashes and digits; everything that separates tokens. Unicode escapes at the limits of their ranges. `UINT64_MAX = 255`, `INT32_MAX = 3` | tokens and failures are those of the grammar, locations exact, integers read exactly or refused, escaped bytes read back |
| `parser`, part `message` | all bodies of up to 4 of 17 statements that conflict in every pairwise way, and one more when a oneof is among them, both syntaxes; up to 2 of the single fields, whose defaults lie at the limits of each width and whose numbers lie at the limits of ranges | acceptance is exactly the documented rules, in every order; oneof members linked; entry types unambiguous |
| `parser`, part `enum` | all bodies of up to 4 of 20 statements, numbers at both ends of the word and beyond | acceptance is exactly the documented rules, in every order |
| `parser`, part `file` | up to 6 declarations and references, with packages that share names with types or not; up to 5 of every kind of statement | every reference is bound to the innermost type it may mean; statements read before `syntax` were read under the syntax the file has |
| `parser`, part `pool` | blocks of 4 and 8 characters; up to 5 texts of 0, 1, 2, 3, 7 and 9 a parse: with terminators they fill the first block and the largest exactly, and exceed it; parses without end | views intact and disjoint, stored text stays, no block overfull |
| `codegen` | all command lines of up to 3 of 18 arguments, one for each form and conflict; 11 lists of options with every pair of 13 files, one for each way to succeed or fail and for each feature of the generator; a clock of 1 tick before and 3 while measuring, `MIN_BENCHMARK = 1`, 2 rounds counted | what reaches stdout and in which order, up to which failure; each argument read once; the code consistent; the benchmark measures parsing; the program ends |

Two statements are enough to violate a pairwise rule and three to do so around a
third, such as a oneof or an option set twice; the longer bodies put them apart
and in a oneof. With six statements a file can hold two nested declarations of one
name, a package and a reference. Three arguments are enough for an option that takes
its value from the next argument, and what follows it. Two files are enough to see
what one leaves behind for the next, since the globals are set, not accumulated. In the
benchmark a clock that does not move during a round, and one that moves only during a
round, both occur.

What a caller or an author of a file may do next is the operator constant
`Inputs(fed)` of `Decoder`, `MessageStatements(read)` of `MessageBody` and
`FileStatements(read)` of `ProtoFile`: it is empty beyond the bound (`MaxCalls` in
`MCDecoder`, `MaxStatements` and `MaxFields` in `MessageInputs`, `MaxScoped` and
`MaxStatements` in `FileInputs`). `MaxPos`, `MaxDepth`, `MaxVersions`, `MaxViews`,
`MaxEnumStatements`, `MAX_CLOCK`, `MAX_ELAPSED` and `MAX_ROUNDS` stand in the guards
under these names; `MaxArguments` and `MaxFiles` bound the command lines of
`MCCodegen`, and the lengths of texts stand in `LexerInputs`. Deadlock is checked where the
program can always go on (encoder) or where its end is an action (codec, whose encoding
must not get stuck); elsewhere a run ends with its last call, file
or argument, and the configuration turns the check off. Three versions in a row are
enough for what one leaves out, or holds in another form, to reach a third.

Each property of these runs is paired in `PROJECT.json` with one or more mutants:
plausible slips in a mapped definition (the operators commented "Mutant of ...",
used nowhere else) under which the property fails.

### Fairness

`Codec!Spec` has `WF_vars(Decode)`: a C++ call that has begun runs on until it
returns or throws. Handing a message on is under no fairness. `CallsEnd` needs no
more, as the code has no loop that waits. `Codegen!FairSpec` has `WF_vars(Program)`, for
the same reason (it is one thread and blocks on nothing), and `WF_vars(TimePasses)`:
the monotonic clock does not stand still for ever. Without the second the benchmark
would not end, as the code has no limit on rounds; with it `Ends` holds however many
rounds go by between two ticks.

### Where code and documentation disagree

Six runs end in a violation, and each is recorded under "findings".

* `type_domains`: README.md 277-279 promises that fixed-width and varint integers
  are interchangeable while the value fits both types. `parse_integer_value`
  (`easypb.hpp:565`) widens a `FIXED32` without its sign: a negative `sfixed32`
  read as `int64` comes out as itself plus 2^32. `ValueSurvives` states
  which changes do keep values.
* `decoder_map_entries`: README.md 178 says `get_map` reads an entry and inserts
  it; an entry that lacks its key or its value (`easypb.hpp:656`) is dropped.
* `message_imports`: an unresolved imported type is documented to be a warning
  that stops generation only; a packed repeated field of one, legal if the type
  is an enum, is rejected (`proto_parser.cpp:1761`).
* `enum_defaults`: the default of an enum field is documented to be checked
  against the field's type; any identifier passes (`proto_parser.cpp:1698`).
* `generated_defaults`: a string default is put between quotes as it is
  (`codegen.cpp:153`): with a quote, a backslash, a newline or a NUL in it, the struct
  does not compile or has another default than the schema's.
* `dashes`: after `--` the options library stores the remaining arguments in a loop
  of its own and then reads them again (`popl.hpp:1006`); files are processed twice, and
  what looks like an option is taken as one, against the comment two lines above.

## Proofs

Every theorem holds for all values of the constants that satisfy the assumptions it
rests on: words of any width, calls, statements, arguments and files without bound.

| Assumption | Says | Evaluated by |
|---|---|---|
| `WidthAssumption`, `PowerAssumption` (`Wire`) | widths are positive; what `^` computes for the powers that shifts stand for, since the provers know nothing of exponentiation; a varint has room for a word and its last byte is needed for it (`VarintAssumption`); a word has room for what a padded length holds | `encoder`, `decoder`, `codec`, `type_evolution` |
| `CallerAssumption` (`Encoder`) | types of what a caller passes; an allocator that succeeds | `encoder`, `codec` |
| `SchemaAssumption`, `RootAssumption` (`MessageTypes`, `Decoder`) | a generated reader is that of the declared type; `decode()` is called for a message of the schema | `decoder` |
| `NestingAssumption`, `EntryAssumption` (`MessageTypes`) | no struct has itself for a member, however indirectly (C++ has no such struct); the key and the value of a map entry are optional (`get_map_*` checks for none) | `decoder` |
| `BuffersAreBytes` (hypothesis, `DecoderProof`) | a buffer is made of bytes, any bytes | `decoder`, by `TypeOK` |
| `TypesAssumption` (`MessageBody`) | the known types; limits of 32 and 64 bits are in order | `parser` |
| `WellFormed`, `StatementsTyped`, `NamesFrom` (hypotheses of the parser's theorems) | a statement has the members of its kind, with numbers where numbers stand and names where names stand | `parser`, by assumptions of `MCParser` |
| `LimitsAssumption`, `SourcesAssumption` (`Lexer`) | the limits of the two integer types are natural numbers; a text is a sequence of characters | `parser` |
| `PoolAssumption` (`StringPool`) | block sizes are positive; texts consist of characters | `parser` |
| `LinesAssumption`, `TimeAssumption`, `ContentsAssumption`, `RoundsAssumption` (`Codegen` and its parts) | command lines, short options and descriptors are lists; numbers are numbers | `codegen` |
| `AllSupported` (hypothesis of `CodeCompiles`) | no groups, which the library does not implement, and scalar map keys, the only ones the parser accepts | `codegen`, by an assumption of `MCCodegen` |

**SequenceFacts** has what the other proofs share: least and greatest elements, an
induction principle over sets of naturals, and what `FlattenSeq` computes. The library's
induction theorems take an operator as a parameter, which no installed prover can
instantiate; here the set of the numbers for which something holds takes its place. What a
recursive function returns is obtained the same way: a function that satisfies the
recursion is built up to any length, so that `CHOOSE` picks one.

**WireProof** has, for every reader of `Wire` and `ScalarTypes`, what it returns and where
it leaves the pointer, whatever bytes it finds; and that readers undo writers:
`WordReadsBack` (a varint, by the slow reader and the fast one, whatever follows it),
`LengthReadsBack` (a padded length), `FixedReadsBack` and `ZigZagInverse`. A varint's value
is a sum of digits; the lemma behind these (`AssembleDigits`) is that the sum of a number's
digits is the number, by induction on how many have been shifted out.

**EncoderProof** proves `TypeCorrect`, `PointersStayInBuffer`, `FramesStayNested`,
`WrittenBytesStay` and `EncoderImplementsWireLog`. The inductive invariant is

    IInv == TypeOK /\ PointersInBuffer /\ FramesNested

None of the three is inductive alone. A commit stores into the buffer five bytes
before a frame's start: that this lies in the buffer, and in no other open prefix,
is `FramesNested`; that frames end before the pointer is needed to know that the
next `Reserve` keeps them; and that `Reserve` leaves room is `PointersInBuffer`. The
argument runs through one relation, `Extends(e, f)`: the object `f` is well formed
and holds the bytes written in `e`. It is transitive, `Emit` satisfies it whenever
the bytes are no more than the room it reserves, and the lemmas on
`VarintBytes`, `FixedBytes` and `PaddedVarint` bound the bytes. `WrittenBytesStay` is the
action property: written bytes change only when a closing sub-message fills its own prefix.

The refinement maps the encoder to the stack of payloads between its prefixes
(`OpenSlices`). A `put_*` call appends exactly its bytes to the innermost slice and leaves
the others (`AppendPayload`), `OpenField` adds an empty slice behind the tag and the gap
(`OpenPayload`), and `CloseField` joins the last two around the patched prefix
(`ClosePayload`), of which `LengthReadsBack` says that a reader takes it for the length, as
`WireLog` demands. The two exceptions are steps of the log because the code's tests are
exact: `FitsPrefix` shows that a length is refused only if no prefix holds it.

**DecoderProof** proves `TypeCorrect`, `SlicesStayNested`, `DecodesBySpecification` and
`FailuresAreLocal`, for every schema and every sequence of buffers. For the first two the invariant
strengthens `SlicesNested` to `Nested`: each cursor lies in its slice, *and the slice ends
exactly where the cursor around it stands*, so that returning from a `decode()` call needs
nothing of the callee. Each field handler is one lemma over what `WireProof` says its reader
returns: a value and a place in the slice, or a fault and a place in the slice.

That `decode()` computes what the reference does rests on three layers.

* *Reading.* What a reader makes of a slice is what it makes of the bytes of one value at the
  head of that slice, alone (`ScalarRead`, `ElementRead`, `ByteArrayRead`, `SkipRead`), so
  `get_next_field` takes the first of the reference's fields (`FieldRead`).
* *The reference.* `Items`, `Decode` and `Blank` are recursive functions; `Unfolds` shows,
  for all three at once, that a recursion which goes down a rank has a solution, so that
  `CHOOSE` picks one. For `Decode` the rank is the length of the string: the occurrences of a
  sub-message, joined, are shorter than the buffer they stand in (`PayloadsShort`). Then
  `ObjectAppend`: the object of a list of fields and one more is the object of the list,
  `Updated` by what the new occurrence adds, or there is none; and `ObjectShortens`: a fault
  stays one whatever follows. The first is what allows a cursor that never looks back.
* *The stack.* The inductive invariant is

      DInv == IInv /\ (stack = <<>> => Settled(...)) /\ (stack # <<>> => \E h : Tracks(...))

  where `h` gives each activation the bytes it decodes, what it has read of them and the field
  it waits for. The innermost activation holds the object of what it has read, and the rest of its
  slice is the rest of its bytes (`IsTop`). A caller holds the object of the fields before the
  one that it waits for, except in this one field, and the activation above it decodes the very bytes from
  which the reference decodes that occurrence (`IsLink`): for a sub-message these begin with the
  payloads of earlier occurrences, also those of earlier calls, of which the object in place
  already holds the decoding (`MessageSoFar`). After an exception every activation on the
  stack is `Doomed`: the reference rejects its bytes whatever stands behind the fault
  (`LinkFails` carries that from an activation to its caller). Each action has a lemma
  (`ScalarTracked`, ..., `UnwindTracked`) that finds the next `h`. `FailuresAreLocal` needs that the
  fields an activation has read are the longest sound prefix (`StuckAtTheFault`).

`DInv` quantifies over unbounded histories, so TLC checks what follows from it, not `DInv` itself.

**TypeEvolutionProof** proves `ValueKept` and `ReadersAccept`, for chains of any length. The
invariant adds to `ValueSurvives` that the field is the latest version's encoding of what
that version has seen. The arithmetic is that a cast keeps a value modulo its word, and that
a signed reading of anything congruent to a value it can hold is that value.

**LexerProof** proves all that the runs check of the lexer, for texts of every length: that
`class Lexer`, which decides on one or two characters of lookahead, cuts the text as the
grammar does, which knows only whole texts.

* `LocationsAreExact`: the invariant is `LocationsExact` itself, beside the types. The
  grammar counts the line ends before a place and looks for the last of them; a character
  passed is one more place, a line end passed one more end, and `\r\n` is one end
  (`SameLine`, `NextLine`). No token holds a line end, not even a string, so `Forward` only
  adds columns (`ForwardLocated`).
* `IntegersReadExactly`: the test `result > (UINT64_MAX - digit) / base` refuses exactly what
  would not fit, for a limit of any size (`OverflowsIs`); digit after digit, the loop of the
  parser has the numeral of what it read, or has given up and nothing that follows could
  bring the number back below the limit. The invariant is that an integer token is a run of
  decimal digits, or `0x` and at least one hexadecimal digit.
* `StoredBytesReadBack`: each byte is written as one element of a literal, and what is
  written next does not make that element longer, because an octal escape has three digits
  and no fourth may follow; so the reader finds the same elements.
* `LexesAsTheGrammarSays` has the inductive invariant `LexerTypeOK /\ GrammarFollowed`:

      GrammarFollowed == TokensRead /\ Reading /\ Ended      (of the text and the cursor)

  The tokens so far are those of the grammar with blank text between them (`TokensRead`);
  from the last of them to the cursor the text is blank, or blank up to a comment that was
  opened there and is not closed before the cursor (`Reading`); and the lexer ends only at
  the end of the text, and fails only in an open comment or where no token begins (`Ended`).
  `LexesByTheGrammar` alone is not inductive, as it says nothing of the cursor before the end.
  The grammar is stated on pieces of the text, the code on places in it: for each rule a
  lemma says from where to where it derives (`Within`, `MantissaSpan`, `FloatSpan`, ...).
  The longest text of a rule then has a closed form (`Goes`): a name goes to the first
  character of another kind, a number to the place that `EndOfFraction` and
  `ExponentDigits` find, and nothing longer is derived, also where the code refuses what
  it found (a number before a letter, as in an exponent without digits). That white space and
  comments can be taken one at a time is an induction from the cursor backwards.

**ParserProof** has the rest of the parser.

* Enum bodies: `RulesAreEnforced`, for bodies of any length over any statements. The
  invariant is

      EnumInv == EnumTypeOK /\ (enum_status = "reading" => EnumDescribes /\ KeptSoFar)
                            /\ EnumAcceptsByTheRules

  `EnumDescribes` says that descriptor, reserved lists and flag tell what was read, no more
  and no less; `KeptSoFar` that of the rules those hold that do not depend on what is to
  come. The rules are stated on what was read and the code tests the descriptor, so neither
  part suffices alone: `ClashBreaksRules` shows that a statement is refused only when
  no continuation could be legal, and `ClosesByTheRules` that what the brace tests is
  what was left to test.
* Message bodies: `MessagesJudgedByTheRules`, `MembersLinked` and `EntriesStayUnambiguous`,
  from one invariant, `MessageIInv`. Its `Describes` relates six lists of the descriptor to
  the statements read (`Lists`: the n-th element of a list is made of the n-th statement of
  some kinds). `RulesByTime` splits the documented rules into those enforced on reading
  (`KeptEarly`), at the brace (`KeptAtClose`) and in the semantic pass (`KeptLate`), leaving
  none out; each statement either is recorded and keeps the early rules or is refused and
  breaks one (`Outcome`), and the same is shown of the two later times. The members of a
  oneof are linked because a oneof's index counts the declarations up to it, and no other
  statement moves the count.
* Files: `ReadUnderOneSyntax`, with `NothingBefore`: as long as no statement counts as seen,
  only `syntax` and empty statements were read. `BindsInnermost`: the lookup is a recursive
  function from the number of scopes left to the answer; `Answer` states it as the greatest
  prefix of the scope under which the name is known, the functions are shown to agree, and
  what the semantic pass then resolves is that declaration.
* The string pool: `TypeCorrect`, `NoOverflow`, `ViewsStayIntact`, `ViewsStayDisjoint`,
  `StoredTextStays`. The invariant is `TypeOK /\ UsedWithinCapacity /\ ViewsIntact /\
  ViewsDisjoint`. `ViewsIntact` includes that a view with its terminator ends below `used`:
  this is what keeps a later `save`, which writes from `used` on, off the view.

**CodegenProof** has the program, from three invariants.

* `BenchmarkMeasuresParsing`, by `ArgumentsRead /\ CommandSound /\ ParsedSoFar /\ Measured`: a
  report stands for `MIN_BENCHMARK` because the command line took no smaller time; the warm-up
  carries `ParsesAt` through the files.
* `ArgumentsPlayOnePart`, by `ReadSoFar`: options, values and names among the arguments before
  `next` are what `given` and `files` hold, and `next` is not the value of an option. The last
  conjunct is what makes it inductive: it is where the step over a value is needed.
* `TypeCorrect`, by `TypeInv`: with an idle benchmark its index is at the first file.
* `OutputInOrder`, by `OutputInv`. What is owed is a fold over the files; the invariant says
  where in it the program is (`Progress`): between two files (`Between`), within one after
  `j` messages without a fault (`Within`), or cut at the first failure (`Cut`). Each action
  moves it on (`FileFails`, `FileWritten`, `FileBegun`, `MessageGenerated`, `LoopEnds`). In
  the middle of a file the globals must be those of that file (`Knows`), which is what makes
  each file's code independent of the files before it.
* `CodeCompiles`, from the same invariant: stdout is made of the pieces of the descriptors'
  messages, and `main` has completed `no-has-fields` by `no-required`.

## Checked but not proved

* `ArrivesAsMeant`: its reference, `VersionRules`, is made of `RECURSIVE` operators over
  objects (messages within messages), which the provers cannot use. What an encoder writes and what a
  decoder makes of any bytes is proved of each (`EncoderImplementsWireLog`, `DecodesBySpecification`);
  their composition through generated code is checked.
* `CallsEnd` and `Ends`: liveness under fairness is left to the model checker.
* The violations: a counterexample needs no proof.

## Not modelled

* Of the parser: aggregate option values and custom option names, which are read and
  dropped; the canonical spelling of floating-point defaults; import paths; the
  wording and number of diagnostics.
* The pretty printer only formats. Statistics of the benchmark. Texts of help and errors.
* `descriptor.pb.cpp` is generated, an instance of what `Decoder` models. Of popl, the
  printers, ini files and option types that codegen does not use. Examples and tests
  were read for how the library is used.
* Byte order of the host: `easypb.hpp` 68-121 is modelled by its result. Failed
  allocations. Exponent ranges of floating-point conversions. A build of codegen without
  the parser.

## Plan

The modules above are complete, each with its run, and every invariant but
`ArrivesAsMeant` is proved. Further steps would be

1. the content of a message in `VersionRules` as a function over schemas ranked by nesting, as
   `Blank` is, and with it a proof of `ArrivesAsMeant`;
2. the scopes of `ProtoFile` joined with `MessageBody`, so that a message's types are
   looked up rather than given.
