# A formal model of binary-reader

binary-reader reads a small language that describes a binary file format and
then gives access to the fields of a file of that format, each parsed only when
it is asked for. This directory holds TLA+ modules that model its core, TLC
configurations that check them on small instances, and TLAPS proofs of the
properties that matter most. Paths below are those of the repository.

## 1. The system

| Component | State it keeps | Operations | Talks to |
|---|---|---|---|
| `Size` (`include/binary_reader/size.h`) | a `uint64_t` of bits | bytes, bit offset, clipping, sums | everyone |
| `FileReader` (`src/public/file_system.cc`, `src/util/memory_file_system.cc`) | one read position, the C stream's error flag | `Read`, `Seek`, `ReadFully` | the file |
| `BufferedFileReader` (`src/util/buffered_file_reader.cc`) | `start_position_`, `buffer_offset_`, `buffer_`, `used_`, a shared `FileReader` | `Seek`, `Skip`, `EnsureBuffer`, `GetBuffer` | one `FileReader`, which others may use too |
| Types (`src/ast/type_info.cc`, `src/ast/type_definition.cc`) | immutable | `ReadValue`, `Instantiate`, static size | `BufferedFileReader` |
| `FileObject` (`src/public/file_object.cc`) | parsed fields: offset and cached value | `GetFieldValue`, `ClearCache`, `ReparseObject` | its type, and the reader shared by all objects of the file |
| `FileParser` (`src/public/file_parser.cc`) | the definitions | `CreateFrom...`, `ParseFile` | file system, definition parser, root type |
| Definition parser (`src/parser/definition_parser.cc`) | a scope of types, a scope of members | a visitor of the ANTLR tree | options, types, `ErrorCollection` |
| Options (`src/public/options.cc`, `src/ast/option_set.cc`) | options of one type use | parse, resolve, default | definition parser |
| Text codecs (`src/public/codecs.cc`, `utf_string.cc`) | up to 4 bytes of a partial sequence | `Decode`, `Encode`, `Reset` | options, command line |
| `ErrorCollection` (`src/public/error_collection.cc`) | errors and a flag | `Add`, `AddAllFrom`, `clear` | everyone, owned by the caller |
| `Number` (`src/public/number.cc`) | one of three representations | compare, convert | values, JSON |
| JSON dump (`src/public/json.cc`) | its recursion | a walk over an object and those in it | `FileObject` |
| Command line (`src/app`) | one `ErrorCollection` for two calls, the exit status | `main` | `FileParser`, JSON dump |

The program is sequential. What makes it hard is shared, mutable state behind
lazy calls: every object of a file reads through one buffered reader, at any
time and in any order; a window, a position in it and the position of the file
below have to agree after every mix of seeks, short reads, compactions and
failures; and a failure in the middle of a read must leave nothing behind that
a later read takes for the file. On top of that, positions are counted in bits
and buffers in bytes.

What makes each component correct:

* `BufferedFileReader`: its bytes are the file's at the position its client
  believes in; its asserts hold; every call returns.
* `FileObject`: a cached value is what the file has at that field; a failed call
  caches nothing; end of file is reported only at the end of the file.
* Integer type: the number is the one the bits mean.
* `FileParser` and the definition parser: a parser comes out of exactly the
  definitions without errors, and all its types have a static size.
* Options: what the text says is what the type gets, once per option.
* Codecs: text does not depend on how it was cut into calls, and survives a
  round trip.
* JSON dump: every field is written once, as it is in the file, whatever failed
  before it.
* Errors: what is wrong is said where it is wrong, also behind other errors, and
  with the words that are written there.
* Command line: it ends; when it returns 1 it has said why, once; when it returns 0
  the output is whole.
* `Number`: comparison agrees with the order of the numbers.

The hazards this raises are in `PROJECT.json`, each at its line with the
properties that watch it.

## 2. The modules

| Module | Models |
|---|---|
| `Size` | bits, bytes and offsets, as operators |
| `FileReader` | the position and error flag of an open file, and the steps of `Read` and `Seek` with short and failing reads; its contents are a constant function |
| `FileCursor` | what a buffered reader promises, with no buffer: a position, how many bytes are ahead, and what each call may answer |
| `BufferedReader` | `BufferedFileReader`, every operation; the loop of `EnsureBuffer` is one step per read |
| `BufferedReaderProofs` | its theorems, the refinement of `FileCursor` among them |
| `Bits` | the bits of a number, and the bitwise or of two words, as operators |
| `IntegerCodec` | the bit arithmetic of `IntegerTypeInfo::ReadValue`, with the meaning of a string of bits as the reference |
| `FileObjects` | `ParseFile` on a reader, all objects made from it, `EnsureField` and the two `ReadValue`s call by call, `ClearCache`, `ReparseObject`; EXTENDS `BufferedReader` |
| `FileObjectsProofs` | its theorems |
| `Json` | the walk of `DumpJsonObject` as one of the things an application does between its other calls; EXTENDS `FileObjects` |
| `JsonProofs` | its theorems: a walk makes only calls of `FileObjects`, and writes what is in the file, all of it |
| `SharedFile` | two instances of `FileObjects` over one `FileReader` |
| `Sums` | the sum of a sequence of numbers |
| `Utf8` | the form of a UTF-8 sequence |
| `Utf8Text` | what decoding promises, with no buffers and no calls: whole sequences, one after the other, until one is wrong; bytes are passed over only by its `Restart` |
| `Utf8Decoder` | `Utf8Converter::Decode` and `Reset`, one step per turn of the loop, over a text cut into calls anywhere |
| `OptionSet` | the table of options and the set of those given in one place: duplicates, ambiguities, resolution, and what is wrong with each |
| `DefinitionParser` | `CreateFromDefinition`: the visitor of the parse tree, one step per member and per type, and its result, and the type `ParseFile` starts with; EXTENDS `OptionSet`, `ErrorCollection` |
| `DefinitionParserProofs` | its theorems |
| `Induction` | lemmas that the proofs share: induction over an interval, functions defined by recursion over one, sums that wrap |
| `ErrorCollection` | errors and warnings of a caller: place, message with its gaps filled, level, and whether there are errors among them |
| `Program` | `main`, from the arguments to the exit status; EXTENDS `ReadFully` for the definition file, and has an instance of `Json`, with the objects and the reader below it, for the binary file |
| `ProgramProofs` | theorems about `Program`, and about `ReadFully` |
| `Number`, `Value` | numbers of three representations: made, compared, converted; values of four kinds and their order |
| `ValueProofs` | theorems about the comparison, the order and the conversion of values |
| `ReadFully` | `CreateFromFile` up to the text: open, seek, one step per read; EXTENDS `FileReader` |
| `Utf16` | what `Encode` and `Decode` make of characters: code points, surrogates, units |
| `CodecProofs` | the theorems of `Utf8Decoder`, the refinement of `Utf8Text` among them, of `IntegerCodec` and of `Utf16` |

### State and code

`BufferedReader`: `start`, `offset`, `buffer` and `used` are the four fields of
the class; `filePos` and `ioError` belong to the `FileReader` below. `Seek` and
`Skip` make at most one call of the reader and are one step. `EnsureBuffer` and
`GetBuffer` begin with the compaction (`Begin`) and then take one `Fill` step per
read; `call` is the call in progress and `answer` what the last one returned.
`lost` is a history variable: a seek of the reader has failed and none has
succeeded since. Seeks and reads can fail at any step, a read can be short, and
a failed read can have moved the file and written to the free part of the buffer.

`FileObjects`: `objs` are the objects made so far, each with its type, start and
fields with offset and cached value; `pc` and `cur` say where `GetFieldValue`
stands while the reader works for it. A value of an integer field is the bytes
it is decoded from, and `IntegerCodec` is about what the code makes of them.

`Json`: `frames` are the calls of `DumpJsonObject` in progress with the names each
has left, `asked` the field whose value the innermost waits for, `written` the
output. `failed` is a history variable: a call of the file failed in this walk.
The names come out of an `unordered_map`, and the walk takes any order.

`Utf8Decoder`: `temp` and `used` are the fields of the class, `offset` the local
of `Decode`. The buffers of the calls are given as stretches of one `text`,
`base` counting the bytes of the earlier calls: what a caller may pass is any
cut of any text, with empty buffers too. `givenUp` is a history variable: the bytes
held or not yet looked at when the client called `Reset`, which alone changes it. `Done`
is the number of bytes in the output and of those given up, and stands for the position
of `Utf8Text`: a byte that neither is decoded nor was given up is not done. `Utf16` is a string that is encoded and decoded
again, as `AsBytes` and `FromEncoding` do. `DecodeFrom` stops where the text does not go
on, without the error: what `Encode` makes has none, and errors are `Utf8Decoder`'s.

`DefinitionParser`: `types` and `statements` are `stack_.types_` and
`stack_.statements_`, `errors` the caller's `ErrorCollection`, `hadErrors` that it
had errors already. `written` is a history variable: the file, as far as it is
visited. A token's line and column are its place in `written`: type, member,
option. A type is the record of what `TypeInfoBase` and its subclasses keep; a
member of an unknown type has `NoType`, the null pointer. An expected value is
written as digits, in one of the three forms of the grammar, and read as `stoll`
and `stod` read it; one they cannot read ends the call by an exception (`threw`). Static
sizes have `SizeBits` bits and wrap. What a file means is said again under the
properties by `GoodFile`, `Magnitude`, `LastOption` and `SizeOf`, from `written`
alone. `SizesAsWritten` is what `FieldsAssumption` of `FileObjects` takes for
granted, for sizes that do not wrap.

`Value`: `value` is one `Value` of the application. `Number` keeps the three
representations apart; `Halves` is the number that one stands for. Integers have
6 bits for 64 and doubles 3 for 53, so that rounding is part of the model; what a
`static_cast` of a double that does not fit returns is left open.

`Program`: `at` is where `main` stands and `returned` what the call it is in has
given; `collection` is `main`'s `errors`, `said` what its two loops have printed, one
set of lines each. While a call is at work its own variables take the steps:
`ReadFully`'s for the definition, those of the instance of `Json` for the dump. What
the visitor makes of the text is left to `DefinitionParser`: here it adds any of a
few errors and warnings.

`ReadFully`: `ret` is the local buffer, `buffer` the caller's, `asked` the size of
the next read. `errors` says whether the caller gave an `ErrorCollection`.

## 3. What the runs check

| Run | Shows |
|---|---|
| `buffered_reader` | the window invariants, the asserts, that calls return, and that the buffered reader implements `FileCursor` |
| `integer_codec` | numbers come out as their bits mean, for the fields the code supports |
| `integer_bits` | (violation) a field of one bit at a byte boundary; fields ending at other bits of a later byte are wrong as well, which `Supported` of `IntegerCodec` spells out |
| `file_objects` | values, end of file, failures and caching of lazily read objects; a dump begun in any state of them writes what is in the file |
| `shared_file` | (violation) two parses of one `FileReader` corrupt each other |
| `utf8_decoder` | a text decodes the same however it is cut; each byte given is decoded, held, given up by `Reset` or still to come; what is held fits and continues; `Decode` returns |
| `utf16` | strings encode to their characters and come back |
| `utf16_pairs` | (violation) pairs whose high unit has bit 6 set |
| `definition_parser` | a parser comes out of exactly the good definitions, with the fields, options, expected values and sizes that are written; every fault has its error, at its place and about what is written there; `ParseFile` finds the type it is asked for |
| `values` | numbers of all representations and values of all kinds compare in one order, that of the numbers up to rounding, and convert to the nearest integer |
| `program` | the definition parsed is the whole file, and a failure leaves nothing behind; the program says why it fails, writes each field of the root and of the objects in it once, and ends |
| `null_on_error` | (violation) a failing read without an `ErrorCollection` |

Bounds. A buffer of 3 bytes (2 in `file_objects`) over a file of 4 is enough
for a window that moves, is compacted, is filled by several short reads and
meets the end of the file; positions are at byte boundaries, inside a byte and
past the end. `MaxPos` bounds how far skips go, `MaxObjects` how many objects one
parse makes, `MaxMade` how many of them a dump may add: the walks of the run begin
with nothing, something or all of the object cached, anywhere in the window. Its
three types lie one in the other, the innermost in the middle of the next, so that
a field is read after the objects before it have moved the reader; a fourth object
makes room for old and new children of a reparsed one. The word of `IntegerCodec` has 16 bits instead of 64: it holds
fields of less than a byte, of several bytes, of the whole word, and fields that
start and end inside bytes. `utf8_decoder` takes all texts of up to four bytes,
the longest sequence, from one byte of each form, and two of five and six bytes
in which a sequence stands before or behind another; `utf16` all strings of up to
three units from both sides of every boundary the code tests, so that a pair has
a neighbour. `definition_parser` has two types, two members and two options: what
goes wrong between names, scopes and options takes two of them. Names of types
and members overlap, one is a built-in type's, and one type is never defined. A
number takes the room of the two options of its file (`Cost`), since
nothing connects them; `MaxInt` 20 and `MaxReal` 30 leave numbers that fit in one of
the two and in none, and a `SizeBits` of 5 is wrapped by two integers of 16 bits.
`program` reads a definition file of five bytes in blocks of two when its size is not
known, and a binary file of five bytes through a buffer of two, with three objects
one in the other of which the file does not hold the last fields. `values` compares each value with all others, and all triples of them.

Fairness. The code is sequential and no call waits for anything: a call in
progress keeps taking steps (`WF` of the steps of `EnsureBuffer`'s loop, of `Turn`, and
of the steps of `main`, three sets of which at most one can be taken at a time). That
a step fails is never assumed, but for a stream that keeps failing (`WF` of
`FillFails` while its error flag is set) and within a dump, which may have such a
stream. Nothing obliges an application to call again.

Violations are disagreements between the code and a text of the repository,
quoted in `PROJECT.json` under `findings`. Others that came up, which the
properties state as the code has them:

* `EnsureBuffer` of a whole buffer at a bit offset reads nothing and succeeds
  without what it was asked for; `EnsureDelivers` is about requests that fit.
  Nothing in the library asks for more than 9 bytes.
* U+FFFF decodes to two units (`codecs.cc:60`, `< 0xffff`); `RoundTrip` leaves the
  unit out.
* The offset of a decoding error counts the bytes held from earlier calls
  (`codecs.cc:53`); `ErrorAtWrongByte` says so.
* `FromEncoding` ends with success when the text ends within a sequence, and drops
  its bytes (`utf_string.cc:34`): after the one call they are `Held`.
* A collection that has errors already fails every definition
  (`definition_parser.cc:280`); `AcceptsGoodFiles` asks for a clean one.
* Options on a use of a defined type are accepted and have no effect, since the
  empty set of `GetOptionTypes` (`type_definition.cc:66`) is taken for all types;
  `GoodOptions` asks only that they exist.
* "Values are compared by value" (`number.h:26`), but an integer that a double cannot
  hold equals the one it is rounded to, so that equality is not transitive;
  `ComparesUpToRounding` says how far it goes. NaN is greater than every number,
  `operator>` being `!(a <= b)`; `OneRelation` leaves it out.
* `clamp_cast` of a finite double outside of both integer types casts it to one of
  them first, which is undefined; `Castable` leaves those out.
* `Value::operator=(T&&)` moves from its argument also when that is an lvalue
  (`value.h:67`). The one place that assigns one (`type_definition.cc:61`) does not
  use it again.
* `Size::operator-=` adds (`size.h:55`). Nothing in the library uses it.
* An expected value that does not fit, or that begins with a digit of another
  script, makes `stoll` or `stod` throw out of `CreateFromDefinition`
  (`definition_parser.cc:189`); a digit they do not know further on, as in `09`, ends
  the number there without an error. `FieldsAsWritten` is about numbers whose digits
  are all of their base.
* The program returns 0 after a dump in which fields are null because the file ended
  or failed, and says nothing of it (`main.cc:44`).
* A `FileFileReader` never closes its `FILE*` (`file_system.cc:40`).
* Static sizes wrap (`type_definition.cc:34`), and the fields of such a type lie on top
  of each other; `SizesAsWritten` states the sum as `uint64_t` has it.
* The message of an ANTLR exception is lost: `{e.what()}` (`definition_parser.cc:283`)
  is taken for the arguments of the default message, which has no gaps.
* The columns of errors are zero-based (`getCharPositionInLine`), or the index in the
  whole file (`definition_parser.cc:239`), where `error.h:67` says one-based; column 0
  is not printed (`error.cc:190`).
* `ClearCache` does not show a change of the file to fields that are still in the
  window of the buffered reader, while its doc speaks of a changed file
  (`file_object.h:77`); `file_system.h:28` excludes changes.
* `FromUtf8` of bytes in error is the empty string, without the replacement
  characters of its doc (`utf_string.h:79`).

## 4. What is proved

Every theorem is about all values of the constants that the assumptions of its
module allow. Those are about the constants only: that a file is a sequence of
bytes, that a buffer has room for a byte, that a definition is made of what the
grammar can produce (`DefinitionAssumption`: the identifiers and digits of the
lexer are not empty, `AntlrBinary.g4:28`), that a field that is an object has its
size (`FieldsAssumption`). Where one names a power of two, as in `2 ^ SizeBits \in
Nat \ {0}` or in `PowerAssumption`, that each is twice the one before, it says a truth
that the provers do not know, since they have no powers.

**The buffered reader** (`BufferedReaderProofs`): the type invariant, the asserts
of `EnsureBuffer`, that the window shows the file, that the next read continues
it, that `GetBuffer` returns the file's bytes at the position, and that
`EnsureBuffer` delivers. None of them is inductive alone: a read appends the right
bytes only if the reader stands right behind the window (`ReaderBehindWindow`); a
compaction keeps that only if the offset lies in the buffer (`OffsetInBuffer`); a
read never overruns only because room was made (`RoomWhileFilling`). `WindowInv` is
their conjunction; one lemma per action shows that it is kept, one step per
conjunct. `ReaderImplementsCursor` is the refinement: each step of `BufferedReader`
is one of `FileCursor` or a stutter, where a read that ends the loop is the step
that answers, and all the others, the compaction too, leave the position and what
was answered alone.

**The objects** (`FileObjectsProofs`): cached values are the file's, end of file is
only reported at the end of the file, no field is read through a reader that is
lost, and a call that fails caches nothing. `ObjectsInv` is `WindowInv` and what
connects the objects to the reader that they share: in the middle of a call the
reader's position is that of the field (`CursorInv`), what `EnsureBuffer` left ahead
is enough for it or all there is (`AheadInv`), and a seek that failed has left an
empty window, so that nothing can be taken from it before another succeeds. An
object's fields lie where the sum of the sizes before them says (`GoodObjects`),
which is a recursion over the definition, and nested objects start where their
field does: that is why a reparse puts all fields where they were. `ObjectsAreATree`
is about how they are held: no two fields hold one object, and each is made after the
one it is in. That is so because only a new object is ever given to a field.

**The dump** (`JsonProofs`): `WalksAreCalls` shows that `JsonSpec` implements
`ObjectsSpec`, whatever the walk does between its calls, and with it everything
that is proved about the objects. `DumpShowsFile` needs in addition that a null was
written only when the call failed, and that a failure of the file is remembered
to the end of the walk. `DumpWritesAll` is about the end (`DumpIsWhole`); until then each
field of each object that the walk has come to is in exactly one place (`WholeFrom`):
written, asked for, or left to one of the calls in progress. An object is come to by
the one field that holds it, which is why the objects have to be a tree: otherwise a
walk would write some twice, or not end.

**The definition parser** (`DefinitionParserProofs`): all six of its properties, for
files, lists of options and numbers of any length. `FileInv` and `StackInv` say that
every type and member entered is made of the one that is written there, so that
`ScopesFollowFile` is the least of it. `FaultInv` says that each error is about a
place that is visited and that what is visited has errors exactly if something is
wrong with it: `VisitMember` may add errors of the new member only, which needs that
places are told apart and that the flaws found in a list of options are those that
`GoodOptions` asks about. `AcceptInv` follows: the collection that `EndFile` looks at
has errors exactly if the file is not good. What a good member then means is about
functions, each a recursion over a sequence: the resolved options are those of the
last option for each kind (`FieldsAsWritten`, through `AddStatic` and `AddOption`); the
number that `stoll` reads digit by digit is the sum of digits and powers of
`Magnitude`; and the sizes, which the code adds up with a wrap at every field of
every type, are the sum of all integers in a type with one wrap at the end
(`SizesAsWritten`), by induction over the types of the file.

**Induction.** The library's induction theorems take an operator as a parameter,
which the provers cannot instantiate. `Induction` has first-order forms: a property
of numbers is the set of those that have it, and a set of naturals has a least
element; what a recursion does in each step is a function. `RecursionExists` gives the
function that a `LET f[i \in ...]` of the models chooses, and `IntervalInduction` what
it computes.

**The text decoder** (`CodecProofs`): the bytes held fit `temp_` and are the text's
(`HeldIsPartial`), every byte given is accounted for (`AllTaken`), the offset of an
error is that of the first wrong byte (`ErrorAtWrongByte`), and the decoder implements
`Utf8Text`. `Restart` counts what it passes over and passes over something, so that only
a `Reset` can be one; a `Reset` with nothing to give up is a stutter, since an error
leaves a byte that is not done (`ErrorIsAhead`). That what is done, which is counted in
the output, is where the decoder stands in the text is `DoneIsPlace`. The refinement
rests on the inductive invariant: a sequence completed from held bytes and buffer is a
stretch of the text only because the held bytes are the ones right before the buffer,
and it is held only because the text given so far does not complete it.

**The integers** (`CodecProofs`): `ReadsCorrect` holds for a word of any number of bytes,
so also for the 64 bits of the source, where TLC has 16. The bits of the field, read one
after the other, are a recursion of partial values; the loop over the whole bytes adds
eight of them a turn, and its invariant says that what it has is the partial value up to
that byte, or, for a little endian field, the low bits of the whole. Each `|` is of two
numbers with no bit in common, so that it is their sum (`Or` in `Bits` is a recursion
over the bits), and each shift leaves no bit behind, as the field fits the word. The
first and the last byte are cases of their own, by the forms of `Supported`. Of the sign
bits, that they fill what is above the field is again an or of disjoint numbers, and a
field of a whole word needs none. `WordPowers` is the truth about `2 ^ n` that the provers
need.

**Strings** (`CodecProofs`): `EncodingCorrect` and `RoundTripCorrect`, for strings of any
length. `StringInv` says what `bytes` and `back` are made of; the rest is about two
recursions along a text, one that goes on by one or two units and one by one to four
bytes. `SuffixesExist` gives such a recursion its solution, and both are followed from
the last place of the string to the first (`Told`): what the rest encodes to is whole
sequences (`WholeText`) of the characters from there on and decodes to the rest, and the
bytes of the character in front are one more sequence, with its code point
(`SequenceAdded`). Where a pair stands in front, none begins at its second unit, so that
the characters behind it are those of the string from there on (`PairFirst`).
`UnitPowers` is used as `WordPowers` is. The proof found that `DecodeFrom` had no
solution where a byte begins no sequence, which no run comes to; it stops there now.

**The program** (`ProgramProofs`). Of `CreateFromFile`: what is parsed is the whole
file, and failures leave the caller's buffer alone. `FullyInv` adds that the reader
stands behind what was read, and that something is asked for unless the file is empty:
otherwise 0 bytes would not mean the end. Of `main`: it says why it fails (`SaysWhy`),
where `SaysInv` follows the errors of the call that `main` is in from the collection to
what is said of it, and has the collection empty when the next call begins; and what it
writes is whole (`OutputIsWhole`). `DumpInv` puts the invariants of `JsonProofs` beside
the place where `main` stands: nothing is written before the dump, one object is there
when it begins, the root, and `WholeFrom(1)` holds until it ends. `INSTANCE` brings
neither assumptions nor theorems of another module along, so that `Program` assumes of
its constants what `Json` does (`BinaryAssumption`), and `SameModule` shows that the
instance of `JsonProofs` is about the steps of `Program`'s instance of `Json`.
`ProgramComposes` says that `main` adds nothing to what its parts do.

**Values** (`ValueProofs`): all five properties, for integers and doubles of all
widths. The invariant is only that the value is one that the constructors make, so
that the signed form is used below zero alone (`SignFits`); the rest is about the
operators. That integers and doubles compare in one order rests on two facts about
`Round`: it keeps the order of integers (`RoundGrows`), also from one binade to the
next, and it leads past no double (`RoundKeepsSides`), so that an integer on one side
of a double is not found on the other. Equality is no equivalence, as two integers can
round to the double between them, but less is transitive nevertheless (`LessChains`).
The order of strings needs the first unit that differs (`StringsRelate`). The
conversions go case by case through `clamp_cast` (`ClampNearest`): the first cast, to
the type of the number's own sign, is exact for what `Castable` admits.

Only model-checked: liveness, which is out of the prover's reach (`CallsReturn`,
`DecodeReturns`, `ProgramEnds`). Every other property of a passing run is stated by a
theorem.

## 5. Not modelled, and the plan

1. The table of files of `MemoryFileSystem`, and that of codecs: both constant
   maps as the library uses them.
2. Proofs of liveness, which need `ENABLED`.

Left out: the order and number of equal errors, JSON text, TCLAP's own handling of
arguments (`--help`), the generated lexer and parser and the incomplete trees they
leave after a syntax error, `Equals` of the syntax tree (which only tests call), and
a file that changes while it is read, which `file_system.h` excludes.
