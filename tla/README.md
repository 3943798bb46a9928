# A verification development for protoc-gen-codec

`protoc-gen-codec-go` reads annotated `.proto` files and writes, for each
annotated message, Go methods that size, encode, decode and reset the user's own
struct in proto3 wire format: `SizeCodec`, `MarshalCodec`, `MarshalToCodec`,
`UnmarshalCodec`, `ResetCodec`. The emitted code leans on a small runtime
(`lang/go/codec`). What makes it more than a serializer is reuse: a receiver is
meant to be decoded into again and again without allocating, so the methods keep
heap slots, element objects and backing arrays of earlier messages alive.

## Inventory

| Part | Source | State | Operations | Hard behaviour |
|---|---|---|---|---|
| Wire primitives | `lang/go/codec/wire.go` | none | `DecodeVarint`, `SkipField`, encode, size, zigzag | bounds, truncation of the tenth varint byte, lengths above `MaxInt` |
| Well-known types | `lang/go/codec/wkt.go` | none | `Encode/Decode/Size` of Timestamp, Duration | zero time against the Unix epoch, times before 1970 |
| Schema analysis | `internal/core` | `FileInfo` tree | `AnalyzeMessage`, `resolveCast`, option reads | recursion, presence, oneof annotations |
| Emitter: decode | `internal/lang/golang/gen_unmarshal.go` | the receiver, the cursor, the bitmap `seenOptional`, the slab | prologue, pre-scan, main loop, nil-out pass | reuse, errors half way, framing, offsets into the slab |
| Emitter: reset | `gen_reset.go` | the receiver | `ResetCodec`, the prologue's resets | what is kept and what is emptied |
| Emitter: encode | `gen_marshal.go`, `gen_size.go`, `gen_oneof.go`, `gen_map.go` | none | size pass, write pass | the two passes must agree; oneof branches |
| Plugin driver | `plugin.go`, `codegen.go`, `goident.go` | the output files | one pass over files | a file or a message that fails among others |
| Benchmark contracts | `codectest/contract.go` | counters | `Loop`, `End` | integer division, a counter of the whole process, setters after the loop began |
| Conformance suite | `codectest/spec.go`, `assertions.go` | none | test assertions | what they do not reach |
| Generated code | `lang/go/integration/*.codec.go` | as above | what the emitters wrote for the fixtures | |

How they interact: the driver calls the analyzer for each message and hands its
`MessageInfo` to the emitters; the generated methods call the runtime for every
varint and every unknown field; a generated method of a parent calls
`UnmarshalCodecInternal`, `ResetCodec`, `SizeCodec` and `MarshalCodecInternal`
of its nested types on objects it keeps. No generated method locks, waits or
starts a goroutine; concurrency is the caller's, under the contract of
`lang/go/codec/doc.go:55-93`.

What each part must get right:

* decode: the receiver says what the input says and nothing of what it said
  before; all bytes are accounted for; malformed input ends in an error and
  never in a bad slice expression; every loop ends;
* reset: a reset message writes no byte, and no capacity is lost;
* encode: size and bytes agree, maps are in key order, the branch the
  discriminator names is written and no other;
* analysis and driver: each accepted schema has one Go representation the
  emitters agree on, and a file is written whole or not at all;
* contracts: a pass and a failure say something of the measured body.

In the modules' comments `REQ-n` is row `n` of the requirements in
`docs/compliance/golang/codec.md`.

## Modules

| Module | Models | State and actions |
|---|---|---|
| `Nested` | one nested object | the operators `ResetKid`, `DecodeKid`, `KidOnWire`: the nested type's own methods, as its parent's methods call them |
| `Receiver` | `UnmarshalCodec`, `ResetCodec`, `MarshalCodec` of one receiver over its whole life | one variable per way of holding a field in Go; `live` and `spare` are `s[0:len]` and `s[len:cap]`; `seen` is `seenOptional`; one action per case arm, plus prologue (`Begin`), nil-out pass (`Finish`), unknown field, error, `ResetCodec` |
| `FreshDecode` | what the codec interface promises | the message as it would be written: no slots, no spare capacity, no bitmap |
| `WarmPath` | the allocations of `Receiver`'s decodes | adds a counter and the inputs of the last two calls |
| `Wire` | `wire.go` | operators on byte sequences and 0-based offsets; widths are constants |
| `WellKnown` | `wkt.go` | sizes, encodings and decodings of the two types; the loops over their bodies are steps of `Decoder` |
| `Proto` | nothing of the code: bytes as proto3 reads them | the reference of `Decoder` and `Encoder`: records one behind the other, what each holds (`Contents`), and the values a field has among them |
| `Decoder` | one `UnmarshalCodec` on bytes, with the nested calls it makes | `top` is the running `UnmarshalCodecInternal` (slice, slab offset, cursors `pi` and `i`, pre-scan counts, fields so far), `stack` the calls it is nested in; a step is one turn of the pre-scan, of the main loop, of a packed run or of an entry, a call or a return |
| `Encoder` | `MarshalCodec` and `MarshalToCodec` of one message, by several callers, on bytes | the message, and per caller the pass (`pc`), the field reached (`at`), `size`, `buf` and the write offset `n`; a step is one field of one pass |
| `Generator` | `GenerateAll` over one plugin request, with `AnalyzeMessage` and the decisions of the emitters | the file, message and field it has come to, the `FieldInfo`s and `MessageInfo`s so far, and per file its outcome and its Go file; a step is one file, message or field |
| `Contract` | `codectest.Contract` in a process where others allocate | the ceilings and counters of the code, the process's mallocs and clock, and what really happened in the loop; `Loop` is two steps around `b.Loop` |
| `Induction` | induction over the natural numbers as facts about sets, and the existence of functions defined by recursion: what the proofs below use where a library theorem would take an operator | |
| `ReceiverProofs` | theorems about `Receiver` and `WarmPath` | |
| `WireProofs`, `DecoderProofs`, `EncoderProofs`, `GeneratorProofs`, `ContractProofs` | theorems about `Wire`, `Decoder`, `Encoder`, `Generator` and `Contract` | |
| `ParseProofs` | the theorem that `Decoder` reads what the reference reads | |
| `MCReceiver`, `MCWarmPath`, `MCDecoder`, `MCEncoder`, `MCGenerator` | values for the constants | |

`Receiver` extends `Nested`, instantiates `FreshDecode` under a refinement
mapping, and is extended by `WarmPath`. `Proto` and `WellKnown` extend `Wire`;
`Decoder` and `Encoder` extend both. `Receiver` and `Decoder` model the same
generated method from two sides: `Receiver` has no bytes but objects that
survive from call to call, `Decoder` has bytes, and starts anew.

**Receiver.** The generator emits the same code for every message type with the
same kinds of field, so the type is a parameter: `Plain` (values), `Rep`
(repeated scalars), `Maps`, `Opt` (`*T` scalars), `Ptr` and `Inl` (messages as
`*T` and `T`), `Elem` (repeated messages, `[]*T` when in `PointerElem`), `Branch`
(oneof branches) and `Wide` (numbers above 63, for which the 64-bit bitmap is too
small). The wire is a sequence of field occurrences; the bytes of a scalar are
its value, the bytes of a nested message are what its loop would leave
(`Payload`), including one that ends in an error. A `MarshalCodec` is not a step:
it reads the receiver only, so what it would write is a state function
(`PlainOnWire` to `ElemsOnWire`), and when it would panic another
(`MarshalPanics`). A nested object has one field of each kind a parent can leave
something behind in. Nested types of nested types add nothing to it: the nested
methods are the same methods.

**The refinement mapping.** `FreshDecode` sees the input as it is
read (`fed`, `last`), so a decode that leaves an occurrence out, or takes one
twice, implements nothing in it. It sees the receiver through
`MarshalCodec`: a branch that the discriminator does not name is hidden, an empty
`*T` counts as absent (`gen_marshal.go:127-130`), spare capacity is invisible.
While a decode runs, a pooled slot that has not been reached still holds the old
message; the nil-out pass will remove it, so the mapping hides it already
(`Current`). A decode that failed leaves any content, which is what the
interface promises. The empty receiver must then be recovered by whatever comes
next, and that is where the refinement has its teeth.

**Decoder.** Bytes, varints and offsets are concrete. A byte carries 7 bits of a
varint, as it does in the code, but a word has 8 bits instead of 64, a varint at
most 2 bytes instead of 10, and the fixed widths are 2 and 1 instead of 8 and 4:
every comparison of the code keeps its meaning, the last byte of a varint
overflows the word as the tenth does, and short inputs reach every branch. The
schema has a field of each kind of arm: varints and fixed-width numbers, single
and repeated, strings, bytes of a fixed and of any length, nested messages of the
same type, maps, a Timestamp and a Duration. The key and the value of a map are
of any kind that `emitScalarRead` tells apart (`MapKinds`): `Readable`, `ReadTo`
and `Scalar` are its arms, and the loops over the two well-known bodies read both
their parts as `int64`. A nested message is a call on a subslice, with the
offset of that in the slab handed over apart from it. The receiver's slices are
nil or not, at each level, for the pre-scan runs only for those that are nil.
The reference (`Meaning`) reads the input as records one behind the other, with
no cursor and no state.

**Encoder.** `SizeCodec` adds up what the fields take and `MarshalCodecInternal`
writes them into a buffer of that size; both repeat the presence guards, the tag
and prefix sizes and, for packed fields and maps, the sum of the body. The model
keeps the two apart (`Sizes`/`Writes`, `FieldSize`/`FieldBytes`), as the emitters
`gen_size.go` and `gen_marshal.go` are, so a guard changed in one of them shows.
A field is one step, so callers interleave between fields; the oneof comes last,
as it is emitted last. The order in which `range` yields the keys of a map is
chosen freely. A write behind the end of the buffer is the state `overrun`: the
code would panic there, or `copy` would cut the bytes off. The message changes
only between calls, which is the contract of `doc.go`. A byte carries 5 bits of
a varint, so that some tags take two bytes and a string of 32 bytes has a prefix
of two. Doubles as map values are counted in halves, so that one can have a
fraction. The reference takes the bytes apart with `Proto`
(`Contents`), reads each field from the values it has there (`ValueRead`), and
compares with what proto3 can carry of the message (`Carried`); records of other
fields must not occur (`IsCopy`). Every value has the range of its Go type
(`IsValue`: words, `int64` seconds, 32 bits in a fixed32), and a fixed width has
the bytes for it (`WidthsAssumption`). There is one nested type,
with a scalar and an optional. A message as one field is the same code whatever
the others are, so each message type of a run has one field, or the oneof, or a
mixture.

**Generator.** An option is a record in the raw unknown bytes of an `Options`
message, which is how the plugin reads its own extensions: in order, and only up
to a group. A file has messages at top level (`msgs`), which `GenerateFile`
visits, and messages declared inside these (`inner`), of which only the name and
the options matter: `GenerateFile` does not come to them, but `analyzeField`
accepts a reference to one that has `(codec.type)`. `Annotated` is both, so the
model emits calls that nothing answers, as the code does. Names, types and casts
are values that the checks of the analyzer tell apart. A Go file is, per message, the decisions its methods embody: the
fields in the loop of `MarshalCodecInternal` (`loop`) and in the switch of a
oneof (`cases`), the fields the prologue keeps and the nil-out pass clears
(`kept`), those whose arm sets a bit (`marked`), and whether `UnmarshalCodec`
makes a slab. These are taken by different emitters from the same `FieldInfo`s, and the properties
say that they agree.

**Contract.** The code's fields (`started`, `iterations`, `iterStart`,
`totalLat`, `preMem`) stand beside what an observer would count (`ran`, `own`,
`since`, `spent`). Mallocs happen at any time, by the body or by others;
`b.Loop` takes time of its own.

## Runs

| Run | Shows | Bounds |
|---|---|---|
| `ReceiverReuse` | a scalar, an optional, a `*T`, a `T` and a `[]*T`: every decode reads as one into a new receiver (`DecodesAsFresh`); absent pointers are nil (`AbsentIsNil`); the same input twice in a row allocates, the second time, one object for each optional set in an element or in a message held by value, and nothing else (`WarmDecodeAllocatesUnpooled`) | 2 occurrences per input, any number of decodes, failures and resets |
| `ReceiverElements` | `[]*T` and `[]T` whose elements hold optionals and oneofs, a repeated scalar, a map, and an optional with a number above 63, which switches pooling off: `SpareIsBlank`, `CapacityNeverShrinks`, `DecodesAsFresh` | 3 occurrences, 1 slot of slack per allocation |
| `ReceiverOneof` | a oneof with scalar, `*T` and `T` branches, reset between decodes: `KindFollowsWire`, `MarshalIsSafe`, `DecodesAsFresh` | 3 occurrences |
| `DecoderParse` | accepted inputs and their content are what the reference reads, at every depth (`DecodeIsParse`); the cursor comes out at the end of each record (`CursorOnRecord`); a nil slice is made as large as it will be (`PrescanExact`); a string is cut from where the message lies in the slab (`SlabHolds`); all loops and calls end (`Terminates`) | 30888 inputs and receivers: all sequences of up to 4 bytes over tags and lengths that matter, wrapped once or twice in messages, entries and bodies (`MCDecoder`) |
| `EncoderPasses` | the write pass ends at the size (`FitsExactly`); a short buffer stays untouched and a longer one behind the message (`WritesOnlyTheMessage`); calls for one message agree byte by byte (`Deterministic`); the bytes read back as the message (`RoundTrips`) | 2 callers, symmetric; each field alone with each sample value, several fields together, each branch of the oneof; buffers of 0, 6 and 250 bytes |
| `Generator` | a file is generated whole or not at all (`FilesAreWhole`), calls no method that is missing, other than those of annotated messages declared inside messages (`DanglingCallsAreInner`), writes each field in one place (`WrittenOnce`), pools in three places the same fields (`PooledIsMarked`), declares finite types unless told otherwise (`ValueCyclesAreAskedFor`) and makes a slab where a string is below (`StringsHaveSlab`); every file settles | two files with three messages and messages inside these, 11088 requests with right and wrong annotations |
| `Contract` | a pass bounds the body's allocations (`PassBoundsAllocs`), a failure is about the loop (`AlarmIsReal`), the latency is of the bodies (`LatencyIsOfBodies`) | 3 iterations, 5 mallocs, 3 ticks, ceilings 0 and 1, declared before or in the loop |
| `EncoderDoubles` | *violated:* a double in a map comes back without its fraction | |
| `ReceiverNilBranch` | *violated:* without a reset a discriminator survives a decode; it then selects a `*T` that is nil, and `MarshalCodec` dereferences it | |
| `ReceiverWideAbsent` | *violated:* with pooling off an absent `*T` stays non-nil | |
| `DecoderCutVarint` | *violated:* a varint cut by its packed body is accepted | |
| `GeneratorInnerMessage` | *violated:* a field may refer to an annotated message declared inside a message, whose methods are called and never emitted (`CallsResolve`) | |

The five violated runs each check one sentence of the repository's documents or
comments that the code does not keep; `PROJECT.json` quotes them. The fixtures
meet none of them: they decode well-formed input once per receiver or reset
between decodes, and none has a map of doubles or an annotated message inside a
message.

Some properties are stated with a condition, and the condition is where the code
does something else than a reader may expect:

* `DecodeIsParse`, `CursorOnRecord`: a packed body that ends inside an element is
  completed from the bytes behind it, or its remainder is taken for a tag; a map
  entry whose key or value has the wrong wire type is read as if it had not.
* `WarmDecodeAllocatesUnpooled`: an element's optional slots are given up by its
  reset, so "no per-element allocation" (REQ-088, `codec.md:107`) holds for
  elements without optionals only.
* `FilesAreWhole`: a file has the methods of its annotated messages at top level;
  those of messages declared inside others are never emitted, which
  `GeneratorInnerMessage` is about. `DanglingCallsAreInner` says that this is the
  only way a call can be left without a target.
* `PooledIsMarked`: an optional Timestamp or Duration is pooled by the prologue
  and set to nil at the end, but no arm marks it, and it is a `time.Time`: what is
  emitted is no Go.
* `RoundTrips`: an empty `*T` comes back as absent, the Unix epoch as
  `time.Time{}`, a time without its zone; the source comments on the first two.
* `PassBoundsAllocs`: the average is an integer, so a pass with a ceiling of
  zero still allows all but one iteration an allocation; the property gives the
  bound that does hold. `AlarmIsReal` and `LatencyIsOfBodies` hold of ceilings
  declared before the loop, as the package's comment shows it.

Seen while reading, without a run of their own, because nothing in the models
tells the two readings apart or the text alone is concerned: `go.md:81-82` and
`codec.md:57` (REQ-016) say that `use_pointer = false` on a self-referential
field is ignored, and `analysis.go:382-385` rejects it; an `optional string`
or `optional bytes` is accepted (`analysis.go:295-297`) and sent to
`generatePresenceFieldUnmarshal`, which has no code for it, although
`gen_unmarshal.go:576` says "WireLenDel unreachable for proto3 optional scalars":
the arm that is emitted is no Go; doubles outside of maps take the same
conversion; sint keys and values of maps are not zigzagged; `repeated` well-known
types are treated as singular; maps to messages have no emitter; of two imports
with one package alias the first wins (`analysis.go:460-471`).

What the references do not see, since they share it with the code: `Proto` reads
a varint with `VarintValue`, so that bits of its last byte beyond a word are
dropped is in both; `FreshDecode` lets a message that occurs twice replace the
first, as the code does, where proto3 merges; and of an entry whose key or value
has the wrong wire type `CursorOnRecord` says where the cursor comes out and
nothing says what was read. `PROJECT.json` lists these without a property.

**Why the bounds are enough.** `MaxWire` bounds one input, not the history: the
runs explore any number of decodes, failures and resets. Three occurrences allow
two of one field and one of another, or one of every branch of the oneof; two
allow a field and a different one in either order, and the same one twice.
Elements: three live elements followed by a shorter message leave spare slots in
front of older ones. `MaxSlack` 1 gives both a slice with and one without room
left. Two scalar values are the default, which is not written, and another.
The proofs then drop all of these bounds. For the decoder, four bytes hold a tag,
a length and a body with an element cut off inside it, or two records; wrapped,
they are messages in messages, with a scalar before or behind them so that the
offset of a slice in the slab is neither zero nor that in the caller's slice.
The tags cover each field in each right and wrong wire type. The encoder never
looks at two fields at once: what a field adds depends on its value and on the
offset it starts at. So every sample value alone, and one message with several
fields and each branch, meet each arm at offset zero and behind others. Maps have
up to three entries, all of their orders are tried, and two callers are the
fewest that can disagree. Buffers are empty, too short for most messages, and
longer than any. The generator's files share nothing but the set of annotated
names, so two files, one imported by the other, show what one failure does to
the other; two messages refer to one another, to themselves and to the other
file. A contract keeps no more of its history than sums, and three iterations
are enough for an average to be rounded down.

**Deadlock** is checked in the `Receiver`, `WarmPath` and `Encoder` runs. A decode,
a plugin run and a benchmark come to an end, so `CHECK_DEADLOCK FALSE` is set for
`Decoder`, `Generator` and `Contract`; that the first two stop nowhere else is
`Terminates` and `EveryFileSettles`.

**Fairness.** `Decoder` and `Generator` have `WF_vars(Next)`: the loops run in
one goroutine and wait for nothing, so a step that can be taken is taken.
`Receiver`, `Encoder` and `Contract` state none: their callers may stop calling
at any time.

## Proofs

*Receiver.* For every choice of field sets, values, payloads and bounds that
satisfies the named assumptions of `Nested` and `Receiver` (the field sets are
disjoint, the default is a value, `Nil` is none, and so on):

| Theorem | States |
|---|---|
| `TypeCorrect` | `Spec => []TypeOK` |
| `SpareAlwaysBlank` | `Spec => []SpareIsBlank` |
| `ReuseIsInvisible` | `Disciplined` implies `Spec => DecodesAsFresh`: the refinement |
| `PooledAbsentIsNil` | `PoolingEnabled` implies `Spec => []AbsentIsNil` |
| `ResetKindFollowsWire` | `ResetBetween` implies `Spec => []KindFollowsWire` |
| `ResetMarshalIsSafe` | `ResetBetween` implies `Spec => []MarshalIsSafe` |
| `RoomIsKept` | `Spec => CapacityNeverShrinks` |
| `WarmDecodesReuse` | `Poolable \cap Wide = {}` implies `WarmSpec => []WarmDecodeAllocatesUnpooled` |

The hypotheses are where the violated runs begin: without `ResetBetween` the
discriminator goes stale, and with pooling off an absent `*T` keeps its object.
`Disciplined` asks that a message with a oneof is reset between decodes, and
that singular nested messages do not carry oneofs. Repeated ones may: their
objects pass through `ResetCodec` on the way to the spare capacity, and
`SpareIsBlank` is what makes that enough.

*Inductive invariants.* `Slots` is `TypeOK /\ SpareIsBlank`. `TypeOK` alone is
inductive, but a blank slot stays blank only because rewinding empties typed
objects (`ResetKidIsNew`), so the two are proved together, action by action.
For the refinement, `RefInv` adds `NestedUnset` (a nested discriminator that
nobody clears is one nobody could have set) and `IdleUnset` (a new or reset
receiver has none): without the first, a nested message decoded into an old
object could show its old branch, without the second so could the receiver. The
step proof maps each action to one of `FreshDecode` or to a stutter; the key
lemma is `DecodeKidWire`, that a complete decode into any object without a
branch set says what the payload says, whatever optional slots the object held.
`KindWasRead` in `ReceiverProofs` says that during and after a decode the
discriminator is unset or names a field already in `seen`, and that every `*T`
in `seen` is not nil; both marshal results follow. `RoomIsKept` follows from
`Slots`: a rewound slice has a slot for each element and for each slot it had, an
element takes one slot over, and `append` is reached only when none is left.

`WarmDecodesReuse` compares two calls, so its invariant speaks of both: `Read`
says what a receiver holds of the input it has read (a pooled slot for each
occurrence, as many elements as there were), and `Warm` what the next decode
finds for as long as it reads the same input `Again`: the slots of the entries
to come, and a blank object for each element to come (`Stocked`), since the
prologue has put the old elements in front of the spare ones. Its hypothesis is
that no field number above 63 has switched pooling off; `InputAssumption` says
that the pointer `Nil` is no sequence.

*Wire*, for every width (so for the code's: 7 bits, 64 bits, 10 bytes) for which
the longest varint holds a word (`LengthAssumption`):

| Theorem | States |
|---|---|
| `VarintRoundTrip` | `DecodeVarint` of what `EncodeVarint` wrote for `x`, at any offset of any buffer, consumes exactly those bytes and yields `x` |
| `SizeIsLength` | `SizeVarint(x)` is the length of `EncodeVarint(x)`, for every word |
| `ZigzagRoundTrip` | `Unzigzag` of `Zigzag` is the number, for every word of even size |
| `SkipStaysInside` | `SkipField` fails, or consumes at least one byte and none past the end, for every content and wire type |

`EncodeVarint` is a recursive function, whose values no prover unfolds by itself;
the proof takes the least number for which the round trip would fail and
contradicts it with the one seven bits shorter (`Least` of `Induction`). The
lemmas about records and sequences of records that the decoder's and the
encoder's proofs share are there too.

*Decoder*, for every input and every schema whose fields have one kind each, and
in which packed fields are repeated and neither single varints nor well-known
types are (`DecoderAssumption`), at any depth of nesting:

| Theorem | States |
|---|---|
| `TypeCorrect` | `Spec => []TypeOK`: no cursor, and no end of a run or an entry, leaves the slice of its call |
| `SlabInStep` | `Spec => []SlabHolds`: the slab and the offset handed down agree with the bytes each call reads |
| `OnRecords` | `Spec => []CursorOnRecord`: as long as no packed body is cut, whichever arm read a record, the main loop goes on where the record ends |
| `CountsExact` | `Spec => []PrescanExact`: when every record of a slice is whole, the pre-scan counted the elements that the main loop appended |
| `ParsesInput` | `Spec => []DecodeIsParse`: what is decoded, and which inputs are errors, is what the reference reads |

`Inv` says of every call, the running one and those on the stack, that its slice
is the piece of the input at its offset, and that a nested slice ends inside its
parent's; with `SkipStaysInside` it is inductive, and the first two follow.
`RInv` adds the records: `AtRecord` (the cursor is at an offset where
records begin), `InRecord` (a run or an entry ends where its record does; the
same of a parent that `Waits`), `RunLeft` (what a run has still to read), and
`Scanning`/`Scanned` (the counts are those of the records passed). The records
are a recursive function of the slice; the lemmas about them go by strong
induction on the bytes left.

`DecodeIsParse` speaks of the final state only, so `MInv` says what is true on
the way, for an input without cut packed bodies and mistyped entries: of every
call, how many records of its slice it has taken, that all of these are sound
(`Taken`), and that it holds what they leave (`Holding`); in a run, that what is
stored and what the rest of the body says make up the whole of the record
(`InRun`); in an entry, that key and value are those of the records read
(`InEntry`); of a call on the stack, that it is inside the record whose body the
call above it reads (`Nests`), and, so that an error deep down is one of the
input, that whatever lies inside an accepted message is accepted (`Nested`). A
step then takes one record more, and the meaning of its items is the
reference's, arm by arm. `Meaning` recurs over all byte sequences;
that it satisfies its own equation is itself proved (`MeaningDef`), by strong
induction on the length, for a body is shorter than the message it is cut from.

*Encoder*, for any fields, messages, buffers and callers:

| Theorem | States |
|---|---|
| `PassesAgree` | for every field and every value, and the keys of a map in any order, `FieldBytes` has the length that `FieldSize` counts |
| `TypeCorrect` | `Spec => []TypeOK` |
| `NeverOverruns` | `Spec => []FitsExactly`: the write pass never passes the end of its buffer, and ends where the size pass said |
| `LeavesTheRest` | `Spec => []WritesOnlyTheMessage` |
| `SameBytes` | `Spec => []Deterministic` |
| `ReadsBack` | `Spec => []RoundTrips`, for messages whose map doubles have no fraction (`WholeNumbers`) |

They assume that a message is what the Go type can hold (`IsMessage`), and that
no length reaches a word, which Go's slices are too small for: of a string
(`Short`) and of a packed body (`MessagesAssumption`). The argument:
`PassesAgree` goes kind by kind, down to `SizeIsLength`. A pass follows the
message's `Plan`, its fields in order and the oneof last. `CallOK`, the inductive
invariant of one call, says that after `k` fields the size pass holds the sum of
their sizes (`SizeTo`), and the write pass that as its offset and the
concatenation of their bytes in front of it (`BytesTo`). Neither depends on the
caller or on the order of a range, since the emitted code sorts the keys
(`SameKeysSameBytes`); determinism is that.

`ReadsBack` says the same of what is in front of the offset. `Spelt` is the
bytes of a sequence of records, and `SpeltContents` (in `WireProofs`) that
`Contents` takes such bytes apart into these records again: a tag is read back by
`VarintRoundTrip`, and `SkipField` ends where the record does. `Told` says of a
field and a value that its bytes are spelt records of that field, and that what
`ValueRead` makes of their values is what is carried of the value; `FieldTold`
proves it kind by kind. The inner parts come from the same lemmas one level down:
a nested message, a time and an entry of a map are spelt records themselves
(`KidCopies`, `TimeCopies`, `SpanCopies`, `EntryCopies`), a packed body is cut into
its scalars again (`PackedCopies`), and a fixed width holds its number
(`NumberRoundTrip`, from `WidthsAssumption`). A field that the guards leave out
has no record, and reads as what is carried of it (`DefaultCarried`).
`MessageSpelt` puts the fields of the `Plan` together; since the oneof has at
most one record, its branch is that of the last. `WholeNumbers` is needed: the
code drops the fraction of a double in a map, which is the run `EncoderDoubles`.

*Generator*, for every request that protoc accepts (`RequestAssumption`; for
`MarshalOnce` and `SlabWhereNeeded` also `NamesAssumption`, that names and
numbers are unique):

| Theorem | States |
|---|---|
| `TypeCorrect` | `Spec => []TypeOK` |
| `AllOrNothing` | `Spec => []FilesAreWhole` |
| `TopLevelCallsHaveTargets` | `Spec => []DanglingCallsAreInner` |
| `MarshalOnce` | `Spec => []WrittenOnce` |
| `SlabWhereNeeded` | `Spec => []StringsHaveSlab` |
| `TypesAreFinite` | `Spec => []ValueCyclesAreAskedFor` |
| `PoolingAgrees` | `Spec => []PooledIsMarked` |

The inductive invariant `IInv` ties what has been gathered and emitted to the
request. `MessageBegun` and `FileBegun` say that the fields and messages passed
so far were not to be rejected, and are gathered whole and in order; `Settled`,
that a file's outcome is the one the request alone determines (`Outcome`), and
what is emitted for it comes from its annotated messages, in order. Every
property then follows from `Settled` and the emitters' definitions, by way of
`Origin`: each emitted message is that of one message of the request.

*Contract*, for all ceilings, and any number of iterations, mallocs and ticks:

| Theorem | States |
|---|---|
| `TypeCorrect` | `Spec => []TypeOK` |
| `GateBoundsAllocs` | `Spec => []PassBoundsAllocs` |
| `GateAlarmIsReal` | `Spec => []AlarmIsReal` |
| `GateLatencyIsOfBodies` | `Spec => []LatencyIsOfBodies` |

`IInv` says that the counters measure what they are taken to measure
(`iterations = ran`, `AllocsMeasured`, `LatencyMeasured`) as long as no ceiling
was declared late, and bound the body's share otherwise; `FloorBounds` carries this through the division.

*Only model-checked:* `Terminates` and `EveryFileSettles`: liveness under fairness
is out of the prover's reach. The properties of the runs that expect a violation
are refuted, not proved.

## Plan

Done, in this order, by what can go wrong in the emitted code: the receiver and
its refinement, the warm path, the wire, the decoder, the encoder, the
well-known types, the generator, the contracts, and the proofs above. Left:

1. `Receiver` with objects on a heap, for message types that contain themselves
   (`Tree`).
2. `WarmPath`: the buckets of maps, the slab and the buffers of bytes.

## Not modelled

Formatting of error texts, import qualification, Go identifiers, and the text of
the emitted Go: text, no state. Floats and the widths of integer types: scalars
are numbers that fit. Maps to messages, for which there is no emitter. A
`sync.Pool` of receivers is the caller's: `doc.go` says how to use one, and no
code of the repository does. Races on one receiver: the contract forbids them.
Measured time and memory. The conformance suite: assertions over the generated
methods, which are stated here of the code itself. `main`, scripts and CI.
