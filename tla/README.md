# goserde: a verification development

goserde is a code-generated binary serializer for Go. `goserdegen` reads the
annotated structs of a package and emits, for each, four methods (`Size`,
`Marshal`, `Append`, `Unmarshal`) in one of two modes: *fast* trusts its input
and copies blocks of memory, *safe* checks every read. The generated methods
call the primitives of package `codec`.

This directory models the emitted methods as state machines, the primitives they
rest on, and the combinations of calls that the format's promises are about:
encode then decode, decode twice, decode truncated, decode again into a variable
that was decoded into before. How the generator classifies types is a function of
declarations, and the generator itself a step in the life of a package that its
user keeps editing. TLC checks all of it on small packages; TLAPS proves the
safety of the safe-mode decoder for every package, every buffer and every word
size, that it decides alike on every buffer that starts with the same encoding and
refuses every one that ends before it, that a destination used again keeps its memory apart and never writes to an
input buffer or to an excluded field in both modes, the two promises of the generator for every package
and every history, that `Size`, `Marshal` and `Append` agree on the number of bytes of
every value in both modes, and that varints, zigzag and little-endian words are lossless
for every width.

## 1. Inventory

| component | source | state | operations |
|---|---|---|---|
| wire primitives | `codec/primitives.go` | none; loop indices and the word being assembled | `PutUvarint`, `AppendUvarint`, `Uvarint`, `UvarintSize`, `PutU16..U64`, `AppendU16..U64`, `U16..U64`, `Zig`, `Zag` |
| float helpers | `codec/float.go` | none | bit casts |
| codec API | `codec/api.go` | none | `Bytes`, `Into`, `From`; the interfaces `Marshaler`, `Unmarshaler` |
| emitted encoder | `emit.go` `sizeExpr`, `marshalExpr`, `appendExpr`, `emitBlit*` | `s` of `Size`; `b`, `i` of `Marshal`; `b` of `Append` | one step per field expression |
| emitted decoder | `emit.go` `unmarshalExpr`, `guardN`, `guardLen`, `emitVarint`, `emitBlitUnmarshal` | `b`, `i`, `nn`, `cc`, the destination, the Go call stack | one step per field expression, nested calls, early returns |
| type classification | `emit.go` `supported`, `fieldsOf`, `fixedSize`, `memCopyable`, `isFixedWidth`, `blittable`, `blitElem` | none | decides which branch of the emitters a type takes |
| generator driver | `main.go` | targets, owned set, unions, the output file | `run`, `load`, `detectOwned`, `resolveUnions`, `generate` |
| hand-written `Record` | `codec/record.go` | as the emitted methods | the same four methods |
| benchmarks, example | `benchcompare/`, `example/` | none of goserde's own | |

How they interact. The generator runs before the program is compiled; it decides
by *type classification* which branch each field gets, and its output is the
encoder and the decoder. At run time everything is one goroutine walking one
value: `Bytes` calls `Size` and then `Marshal`; `Into` calls `Append`; `From`
calls `Unmarshal`. A struct, a union member and a blittable element are calls of
another type's method on the rest of the buffer, and a type whose methods are
hand-written ("user-owned") is such a call into foreign code. There is no
concurrency, no persistence and no timer in the library: what is hard is that
three walks of one value must agree byte for byte with a fourth walk of the
bytes, that each walk has two implementations per branch, and that the decoder
meets bytes nobody wrote. What outlives a call is the destination: `Unmarshal`
writes into whatever slices, maps, pointees and members an earlier call, or its
user, left there, and in fast mode leaves strings and `[]byte` that are views of
the input.

What makes each part right:

- *wire primitives*: `UvarintSize` bytes are enough for `PutUvarint` at every power
  of 128; what was written reads back from exactly those bytes; a truncated
  sequence, a too large one and a word are told apart; every signed integer has a
  zigzag of its own, the smallest included; the three functions of each
  width, every shift in them written out by hand, agree on the order of its bytes.
- *encoder*: `Marshal` of a buffer of `Size` bytes neither panics nor returns
  another count; nothing is written outside; `Append` appends the same.
- *decoder*, safe mode: no panic, no read past `len(b)` even where the capacity
  is larger, no allocation the buffer cannot justify, the error of a nested
  method reaches the user, a truncated value is `ErrShortBuffer`. Fast mode:
  right on every encoding that safe mode accepts.
- *destination*: a decode gives what it would give in a zero value, whatever was
  there; slots never come to share memory; fields tagged `goserde:"-"` and input
  buffers are never written; a value decoded in safe mode does not depend on the
  buffer.
- *both*: the round trip, part by part.
- *type classification*: a type is copied as a block only where the block is the
  element-wise encoding and holds nothing but serialized fields; what is accepted
  has a branch in each emitter, at any depth.
- *hand-written `Record`*: it writes and reads what the generated codec of the
  same fields does.
- *generator driver*: no method is emitted twice or not at all, whoever wrote the
  others and under whatever name; a run can always be repeated.

`PROJECT.json` lists the hazards behind these, each at its line.

## 2. Modules

| module | role |
|---|---|
| `Varint` | the varint functions as pure operators over a word of any size: `Cont` is 0x80, `LastIdx` 9, `LastMax` 1 |
| `VarintLoop` | `PutUvarint` and `Uvarint` one loop iteration per action |
| `VarintProofs` | the theorems about `VarintLoop`, `Varint` and `Words` |
| `Words` | zigzag and little-endian words, each of the nine functions with its own shifts, for any size `2 * Half` of a word and `Base` of a byte |
| `Decoder` | the emitted `Unmarshal`, both modes, one action per branch of `unmarshalExpr` |
| `Loops` | the emitted `Unmarshal` with its local `nn` and its loops one iteration at a time; implements `Decoder` |
| `Cursor` | what `codec.Unmarshaler` promises; the abstract specification of the safe-mode `Decoder` |
| `DecoderProofs` | the theorems about `Decoder` |
| `DecodePair` | two decodes of one buffer: safe on the whole, then safe or fast on a prefix |
| `DecodePairProofs` | the theorems about `DecodePair` |
| `Encoder` | the emitted `Size`, `Marshal` and `Append` walking one value in turn |
| `Record` | the hand-written codec of `codec.Record`, as functions |
| `EncoderProofs` | the lemmas about `Encoder`: an invariant for the three walks of a value, and the trails two walks of it share |
| `EncodeDecode` | `Encoder` and `Decoder` composed: what one wrote is given to the other; `Record` beside them |
| `EncodeDecodeProofs` | the theorems about the byte counts of `Size`, `Marshal` and `Append` and the bytes of the last two, in both modes; what `Unmarshal` reads where a step of these wrote |
| `RoundTripProofs` | the theorem about the round trip, in both modes |
| `Destination` | `Decoder` composed with memory: what each step stores, in one variable that is decoded into again and again |
| `DestinationProofs` | the theorems about `Destination`, those about excluded fields last |
| `TypeClass` | which types are accepted, which branch each takes, which are copied as a block |
| `MCPackage` | the Go package the runs use, as declarations that `TypeClass` turns into shapes: a type for every branch of the emitters; all buffers, a 5-bit word |
| `MCValues` | the values of these types that are encoded |
| `Generator` | `goserdegen` between the edits of its user |
| `GeneratorProofs` | the theorems about `Generator`, and about the blocks `TypeClass` lets fast mode copy |
| `MCDecoder`, `MCLoops`, `MCDecodePair`, `MCEncoder`, `MCEncodeDecode`, `MCDestination`, `MCGenerator` | the instances TLC runs |

### Decoder

A type is a name, and `Schema` gives its shape: a kind (a branch of
`unmarshalExpr`), a size, its parts, and whether fast mode copies it as a block
of `raw` bytes per element. The state of the emitted methods appears as follows.

| variable | code |
|---|---|
| `in.data`, `in.len` | the backing array from `&b[0]` on, and `len(b)`: slice expressions are bounded by the first, indices by the second |
| `base`, `off` | `b` of the running method starts at `base`; its `i` is `off - base` |
| `todo` | the rest of the running method: the fields and elements still to decode |
| `callers` | the Go call stack, each frame with its `base` and the rest of its method |
| `phase`, `err` | running; returning an error; returned; panicked; and the error |
| `made` | the last count given to `make` |
| `raised` | history: the first error any method returned |

One action is one field expression: prefix, guards, reads and the advance of `i`
together, with every outcome (next expression, `return i, err`, panic) a
disjunct. `Struct` and `Union` enter or select another type; `Return` and
`ReturnError` are the emitted call sites, where safe mode passes an error on and
fast mode drops it (`nnn, _ :=`). `Owned` is a hand-written codec: any count
inside its buffer, with or without an error. The values decoded are left out:
no property of `Decoder` distinguishes them, and `EncodeDecode` recovers them
from the bytes.

`SafeInBounds`, `AllocBounded`, `ErrorReported` and the refinement of `Cursor`
are statements about safe mode, `UnknownTagReported` about what the documentation
says of errors, and `Terminates` about both modes.

### Loops

`Decoder` reads a count and puts all the elements or entries it says into `todo` at
once. The code keeps a loop instead, and one `nn` for every prefix of the method: the
count of a map has to be put aside (`cnt := nn`) before its keys and values, which read
their own lengths into `nn`. `Loops` is the same method with that state, and takes
from `Decoder` what each expression does (`Dec!...`).

| variable | code |
|---|---|
| `nn` | `nn` of the running method |
| `loops` | the loops it is in, innermost first: the body, the bound, the index, and what follows the loop |
| `todo` | here only the rest of the innermost body |
| `outer` | `nn` and `loops` of the methods that wait |

`StartLoop` fixes the bound, `Iterate` compares the index with it, `StartMethod` and
`EndMethod` give each call variables of its own. `ImplementsDecoder` says that with the
loops unrolled (`Ahead`) every behaviour is one of `Decoder`, so that each loop runs as
often as the prefix in front of it said whatever was read meanwhile: that is what the
other modules presume when they build on `Decoder`. The remaining variables are
those of `Decoder`, and `TypeOK` includes its type invariant. `cc` is used at once
and is not kept.

### Encoder

A value has the shape of its type: bytes, a sequence of parts, `<<>>` or `<<v>>`
for a pointer, a set of pairs for a map, a tag and a member for a union. `todo`
is the walk, and `pass` says which of the three methods walks. The three have
actions of their own for each branch, because the code has: `Size` multiplies
where `fixedSize` is known, `Marshal` copies blocks where the mode allows,
`Append` pushes. A map is ranged over in an order picked anew by each pass.
`Marshal`'s writes are of two sorts: bytes put by index panic when there is no
room, bytes put by `copy` stop where the buffer ends. `CallMarshal` is `Bytes`,
or a caller with a buffer up to `Spare` bytes longer or shorter; `CallAppend` is
`Into` or a caller that appends to something.

### Compositions

`DecodePair` keeps two copies of the decoder's variables, so that its invariants
relate two decodes; `fast` picks the mode of the second. `EncodeDecode` gives the
decoder what `Marshal` or `Append` wrote, in the mode `safe` of both, and history
variables record, in order, each basic, string, block, count, tag and flag as
`Marshal` or `Append` writes it and as `Unmarshal` reads it; `RoundTrip` compares
them. `SameOrderSameBytes` is what remains of "the same bytes" for `Append`: it
compares whenever the two happened to range over each map in the same order.
`LikeTheTemplate` compares the generated codec of a struct with the fields of
`codec.Record` with the hand-written one, call by call and also for a buffer
that is too short; it does so in fast mode, the mode `record.go` is written in.

### Destination

`Decoder` says what is read and where the method goes next; `Destination` takes
its steps as they are and adds what each stores. Memory is a map from locations
(an object and a path of field numbers and indices) to bytes and to references;
a reference has an object, an offset, a length and a capacity, as a slice has.

| variable | code |
|---|---|
| `mem["used"]` | the memory of the user: `raw` bytes, `refs`, map `entries`, the next object |
| `mem["fresh"]` | the same steps on a variable that is zero at each call, for comparison |
| `dest` in each | the left-hand sides (`ref`) of the running method's expressions, in the order of `todo` |
| `after` in each | the assignments `m[k] = v` and `ref = v` still to come, each with the number of expressions that are left when it is due |
| `waiting` in each | both of these for the methods that wait |
| `input` | the array the last message was decoded from; older ones stay in `raw` |
| `calls`, `edited` | bound on the calls; whether the user has changed the variable since the last |

Each `Store...` is one branch of `unmarshalExpr`: `append(ref[:0], ...)` for
`[]byte` in safe mode, a view in fast mode, `ref[:nn]` where the capacity
suffices, `clear` of a map, a pointee or a member of the right type reused. The
user decodes from a new buffer or refills the last one, reslices a slice, sets
excluded fields, and in `SpecWithDelete` also deletes an element by moving the
last one into its place. `DecodesAsFresh` compares the two memories as
`reflect.DeepEqual` compares values, when no method met an error: after one,
fast mode may return nil and show fields of an earlier value (`nested_tag`), and
safe mode returns the error. Two limits of the promise are the code's own and
hold in the model: an excluded field of a slice element survives only while the
array is reused, one of a map value never. Keys of maps are basics or strings,
and `append` takes exactly the capacity it needs. `Buffers` is what the user's
buffers may come to hold when messages are written over one another.

### TypeClass

A declaration says what `go/types` knows of a type; `Supported`, `FixedSize`,
`MemCopyable`, `IsFixedWidth`, `Blittable` and `BlitElem` are the functions of
`emit.go`, and `ShapeOf` is the branch of the emitters with its sizes, the
`Schema` of the other modules. `AcceptedIsHandled` compares `Generates`, the
checks as the code nests them, with a closure over all values the emitted methods
visit. `BlocksAreWire` is about the platform: the memory of an `int` has 4 or 8
bytes, its encoding 8.

### Generator

| variable | code |
|---|---|
| `marked` | the structs with the directive, as `collectMarked` finds them |
| `hand`, `pasted` | the codec methods the user's files declare, and those that are moved generated code |
| `used` | the structs whose codec other non-test code of the package calls |
| `file` | each generated file: absent, unparsable, or the codecs it declares |
| `result` | what the last run returned, "none" after an edit |
| `ran`, `since` | history: the output name of the last run that succeeded, and what happened after it |

`Others(out)` is what `load` parses: every file but the output. The outcomes of
`conf.Check` that depend on codecs are `Redeclared` and `Unresolved`; other type
errors are the user's and are left out. `Loads` is the sequence of early returns
of `load`, `resolveUnions` and `detectOwned`, `FieldsSupported` that of `fieldsOf`. The
error returned does not matter, so their order does not. A run succeeds, fails
before it writes, or is cut short in `os.WriteFile`. The user marks, unmarks,
writes and removes methods, calls codecs, adopts a generated codec, and loses or
breaks a generated file, in any order. One union stands for all of the package.

## 3. Runs

The package of `MCPackage` has a struct for each branch: fixed-width fields and
`[n]byte`; strings and `[]byte`; slices of strings, of fixed-width elements and
of blittable structs; arrays of each, nested and empty; maps; pointers, also
recursive ones; unions, nested and with a member beyond a one-byte tag; an empty
struct; a hand-written codec. A byte is 0..7 with 2 payload bits and a word is
0..31 with `MaxInt` 15: two-byte and three-byte varints, negative conversions
and overflowing varints all fit into 4-byte buffers.

| run | question | instance |
|---|---|---|
| `decode_safe` | `SafeInv`, `SafeInBounds`, `AllocBounded`, `ErrorReported`, `ImplementsCursor`, `Terminates` in safe mode | every buffer of 4 bytes over {0,1,2,4,7}, every length 0..4 |
| `decode_fast` | `TypeOK`, `ImplementsDecoder` and `Terminates` of `Loops` in fast mode | every buffer of 3 bytes over the same, fifteen structs, among them loops in loops and loops around calls |
| `pair` | `PrefixStable`, `TruncatedIsShort`, `FastAgrees` | every buffer of 4 bytes over {0,1,2,7}, every prefix, both modes |
| `varint_loop` | `RoundTrip`, `ReadsAsDefined`, `WritesAsAppend` of the loops; `SignedRoundTrip`; `LittleEndian` | every word, and every sequence of up to one byte more than a word needs; a word of 8 bits: groups of 3 bits for the varint, and bytes of 1 bit for the words, so that each of the eight bytes of a `U64` counts |
| `codec` | `RoundTrip`, `SizeExact`, `NoPanicInSize`, `WritesInPlace`, `AppendsSize`, `SameOrderSameBytes`, `LikeTheTemplate`, `BlocksAreWire` | both modes, maps of up to two entries, buffers of `Size` - 1 to `Size` + 1 bytes |
| `nested_tag` | violation of `UnknownTagReported` | fast mode |
| `empty_elements` | violation of `PrefixStable` | a slice of empty structs |
| `append_maps` | violation of `AppendMatchesMarshal` | maps of two entries |
| `generator` | `OneCodecEach`, `Regenerates`; `AcceptedIsHandled` | a struct that holds another and a union, two usable output names and a rejected one, two method names; some 62,000 packages for the last |
| `adopt` | violation of `AdoptionRegenerates` | the same struct and outputs |
| `reuse` | `DecodesAsFresh`, `OneOwner`, `OwnsBytes`, `InputUntouched`, `ExcludedKept` | twelve structs, both modes, three decodes of three or four messages each, truncated ones and unknown tags among them, one change by the user before each |
| `deleted_element` | violation of `DecodesAsFresh` | the same with two decodes and a user who deletes elements |

`VarintLoop` has a scale of its own, given in its configuration: there a word is 0..255,
a byte 0..15 with 3 payload bits, and a varint has up to three bytes.

Why the bounds are enough. A buffer of 4 bytes holds a prefix of every width, a
payload, a nested struct and a byte behind it; the guards compare at most two
numbers, so a wrong comparison shows at a difference of one; the deepest call
chain that matters for errors (root, struct, union, member) and two levels of a
recursive type fit. For `Loops`, 3 bytes hold the count of
a map and the length in its first key, after which a count that was overwritten
shows. The values 4 and 7 have the continuation bit, so truncated and overflowing prefixes and lengths above `MaxInt` occur. The decoder's theorems
do not have these bounds. For the encoder, strings of length 0, 1 and 4 and
slices of up to 4 elements have prefixes of one and two bytes, and the fourth
union member has a two-byte tag.

For the destination, three decodes are a long value, a shorter one and one that
needs the capacity again, the shortest sequence in which an element that was cut
off comes back; the messages of a type differ in every length and byte, so a part
that is left over shows.

For the generator, two methods tell a partial set from none and from all, and
two output names are the least with which an old output is read as if the user
had written it; nothing in it is bounded, its state space is finite.

`CHECK_DEADLOCK FALSE` in every configuration of the codec: each behaviour is one
call, or one sequence of calls, that ends. The generator's are checked for
deadlock.

Fairness. `FairSpec` adds `WF_vars(Next)`: the method runs on one goroutine,
nothing in it blocks or waits for another, so the Go scheduler lets a step that
is enabled happen. Only `Terminates` uses it.

## 4. What the runs found

- **Unknown tags below a nested struct** (`nested_tag`). `ErrUnknownUnionTag` is
  documented for both modes, but a fast-mode caller discards the error of a
  nested `Unmarshal` and goes on at a misaligned offset; the whole decode may
  return nil.
  (The comment emitted above a fast-mode `Unmarshal`, emit.go:654, says its error
  is always nil; a union field of the struct itself does return one, as
  primitives.go:53 documents.)
- **Elements without bytes** (`empty_elements`). `guardLen` takes each element
  for at least one byte. A slice of empty structs is rejected by the safe-mode
  decoder when its encoding ends the buffer, and accepted when more bytes
  follow. `codec` therefore leaves this type out in safe mode.
- **Append and Marshal of maps** (`append_maps`). "The same bytes" holds up to
  the order of map entries only.
- **Adopting a codec with nested types** (`adopt`). The README's way to own the
  generated methods is to cut them out of the generated file. If the struct has a
  nested struct or a union field, the moved methods call methods that only the
  generated file declares; the next run type-checks without that file and fails.
  Any other call of a generated method from non-test code of the same package has
  the same effect.
- **An element that was deleted** (`deleted_element`). The README asks the user
  of a destination that is reused not to alias its pointers and members. A slice
  is reused up to its capacity, so what lies behind its length counts too: after
  `s[0] = s[n-1]; s = s[:n-1]` the next longer message is decoded into the same
  pointee, or the same bytes of a `[][]byte`, twice, without an error.

## 5. Proofs

`DecoderProofs` proves, for every `Type`, `Schema`, `Roots`, `Input`, `MaxInt`
and `Uvarint` that meet the assumptions of `Decoder`:

| theorem | states |
|---|---|
| `TypeCorrect` | `Spec => []TypeOK`, both modes |
| `SafeInvariant` | `Spec => []SafeInv` |
| `NeverOutOfBounds` | `Spec => []SafeInBounds`: safe mode never panics or leaves the buffer |
| `AllocationBounded` | `Spec => []AllocBounded` |
| `ErrorsReachTheUser` | with `Safe`, `Spec => []ErrorReported` |
| `SafeImplementsCursor` | with `Safe`, `Spec => ImplementsCursor` |

`DecodePairProofs` proves, for every `Type`, `Schema`, `Roots`, `Input`, `MaxInt`
and `Uvarint` that meet the assumptions of `DecodePair`:

| theorem | states |
|---|---|
| `TruncatedNotAccepted` | `Spec => []TruncatedIsShort`, if the codecs of all types decoded are generated |
| `PrefixesDecodeAlike` | `Spec => []PrefixStable`, if moreover elements of slices and keys of maps take a byte at least |

`EncodeDecodeProofs` proves, for every `Type`, `Schema`, `Roots`, `Values`, `Spare` and
`Before`, every set `Items` and functions `depth` and `rank` with `Encodable(Items, depth,
rank)`, and both modes:

| theorem | states |
|---|---|
| `SizeIsExact` | `Spec => []SizeExact` |
| `NoPanicWithSize` | `Spec => []NoPanicInSize` |
| `BytesInPlace` | `Spec => []WritesInPlace` |
| `AppendIsSize` | `Spec => []AppendsSize` |
| `OrderIsAll` | `Spec => []SameOrderSameBytes` |

`RoundTripProofs` proves, for the same constants and both modes, with every `R` and `B`:

| theorem | states |
|---|---|
| `ValuesSurvive` | `Spec => []RoundTrip`, if moreover prefixes read back (`PrefixesRead(Items, Seq(Nat))`) and no length in safe mode is larger than the bytes behind it (`LengthsFit(R, B)`) |

`DestinationProofs` proves, for every `Type`, `Schema`, `Roots`, `Excluded`,
`Messages`, `Buffers`, `MaxInt` and `Uvarint`, any number of calls and both modes:

| theorem | states |
|---|---|
| `MemoryInvariant` | `Spec => []MemoryInv`, the inductive invariant of the two memories |
| `OneOwnerAlways` | `Spec => []OneOwner` |
| `InputStays` | `Spec => InputUntouched` |

It also proves, for the same constants and both modes, where `BlocksAreWhole` holds
(no struct that fast mode copies as a block, and no element of a slice it copies so, has an
excluded field):

| theorem | states |
|---|---|
| `ExcludedInvariant` | `Spec => []ExcludedInv`, the inductive invariant of the excluded fields |
| `ExcludedFieldsKept` | `Spec => ExcludedKept` |

`GeneratorProofs` proves of `TypeClass`, for every package `Go` whose declarations name
declared types (`Declarations`):

| theorem | states |
|---|---|
| `BlocksHoldSerialized` | `BlocksAreWhole`, of the shapes `ShapeOf` makes of the package, with `Skipping` for the excluded; of elements of arrays too |

It proves of `Generator`, for every `Type`, `Fields`, `HasUnion`, `Members`,
`Method`, `Out` and `BadOut`:

| theorem | states |
|---|---|
| `EveryTargetHasOneCodec` | `Spec => []OneCodecEach` |
| `StaleOutputIsHarmless` | `Spec => []Regenerates` |

`VarintProofs` proves, for every `Cont`, `LastIdx`, `LastMax`, `MaxLen`, `Half` and
`Base` (the sizes of a group, of a word, of a buffer and of a byte):

| theorem | states |
|---|---|
| `UvarintInverse` | `Uvarint(UvarintBytes(w) \o s) = [n |-> w, c |-> UvarintSize(w)]` |
| `UvarintInSlice`, `UvarintOfPrefix` | what the decoder's theorems assume of `Uvarint` |
| `LoopInvariant` | `Spec => []LoopInv`, the inductive invariant of the two loops |
| `RoundTripHolds`, `ReadsAsDefinedHolds`, `WritesAsAppendHolds`, `SignedRoundTripHolds`, `LittleEndianHolds` | `Spec => []P` for the five properties of `varint_loop` |

It also proves of `Words`, for every `Half` and `Base`:

| theorem | states |
|---|---|
| `ZigZagInverse` | `Zag(Zig(v)) = v`, and `Zig(v)` is a word, for every signed `v` |
| `LittleEndianInverse` | behind any bytes, `U16`, `U32` and `U64` read the word that was appended there, for every word of their width |

Assumptions of `Decoder`. The schema is one `fieldsOf` accepts (a slice, array or pointer has
one part, a map two, a basic at least one byte); no buffer is longer than an
`int` can say; `Uvarint` returns a `uint64` and a count that never passes the
bytes it was given. TLC evaluates all of them in `decode_safe`, the last for the
scaled `Uvarint` of `Varint`. `DecodePair` assumes also that a prefix of a buffer is
one, and that `Uvarint` reads a varint alike from every slice that has all of its
bytes and not at all from a shorter one. The hypotheses of its theorems are operators
of the module: `Generated(R)` says that the types in `R` have generated codecs
and parts in `R`; `ElementsTakeBytes(R, W)` gives a set `W` of types whose values
take a byte (a block or array that is not empty, a struct with a field in `W`, any
kind with a prefix or flag) and says that the elements of slices and the keys of maps
are in it. TLC evaluates all of these in `pair` (`ProofsApply`), and `empty_elements`
shows that `PrefixStable` needs the second. `Destination` assumes the same of what its user
decodes, and that `Buffers` holds every message and every buffer a message makes
of one of them; TLC evaluates both in `reuse`. `BlocksAreWhole` is a statement about the
schema alone. Without it the theorem is false: a struct copied as a block takes all its
fields along. `BlocksHoldSerialized` proves it of every schema that `TypeClass` computes,
and TLC evaluates it, with `Declarations`, for the package of the runs in `codec`; in
`reuse` the mutant of `Blittable` that lets go of it breaks `ExcludedKept`. `Encodable` is the hypothesis of the
encoder's theorems, an operator of `Encoder`: the schema is one `fieldsOf` accepts and no
array contains itself (`Schemas`, `ArraysEnd`); what is copied as a block takes as many
bytes in memory as its fields or elements take on the wire (`BlocksAreFlat`: no padding,
which the model leaves out, and in structs that are blocks an `int` of 64 bits); the
values have the shapes of their types, finitely deep, and none has a part with a
hand-written codec, whose `Size` may say anything (`Trees`); and the counts and tags have
prefixes as long as `UvarintSize` and the generator's `uvarintLen` say
(`PrefixesFit`, of which `UvarintInverse` is the general statement). TLC evaluates all of
it in `codec` (`EncoderHypotheses`), on the package and the values of the run.
`EncodeDecode` itself assumes that buffers are filled with naturals, and of its schema what
`Decoder` does; of `Uvarint` it assumes nothing.
`ValuesSurvive` has two hypotheses more, operators of `EncodeDecode`. `PrefixesRead` says
that `Uvarint` reads each count and tag that is written back from exactly the bytes
`PutUvarint` gives it, whatever follows; `UvarintInverse` proves that of `Varint`, for every
sequence of naturals behind it. It says also that a count is at most `MaxInt`, as the length
of a Go value is. `LengthsFit` gives a set `R` of types, closed and
with the roots of safe mode in it, and a set `B` of types whose values take a byte: the
elements of slices and the keys of maps in `R` are in `B`. It is what `guardLen` presumes,
and without it the theorem is false: a slice of empty structs at the end of its encoding
is refused (section 4). Fast mode needs no such thing. TLC evaluates both in `codec`
(`DecoderHypotheses`), the first with up to two bytes behind the prefix, the second for
all types but the slice of empty structs and the struct that has one.
`Generator` assumes only the types of its constants
and that there is a codec method. `Words` assumes that `Half` and `Base` are positive.
`Varint` assumes that a group has a whole number of bits and at least one, that a word has
more than one group, and that the last group's maximum is one of a group; `VarintLoop` that
a word is twice `Half`. The assumption on `Uvarint` of `Decoder` and `DecodePair` is not left
to TLC's instance: `UvarintInSlice` and `UvarintOfPrefix` prove it of `Varint`.

The argument for the decoder. `SafeInBounds` is not inductive: while an error unwinds, `off`
becomes the `i` of each caller in turn, and it stays in the buffer only because
the frames on the stack are nested (`Nested`). `ErrorReported` is not either: it
needs that no method goes on after an error, so that `err` is `raised` from the
first failure on. `SafeInv` adds these. Each branch is then one step of the
proof: the guard gives `len(b) - i >= n`, and for a length prefix the comparison
in `uint64` gives `nn <= len(b) - i`, from which `int(nn)` is `nn` and the slice
expression, `make` and the new `i` are in bounds. `AllocBounded` follows from the
same fact, and the refinement from the invariant with one lemma per action.

The argument for the two decodes. In safe mode a step is determined by the buffer and
by where the running method is (`Now`: `base`, `off`, `todo` and `callers`); where its
guards pass (`Fits`), the next place is `Successor`, and where they do not, the step
fails with `ErrShortBuffer` unless a tag was read that is unknown (`SafeStepIs`). Two
runs at one place do not stay in step, as the first is over when the second starts.
So the invariant `PairInv` keeps the set of places the first decode has been at, each
but the last with its successor (`Trace`), and says that the second, as long as it is
not refused, is at one of them. Guards that pass in the prefix passed in the buffer to
the same effect (`SameSuccessor`), so it stays among them; the only place of the set
where an accepting method can end is the last one, so it consumes as many bytes. That
gives `TruncatedIsShort`: the count is within the prefix, and a tag that can be read in
the prefix is the one that was known in the buffer (`KnownTag`). `PrefixStable` needs
that the prefix is refused only if it ends before `off`, although `guardLen` compares
the bytes left with a count of elements. The weight of what is to do is the number
of expressions in it that take a byte; the offset plus the weight never falls along
the trace (`SuccessorOwes`), and at the end the weight is zero. So at each place
the offset plus the weight of the elements to come is at most `off` (the sums over
the waiting methods are part of the invariant, as a function on the stack), and a prefix
with `off` bytes passes each guard (`EnoughFits`).

The argument for the destination. `OneOwner` speaks of references that are there;
it is not inductive, because a map entry or a union member is assigned only after
it was decoded, and because a reference decides where later stores go. `MemoryInv`
strengthens it in four ways. Every reference *and every member about to be
assigned*, of the running method and of those that wait, is a claim of one location
on one object below `next`, and no object has two claims (`ClaimedOnce`). `dest`
has as many places as `todo` has expressions, in every frame, each assignment is
due while there is still work it can be reached from, and the object a place lies
in is never an input (`Aligned`). The references that a safe-mode `append` writes
through are to arrays of their own, views exist in fast mode only (`MemoryOK`).
The buffer being decoded is in memory as it is in `in` (`Holds`), and the two
memories have the same assignments due (`InLockstep`). `DecoderProofs` says what a
step makes of `todo`, `callers` and the prefix (`StepKinds`, `PartsStep`); then each
branch of `unmarshalExpr` allocates, claims and places (`StoresMemory`), or repeats
the claim its own location had (`StillClaimedOnce`). `InputStays` follows: a store
goes to a place, to a new object or, by `append`, into an array safe mode owns.

The argument for the excluded fields. A field is overwritten in two ways only: as part
of a block that holds it, or because its location is handed out to something else.
`ExcludedInv` rules out both by where a field that is set (a *mark*) can be: in the
variable itself, or one step into an array that was the backing array of a slice of such
structs when the user set it (`MarksOK`). Such an array may outlive the slice's
elements, be cut from either end and be decoded into again, but it is claimed only by
slices of structs with an excluded field (`OnlySlices`); here `ClaimedOnce` of
`MemoryInv` is needed, since a second claim could be of another type. So a store to an
object a place owns, or to a new one, never hits a marked array unless it is a slice of
such structs, and then `BlocksAreWhole` has it decoded element by element
(`OwnObject`, `CarefulSlice`). What is planned is part of the invariant, in the methods
that wait too: each expression goes to an object without marks, to a struct of the right
type in a marked array, or further into one (`Planned`); parts of what is planned are
planned again (`ClearPart`), which no location of a mark is, as a mark ends in -1.

The argument for the classification. `fieldsOf` is a recursion over the list of fields
and `memCopyable` one over declarations. The first is the one function with its
recursion on the indices, found from the last to the first (`Downward`, `FromExists`);
a list as long as all the fields has left none out (`AllKept`). For the second it is
enough that a function with the recursion exists, also where a package declares an
array that contains itself: the least set of types closed under it (`CopyableExists`).

The argument for the generator. Both invariants are inductive together with the
shape of the state. `Regenerates` rests on one lemma, `OutputUnread`: a step that
changes one generated file changes nothing a run to that file reads, so a run
that was possible stays possible. `OneCodecEach` is established by `Run` alone: a
struct whose codec is emitted had no method in what was read (`NotOwned`), so
nothing is declared twice; every other target has a whole set there; and what an
emitted method calls is a target, by `FieldsSupported` and `resolveUnions`.

The argument for the words. `ZigIs` gets rid of the shifts: `ShiftLeftIs` says what
is left of `v << 1` in each quarter of the signed integers, and `Zig` comes to
`2 * v` or `-2 * v - 1`. For the bytes, each function is a list of shifts of its
own; the lemmas `BytesListed`, `AppendsAre`, `PutsAre` and `ReadsAre` bring the nine to one form, the
bytes of the low half followed by those of the rest, from what two shifts in a row do
(`ShiftsAre`). In that form `v` is its low byte and `Base` times the
rest; `Read16` and `Read32` say that a read gives the word but for what of it is
above the width (the invariant that makes each width follow from the one below),
and a word of the width has nothing above it (`BelowModulus`).

The argument for the varint. What is left of a word behind `k` groups is
`Left(w, k) == w \div Power(Cont, k)`, and everything about the loops is said with it:
`LoopInv` has the loop of `PutUvarint` at `v = Left(v0, i)` with the groups before `i`
in the buffer, and the loop of `Uvarint` at `x = Payload(buf, i)`, as long as `i` is an
index a word has. `UvarintSize`, which the code gets from the bit length, is the least
number of groups the word fits in (`SizeIs`: the powers of two around the word, and
`Cont` a power of two), so a group is the last one exactly if it is below `Cont`
(`LeftLast`), and no index is out of range. No shift drops a bit of a sum that is
returned, because it is below `Power(Cont, i)` (`PayloadBelow`, `AcceptedInWord`). And a
sum of the groups of a word plus what is left of it times the power is that word
(`CarriedPayload`), which with `LeftInWord` (the last group of a full word is at most
`LastMax`) is the round trip. The sums and powers are recursive functions: the
library's induction theorems cannot be instantiated, but its theorem that every set of
naturals has a least element (`NatLessThanWellFounded`) is about sets, and gives
`SetInduction` and, from the finite beginnings of a function, `PrimitiveRecursion`:
there is one function that starts at `c` and goes on by `h`.

The argument for the encoder. Each of the three walks goes through the value in an
order of its own, since a map is ranged over anew, and in steps of its own: `Size`
multiplies where `Marshal` copies a block and where, in safe mode, it visits each element.
So no relation between two walks is kept; each is compared with the *weight* of what it
has yet to visit. `W` gives each part of the value the bytes it takes on the wire, its own
(`OwnBytes`) and those of its parts, and `U` the unions of an undeclared type in it, on
which every walk stops. Both are defined by an equation (`Weighs`) over `Items`, all the
parts of the values; `BytesExist` builds a function for it from the least depth up, by
`NatLessThanWellFounded`, as the library's recursion cannot be instantiated. The facts
about weights are three. The sum over a map is the same in every order `SetToSeqs` has:
two such sequences are permutations of each other, and a sum is kept by a swap
(`EntriesShares`). A type with a `FixedSize` has that weight (`FixedWeighs`, by the rank
of arrays). And the memory of a block has as many bytes as its elements weigh
(`FlatWeighs`, `BlockWeighs`). The invariant `Agree` then says, with `Load(W, todo)` for
the sum of the weights to come: while `Size` runs, `size` and the load are the weight of
the value; from then on `size` is, and no undeclared union is left; while `Marshal` runs
in a buffer that is long enough, `i` and the load are `size`; while `Append` runs,
`Len(out)` and the load are `Len(before) + size`. Nothing behind `size` bytes of the buffer has
been changed, and `before` is where it was. One lemma per
action shows it inductive; `EncodeDecodeProofs` carries it to the composition, where both
modes of `Encoder` are instances and the decoder leaves its variables alone.

The argument for the bytes. Marshal leaves a *trail* (`Trail`): the set of its points, each
the parts of the value still to visit, what was recorded and the bytes written by then;
each but the last is followed by a point one turn on (`Passes`), and of two points one
starts with the other. Append walks in its own order, and may leave the trail at the first
map it ranges over otherwise; but from then on the two records differ for good. So the
invariant `Traced` says of Append only this (`Follows`): if what it has recorded is the
beginning of what Marshal recorded, it is at a point of the trail, with the same types to
come and the same bytes. That a step keeps it is `Determined`: of two values of one type
that record compatible parts, the turns write the same bytes and leave values of the same
types. No tree is compared with another: the trail is built as Marshal walks, one point
at a time, and followed one point at a time.

The argument for the round trip. Unmarshal follows a trail too: that of Marshal, or that of
Append, which is one as well. But where a trail has one list of what is left, Unmarshal
has a stack of methods, each with the rest of its own fields. The invariant `Reading` says
that the two agree (`Course`): there is a point of the trail whose bytes are as many as
were read, `off`, whose parts are those that were recorded of the reads, and whose list of
types left to visit is what the running method still decodes, then what its callers do
(`Stack`). A step from there is the step to the next point: behind the bytes of the point
the buffer has those of the next turn (`HoldsNext`), so a prefix is there and reads as it
was written, the guards pass, and what is read is what was recorded (`DecodeTakes`). In
safe mode a length is compared with the bytes that are left, so those must be as many as
the elements to come; each of these takes a byte (`TakesByte`), and none has an undeclared
union, since `Size` got through (`U`, as in `Agree`). A struct or a member with methods of
its own moves a frame on the stack and a return takes it off, with the types to come left as
they were (`DecodeCalls`, `DecodeReturns`). At the end no type is left, so the point is the
last one: `off` is `size` and the parts are all (`DecodeIsOver`). `DecoderProofs` has the
steps in terms of places of the buffer (`Now`, `Successor`), which here are one notion for
the two instances of `Decoder` (`SamePlace`, `ReadsIs`). No step fails, so no branch for
errors is ever taken.

What stays with TLC: `Terminates` (liveness); `ImplementsDecoder`, which unrolls
sequences of sequences, and `Loops` altogether (in fast mode, where no guard ends a loop early); `FastAgrees`, where a block that fast
mode copies in one step is a tree of steps in safe mode; of the values,
`LikeTheTemplate`; `DecodesAsFresh` and `OwnsBytes` of `Destination`, which
compare trees that are defined by recursion; and `AcceptedIsHandled` and
`BlocksAreWire` of `TypeClass`, which compare recursions over declarations. All of these
need an induction over trees.

## 6. Not modelled, and why

- What a caller does with the strings and `[]byte` that fast mode leaves in its buffer:
  the README of goserde leaves the buffer to the caller. `InputUntouched` is about what
  `Unmarshal` itself writes.
- Nil and empty: `Record.Unmarshal` leaves an empty `Blob` as a slice of length zero
  (record.go:142), generated code sets it nil (emit.go:719). `LikeTheTemplate` compares the
  parts that are read and the count.
- The bytes a `PutUvarint` leaves in the buffer before it panics: `Encoder` keeps the
  buffer of before the call.
- Floats: bit casts without a branch; a fixed-width field is the bytes it occupies.
- `time.Time`: a fixed-width field; the range of `UnixNano` is not modelled.
- Padding: the raw bytes of a blittable struct are its fields in a row.
- Cyclic pointers and typed nil union members: the encoder's values are trees.
- Named slices, maps and pointers that contain themselves without a struct in
  between: `supported` and the emitters recurse on them without end.
- The text of the generated file: names, imports, formatting. A field of a basic
  type of another package is emitted under a name that may not be imported.
- Parsing, directives in comments and import resolution in the generator; type
  errors that have nothing to do with codecs, hand-written methods with a wrong
  signature among them. A union directive whose members do not implement the
  interface (main.go:398), or that lists none (main.go:382), is refused by the
  generator and not part of `UnionsResolve`; packages of `Generator` have one union.
- The fields and the mode a codec was generated for: a user-owned codec, or one
  left over from another `-out`, goes stale when the struct changes.
- Concurrent use of one value or buffer: the code does not synchronize and
  documents nothing about it.
- Benchmarks and the example.

## 7. Plan

The order was: the decoder, because it meets input nobody wrote and the safe
mode's promise is about it; the encoder and the compositions; the generator;
destinations, classification, the hand-written codec and the primitives; then the
proofs, the round trip last. All of these are done. What is left is
proofs:

1. `FastAgrees`, from what `TypeClass` says of the sizes of blocks.
2. `BlocksAreWire` and `AcceptedIsHandled`, for packages whose declarations are
   well-founded.
