------------------------------ MODULE Decoder ------------------------------
(***************************************************************************)
(* The Unmarshal methods goserdegen emits, in both of its modes, run on an *)
(* arbitrary buffer.  One action decodes one field expression, as one      *)
(* branch of unmarshalExpr emits it; nested structs and union members are  *)
(* calls of their own Unmarshal method on the rest of the buffer.          *)
(*                                                                         *)
(* A type is a name; Schema gives its shape.  The values decoded are left  *)
(* out: what is kept is every read, guard, offset, count, call, return and *)
(* error.                                                                  *)
(***************************************************************************)
EXTENDS Integers, Sequences

CONSTANTS
  Type,       \* names of the types of the generated package
  Schema,     \* the shape of each type, see Shape
  Roots,      \* the structs whose Unmarshal the user calls
  Input,      \* buffers: data is the backing array from b[0] on, len is len(b)
  Safe,       \* TRUE for goserdegen -safe
  MaxInt,     \* the largest int; a uint64 goes up to 2 * MaxInt + 1
  ReadUvarint(_)  \* codec.Uvarint: value n and byte count c read from a sequence

Kind == { "fixed", "block", "string", "bytes", "slice", "array",
          "pointer", "map", "struct", "union", "owned" }

(***************************************************************************)
(* size  : bytes of a fixed-width basic or [n]byte block, length of an     *)
(*         array                                                           *)
(* elems : the element, the key and value, the fields or the union members *)
(* bulk  : fast mode copies the elements (slice, array) or the struct as   *)
(*         one block of memory, raw bytes for each                         *)
(***************************************************************************)
Shape == [kind : Kind, size : Nat, elems : Seq(Type), bulk : BOOLEAN, raw : Nat]

NoErr == "nil"
ErrShortBuffer == "ErrShortBuffer"
ErrUnknownUnionTag == "ErrUnknownUnionTag"
ErrOwned == "ErrOwned"    \* whatever a hand-written codec returns
Errors == { NoErr, ErrShortBuffer, ErrUnknownUnionTag, ErrOwned }

ASSUME MaxIntAssumption == MaxInt \in Nat
ASSUME SafeAssumption == Safe \in BOOLEAN

\* A schema fieldsOf and supported accept.
ASSUME SchemaAssumption ==
  /\ Schema \in [Type -> Shape]
  /\ \A t \in Type :
       /\ Schema[t].kind \in { "slice", "array", "pointer" } => Len(Schema[t].elems) = 1
       /\ Schema[t].kind = "map" => Len(Schema[t].elems) = 2
       /\ Schema[t].kind = "fixed" => Schema[t].size > 0

ASSUME RootsAssumption ==
  Roots \subseteq { t \in Type : Schema[t].kind = "struct" }

\* No buffer is longer than an int can say.
ASSUME InputAssumption ==
  Input \subseteq [data : Seq(Nat), len : Nat]
  /\ \A x \in Input : x.len <= Len(x.data) /\ Len(x.data) <= MaxInt

\* What the decoder relies on of codec.Uvarint: a uint64, and a count that
\* never goes past the bytes it was given.
ASSUME UvarintAssumption ==
  \A x \in Input : \A o \in 0 .. x.len :
    LET r == ReadUvarint(SubSeq(x.data, o + 1, x.len))
    IN  /\ r.n \in Nat /\ r.n <= 2 * MaxInt + 1
        /\ r.c \in Int /\ r.c <= x.len - o

VARIABLES
  root,     \* the type whose Unmarshal the user called
  in,       \* the buffer it was called with
  base,     \* where b of the running method starts in the buffer
  off,      \* base + i of the running method
  todo,     \* what the running method still has to decode, in order
  callers,  \* the methods waiting for it, innermost first
  phase,    \* "run", "failed" while an error is returned, "done", "panic"
  err,      \* the error being returned
  made,     \* the last element count given to make
  raised    \* history: the first error any method returned

vars == <<root, in, base, off, todo, callers, phase, err, made, raised>>

Frame == [base : Nat, todo : Seq(Type)]

-----------------------------------------------------------------------------
(***************************************************************************)
(* Go's bounds checks.  An index and the start of b[i:] are checked        *)
(* against the length, the end of b[i:j] only against the capacity.        *)
(***************************************************************************)
InSlice(o) == base <= o /\ o <= in.len

Indexable(o, n) == base <= o /\ o + n <= in.len

Sliceable(o, n) == base <= o /\ n >= 0 /\ o + n <= Len(in.data)

ToInt(n) == IF n > MaxInt THEN n - 2 * (MaxInt + 1) ELSE n

ToUint(n) == IF n < 0 THEN n + 2 * (MaxInt + 1) ELSE n

\* Mutant: the capacity is taken for the length.
GuardNCapacity(n) == Safe => Len(in.data) - off >= n

\* The emitted guards: nothing in fast mode.
GuardN(n) == Safe => in.len - off >= n

\* Mutants: the comparison is made in int; the capacity is taken for the
\* length; a payload that ends with the buffer is refused.
GuardLenSigned(o, nn) == Safe => in.len - o >= ToInt(nn)
GuardLenCapacity(o, nn) == Safe => ToUint(Len(in.data) - o) >= nn
GuardLenStrict(o, nn) == Safe => ToUint(in.len - o) > nn

GuardLen(o, nn) == Safe => ToUint(in.len - o) >= nn

-----------------------------------------------------------------------------
(***************************************************************************)
(* The outcomes of one field expression.                                   *)
(***************************************************************************)
Running == phase = "run" /\ todo # <<>>

This == Schema[Head(todo)]

Bulk == ~Safe /\ This.bulk

\* Mutant: the count of elements is taken for the count of bytes.
ByteCountElements(n) == n

\* Bytes of n elements that are copied as one block.
ByteCount(n) == This.raw * n

Advance(o, more) ==
  /\ off' = o
  /\ todo' = more \o Tail(todo)
  /\ UNCHANGED <<root, in, base, callers, phase, err>>

\* return i, e
Fail(o, e) ==
  /\ off' = o
  /\ phase' = "failed"
  /\ err' = e
  /\ raised' = IF raised = NoErr THEN e ELSE raised
  /\ UNCHANGED <<root, in, base, todo, callers, made>>

Panic ==
  /\ phase' = "panic"
  /\ UNCHANGED <<root, in, base, off, todo, callers, err, made, raised>>

-----------------------------------------------------------------------------
(***************************************************************************)
(* A length prefix or a union tag.                                         *)
(***************************************************************************)
\* Mutant: a truncated prefix reads as -1 instead of 0.
PrefixMinusOne ==
  LET r == ReadUvarint(SubSeq(in.data, off + 1, in.len))
  IN  IF r.c = 0 THEN [r EXCEPT !.n = -1] ELSE r

Prefix == ReadUvarint(SubSeq(in.data, off + 1, in.len))

\* Mutant: the count of a bad prefix is used unchecked.
PrefixReadUnchecked == InSlice(off)

PrefixRead == InSlice(off) /\ (Safe => Prefix.c > 0)

AfterPrefix == off + Prefix.c

\* An empty []byte, slice or map is nil and skips the length guard.
Empty == Prefix.n = 0 /\ This.kind # "string"

\* The prefix itself cannot be read.
BadPrefix ==
  /\ Running
  /\ This.kind \in { "string", "bytes", "slice", "map", "union" }
  /\ \/ ~InSlice(off) /\ Panic
     \/ InSlice(off) /\ Safe /\ Prefix.c <= 0 /\ Fail(off, ErrShortBuffer)

\* The length exceeds what is left of the buffer.
ShortLength ==
  /\ Running
  /\ This.kind \in { "string", "bytes", "slice", "map" }
  /\ PrefixRead /\ ~Empty /\ ~GuardLen(AfterPrefix, Prefix.n)
  /\ Fail(AfterPrefix, ErrShortBuffer)

NilValue ==
  /\ Running
  /\ This.kind \in { "bytes", "slice", "map", "union" }
  /\ PrefixRead /\ Empty
  /\ Advance(AfterPrefix, <<>>)
  /\ UNCHANGED <<made, raised>>

Payload ==
  /\ Running
  /\ This.kind \in { "string", "bytes" }
  /\ PrefixRead /\ ~Empty /\ GuardLen(AfterPrefix, Prefix.n)
  /\ \/ /\ Sliceable(AfterPrefix, ToInt(Prefix.n))
        /\ Advance(AfterPrefix + ToInt(Prefix.n), <<>>)
        /\ UNCHANGED <<made, raised>>
     \/ ~Sliceable(AfterPrefix, ToInt(Prefix.n)) /\ Panic

Slice ==
  /\ Running
  /\ This.kind = "slice"
  /\ PrefixRead /\ ~Empty /\ GuardLen(AfterPrefix, Prefix.n)
  /\ \/ Prefix.n > MaxInt /\ Panic
     \/ /\ Prefix.n <= MaxInt /\ ~Bulk
        /\ made' = Prefix.n
        /\ Advance(AfterPrefix, [k \in 1 .. Prefix.n |-> This.elems[1]])
        /\ UNCHANGED raised
     \/ /\ Prefix.n <= MaxInt /\ Bulk
        /\ Sliceable(AfterPrefix, ByteCount(Prefix.n))
        /\ made' = Prefix.n
        /\ Advance(AfterPrefix + ByteCount(Prefix.n), <<>>)
        /\ UNCHANGED raised
     \/ /\ Prefix.n <= MaxInt /\ Bulk
        /\ ~Sliceable(AfterPrefix, ByteCount(Prefix.n))
        /\ Panic

\* The count is captured before the loop: decoding an entry reuses nn.
Map ==
  /\ Running
  /\ This.kind = "map"
  /\ PrefixRead /\ ~Empty /\ GuardLen(AfterPrefix, Prefix.n)
  /\ made' = Prefix.n
  /\ Advance(AfterPrefix,
             [k \in 1 .. (2 * Prefix.n) |-> This.elems[IF k % 2 = 1 THEN 1 ELSE 2]])
  /\ UNCHANGED raised

\* The member a known tag selects is decoded like a struct field.
Union ==
  /\ Running
  /\ This.kind = "union"
  /\ PrefixRead /\ ~Empty
  /\ \/ /\ Prefix.n <= Len(This.elems)
        /\ Advance(AfterPrefix, <<This.elems[Prefix.n]>>)
        /\ UNCHANGED <<made, raised>>
     \/ Prefix.n > Len(This.elems) /\ Fail(AfterPrefix, ErrUnknownUnionTag)

-----------------------------------------------------------------------------
(***************************************************************************)
(* Expressions without a prefix.                                           *)
(***************************************************************************)
Fixed ==
  /\ Running
  /\ This.kind = "fixed"
  /\ \/ ~GuardN(This.size) /\ Fail(off, ErrShortBuffer)
     \/ /\ GuardN(This.size) /\ Indexable(off, This.size)
        /\ Advance(off + This.size, <<>>)
        /\ UNCHANGED <<made, raised>>
     \/ GuardN(This.size) /\ ~Indexable(off, This.size) /\ Panic

\* [n]byte
Block ==
  /\ Running
  /\ This.kind = "block"
  /\ \/ ~GuardN(This.size) /\ Fail(off, ErrShortBuffer)
     \/ /\ GuardN(This.size) /\ Sliceable(off, This.size)
        /\ Advance(off + This.size, <<>>)
        /\ UNCHANGED <<made, raised>>
     \/ GuardN(This.size) /\ ~Sliceable(off, This.size) /\ Panic

Array ==
  /\ Running
  /\ This.kind = "array"
  /\ \/ /\ ~(Bulk /\ This.size > 0)
        /\ Advance(off, [k \in 1 .. This.size |-> This.elems[1]])
        /\ UNCHANGED <<made, raised>>
     \/ /\ Bulk /\ This.size > 0 /\ Sliceable(off, ByteCount(This.size))
        /\ Advance(off + ByteCount(This.size), <<>>)
        /\ UNCHANGED <<made, raised>>
     \/ Bulk /\ This.size > 0 /\ ~Sliceable(off, ByteCount(This.size)) /\ Panic

Pointer ==
  /\ Running
  /\ This.kind = "pointer"
  /\ \/ ~GuardN(1) /\ Fail(off, ErrShortBuffer)
     \/ GuardN(1) /\ ~Indexable(off, 1) /\ Panic
     \/ /\ GuardN(1) /\ Indexable(off, 1)
        /\ Advance(off + 1, IF in.data[off + 1] # 0 THEN This.elems ELSE <<>>)
        /\ UNCHANGED <<made, raised>>

-----------------------------------------------------------------------------
(***************************************************************************)
(* Calls.  A blittable struct's own method is one copy of min(raw, len(b)) *)
(* bytes that claims raw bytes, whatever the buffer held.                  *)
(***************************************************************************)
\* Mutant: the caller does not go on to its next field.
EnterAgain ==
  /\ base' = off
  /\ todo' = This.elems
  /\ callers' = <<[base |-> base, todo |-> todo]>> \o callers
  /\ UNCHANGED <<root, in, off, phase, err, made, raised>>

Enter ==
  /\ base' = off
  /\ todo' = This.elems
  /\ callers' = <<[base |-> base, todo |-> Tail(todo)]>> \o callers
  /\ UNCHANGED <<root, in, off, phase, err, made, raised>>

Struct ==
  /\ Running
  /\ This.kind = "struct"
  /\ \/ ~InSlice(off) /\ Panic
     \/ /\ InSlice(off) /\ Bulk
        /\ Advance(off + This.raw, <<>>)
        /\ UNCHANGED <<made, raised>>
     \/ InSlice(off) /\ ~Bulk /\ Enter

\* A hand-written codec: any count within its buffer, with or without error.
Owned ==
  /\ Running
  /\ This.kind = "owned"
  /\ \/ ~InSlice(off) /\ Panic
     \/ /\ InSlice(off)
        /\ \E n \in 0 .. (in.len - off) : Advance(off + n, <<>>)
        /\ UNCHANGED <<made, raised>>
     \/ InSlice(off) /\ Safe /\ Fail(off, ErrOwned)
     \/ /\ InSlice(off) /\ ~Safe
        /\ \E n \in 0 .. (in.len - off) : Advance(off + n, <<>>)
        /\ raised' = IF raised = NoErr THEN ErrOwned ELSE raised
        /\ UNCHANGED made

\* return i, nil to the emitted call of a nested method, or to the user
Return ==
  /\ phase = "run" /\ todo = <<>> /\ callers # <<>>
  /\ base' = Head(callers).base
  /\ todo' = Head(callers).todo
  /\ callers' = Tail(callers)
  /\ UNCHANGED <<root, in, off, phase, err, made, raised>>

\* Mutant: the error of a nested method is dropped in safe mode too.
ReturnErrorDropped ==
  /\ phase = "failed" /\ Len(callers) > 1
  /\ base' = Head(callers).base
  /\ todo' = Head(callers).todo
  /\ callers' = Tail(callers)
  /\ phase' = "run" /\ err' = NoErr
  /\ UNCHANGED <<root, in, off, made, raised>>

\* return i, err to an emitted call: safe mode returns the error with the i of
\* the caller, fast mode discards it and goes on behind the failed member
ReturnError ==
  /\ phase = "failed" /\ Len(callers) > 1
  /\ base' = Head(callers).base
  /\ todo' = Head(callers).todo
  /\ callers' = Tail(callers)
  /\ \/ Safe /\ off' = base /\ UNCHANGED <<phase, err>>
     \/ ~Safe /\ phase' = "run" /\ err' = NoErr /\ UNCHANGED off
  /\ UNCHANGED <<root, in, made, raised>>

Finish ==
  /\ \/ phase = "run" /\ todo = <<>> /\ callers = <<>>
     \/ phase = "failed" /\ Len(callers) = 1
  /\ phase' = "done"
  /\ UNCHANGED <<root, in, base, off, todo, callers, err, made, raised>>

-----------------------------------------------------------------------------
Init ==
  /\ root \in Roots
  /\ in \in Input
  /\ base = 0 /\ off = 0
  /\ todo = <<root>>
  /\ callers = <<>>
  /\ phase = "run"
  /\ err = NoErr
  /\ made = 0
  /\ raised = NoErr

Next ==
  \/ BadPrefix \/ ShortLength \/ NilValue \/ Payload \/ Slice \/ Map \/ Union
  \/ Fixed \/ Block \/ Array \/ Pointer
  \/ Struct \/ Owned \/ Return \/ ReturnError \/ Finish

Spec == Init /\ [][Next]_vars

\* One goroutine runs the method, and nothing in it blocks.
FairSpec == Spec /\ WF_vars(Next)
-----------------------------------------------------------------------------
(***************************************************************************)
(* Properties.                                                             *)
(***************************************************************************)

\* Every variable keeps its type, in both modes, whatever the buffer holds.
TypeOK ==
  /\ root \in Roots
  /\ in \in Input
  /\ base \in Nat
  /\ off \in Int
  /\ todo \in Seq(Type)
  /\ callers \in Seq(Frame)
  /\ phase \in { "run", "failed", "done", "panic" }
  /\ err \in Errors
  /\ made \in Nat
  /\ raised \in Errors

\* The methods waiting for the running one started before it, in order.
Nested ==
  \A k \in 1 .. Len(callers) :
    callers[k].base <= IF k = 1 THEN base ELSE callers[k - 1].base

\* A safe-mode Unmarshal panics on no input at all, and neither a read nor the
\* count it returns goes beyond len(b), even where the backing array is longer.
SafeInBounds ==
  Safe => /\ phase # "panic"
          /\ base <= off /\ off <= in.len

\* In safe mode a length prefix never makes Unmarshal allocate for more
\* elements than the buffer has bytes: guardLen comes before make.
AllocBounded == Safe => made <= in.len

\* The error a nested Unmarshal meets first is the one the user gets, and no
\* error is invented on the way up.
ErrorReported == phase = "done" => err = raised

\* The inductive invariant of safe mode: SafeInBounds survives an unwinding
\* error because the waiting methods are nested, and ErrorReported because no
\* method goes on after an error.
SafeInv ==
  Safe => /\ SafeInBounds
          /\ Nested
          /\ phase = "run" => err = NoErr /\ raised = NoErr
          /\ phase # "run" => err = raised

\* An unknown tag anywhere in the value reaches the user: the promise of
\* ErrUnknownUnionTag, which is made for both modes.
UnknownTagReported ==
  phase = "done" /\ raised = ErrUnknownUnionTag => err = ErrUnknownUnionTag

\* Unmarshal always returns or panics, on recursive types too: the recursion
\* consumes the buffer.
Terminates == <>(phase \in { "done", "panic" })

\* What a caller sees of Unmarshal is a cursor that only moves forward inside
\* the buffer until the one outcome is returned.
Contract == INSTANCE Cursor WITH
  limit <- in.len,
  pos <- off,
  outcome <- err,
  state <- CASE phase = "run" -> "reading"
             [] phase = "failed" -> "failing"
             [] phase = "done" -> "returned"
             [] phase = "panic" -> "panicked"

ImplementsCursor == Contract!Spec
=============================================================================
