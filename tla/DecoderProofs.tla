--------------------------- MODULE DecoderProofs ---------------------------
(***************************************************************************)
(* Proofs about Decoder, for every schema, every set of buffers and every  *)
(* word size: type correctness in both modes, then what safe mode adds,    *)
(* then what both modes do in a buffer that holds an encoded value.        *)
(***************************************************************************)
EXTENDS Decoder, TLAPS

-----------------------------------------------------------------------------
(***************************************************************************)
(* What the head of the work list and the next prefix are.                 *)
(***************************************************************************)

\* The expression being decoded has a shape, and so has what follows it.
LEMMA HeadType ==
  ASSUME TypeOK, Running
  PROVE  /\ Head(todo) \in Type
         /\ This \in Shape
         /\ Tail(todo) \in Seq(Type)
  BY SchemaAssumption DEF TypeOK, Running, This

\* An offset inside b[0:len] may be handed to Uvarint.
LEMMA PrefixType ==
  ASSUME TypeOK, InSlice(off)
  PROVE  /\ Prefix.n \in Nat
         /\ Prefix.n <= 2 * MaxInt + 1
         /\ Prefix.c \in Int
         /\ Prefix.c <= in.len - off
  <1>1. in \in Input /\ in.len \in Nat
    BY InputAssumption DEF TypeOK
  <1>2. off \in 0 .. in.len
    BY <1>1 DEF TypeOK, InSlice
  <1> QED
    BY <1>1, <1>2, UvarintAssumption DEF Prefix

\* Decoding one expression replaces it by the expressions it is made of.
LEMMA AdvanceType ==
  ASSUME TypeOK, Running,
         NEW o \in Int, NEW more \in Seq(Type), Advance(o, more),
         made' \in Nat, raised' \in Errors
  PROVE  TypeOK'
  <1>1. more \o Tail(todo) \in Seq(Type)
    BY HeadType
  <1> QED
    BY <1>1 DEF TypeOK, Advance

LEMMA FailType ==
  ASSUME TypeOK, NEW o \in Int, NEW e \in Errors, Fail(o, e)
  PROVE  TypeOK'
  BY DEF TypeOK, Fail

LEMMA PanicType ==
  ASSUME TypeOK, Panic
  PROVE  TypeOK'
  BY DEF TypeOK, Panic

LEMMA CallerType ==
  ASSUME TypeOK, callers # <<>>
  PROVE  /\ Head(callers).base \in Nat
         /\ Head(callers).todo \in Seq(Type)
         /\ Tail(callers) \in Seq(Frame)
  <1>1. Head(callers) \in Frame /\ Tail(callers) \in Seq(Frame)
    BY DEF TypeOK
  <1> QED
    BY <1>1 DEF Frame

-----------------------------------------------------------------------------
(***************************************************************************)
(* Type correctness.                                                       *)
(***************************************************************************)

LEMMA ErrorNames ==
  { NoErr, ErrShortBuffer, ErrUnknownUnionTag, ErrOwned } \subseteq Errors
  BY DEF Errors

LEMMA InitType == Init => TypeOK
  <1> SUFFICES ASSUME Init PROVE TypeOK
    OBVIOUS
  <1>1. root \in Type
    BY RootsAssumption DEF Init
  <1> QED
    BY <1>1, ErrorNames DEF Init, TypeOK

\* A step of the decoder keeps every variable's type, in both modes.
LEMMA NextType == TypeOK /\ [Next]_vars => TypeOK'
  <1> SUFFICES ASSUME TypeOK, [Next]_vars
               PROVE  TypeOK'
    OBVIOUS
  <1> USE ErrorNames
  <1>off. off \in Int /\ made \in Nat /\ raised \in Errors /\ <<>> \in Seq(Type)
    BY DEF TypeOK
  <1>1. CASE BadPrefix
    BY <1>1, <1>off, FailType, PanicType DEF BadPrefix
  <1>2. CASE ShortLength
    BY <1>2, <1>off, PrefixType, FailType DEF ShortLength, PrefixRead, AfterPrefix
  <1>3. CASE NilValue
    <2>1. AfterPrefix \in Int
      BY <1>3, <1>off, PrefixType DEF NilValue, PrefixRead, AfterPrefix
    <2> QED
      BY <1>3, <2>1, <1>off, AdvanceType DEF NilValue
  <1>4. CASE Payload
    <2>1. ToInt(Prefix.n) \in Int
      BY <1>4, MaxIntAssumption, PrefixType DEF Payload, PrefixRead, ToInt
    <2>2. AfterPrefix \in Int
      BY <1>4, <1>off, PrefixType DEF Payload, PrefixRead, AfterPrefix
    <2>3. AfterPrefix + ToInt(Prefix.n) \in Int
      BY <2>1, <2>2
    <2> QED
      BY <1>4, <2>3, <1>off, AdvanceType, PanicType DEF Payload
  <1>5. CASE Slice
    <2> USE <1>5, <1>off DEF Slice
    <2>1. This.elems[1] \in Type /\ This.raw \in Nat
      BY HeadType, SchemaAssumption DEF This, Shape
    <2>2. Prefix.n \in Nat /\ AfterPrefix \in Int
      BY PrefixType DEF PrefixRead, AfterPrefix
    <2>3. [k \in 1 .. Prefix.n |-> This.elems[1]] \in Seq(Type)
      BY <2>1, <2>2
    <2>4. AfterPrefix + ByteCount(Prefix.n) \in Int
      BY <2>1, <2>2 DEF ByteCount
    <2> QED
      BY <2>2, <2>3, <2>4, AdvanceType, PanicType
  <1>6. CASE Map
    <2> USE <1>6, <1>off DEF Map
    <2>1. This.elems[1] \in Type /\ This.elems[2] \in Type
      BY HeadType, SchemaAssumption DEF This, Shape
    <2>2. Prefix.n \in Nat /\ AfterPrefix \in Int
      BY PrefixType DEF PrefixRead, AfterPrefix
    <2>3. [k \in 1 .. (2 * Prefix.n) |-> This.elems[IF k % 2 = 1 THEN 1 ELSE 2]]
            \in Seq(Type)
      BY <2>1, <2>2
    <2> QED
      BY <2>2, <2>3, AdvanceType
  <1>7. CASE Union
    <2> USE <1>7, <1>off DEF Union
    <2>1. Prefix.n \in Nat /\ AfterPrefix \in Int
      BY PrefixType DEF PrefixRead, AfterPrefix
    <2>2. Prefix.n # 0
      BY DEF Empty
    <2>3. This.elems \in Seq(Type)
      BY HeadType DEF Shape
    <2>4. Prefix.n <= Len(This.elems) => <<This.elems[Prefix.n]>> \in Seq(Type)
      BY <2>1, <2>2, <2>3
    <2> QED
      BY <2>1, <2>4, AdvanceType, FailType
  <1>8. CASE Fixed
    <2>1. off + This.size \in Int
      BY <1>8, <1>off, HeadType DEF Fixed, Shape
    <2> QED
      BY <1>8, <2>1, <1>off, AdvanceType, FailType, PanicType DEF Fixed
  <1>9. CASE Block
    <2>1. off + This.size \in Int
      BY <1>9, <1>off, HeadType DEF Block, Shape
    <2> QED
      BY <1>9, <2>1, <1>off, AdvanceType, FailType, PanicType DEF Block
  <1>10. CASE Array
    <2> USE <1>10, <1>off DEF Array
    <2>1. This.elems[1] \in Type /\ This.raw \in Nat /\ This.size \in Nat
      BY HeadType, SchemaAssumption DEF This, Shape
    <2>2. [k \in 1 .. This.size |-> This.elems[1]] \in Seq(Type)
      BY <2>1
    <2>3. off + ByteCount(This.size) \in Int
      BY <2>1 DEF ByteCount
    <2> QED
      BY <2>2, <2>3, AdvanceType, PanicType
  <1>11. CASE Pointer
    <2> USE <1>11, <1>off DEF Pointer
    <2>1. (IF in.data[off + 1] # 0 THEN This.elems ELSE <<>>) \in Seq(Type)
      BY HeadType DEF Shape
    <2>2. off + 1 \in Int
      OBVIOUS
    <2> QED
      BY <2>1, <2>2, AdvanceType, FailType, PanicType
  <1>12. CASE Struct
    <2> USE <1>12, <1>off DEF Struct
    <2>1. This.raw \in Nat /\ This.elems \in Seq(Type)
      BY HeadType DEF Shape
    <2>2. off + This.raw \in Int
      BY <2>1
    <2>3. CASE InSlice(off) /\ ~Bulk /\ Enter
      <3>1. [base |-> base, todo |-> Tail(todo)] \in Frame
        BY HeadType DEF TypeOK, Frame
      <3>2. off \in Nat
        BY <2>3 DEF TypeOK, InSlice
      <3>3. <<[base |-> base, todo |-> Tail(todo)]>> \o callers \in Seq(Frame)
        BY <3>1 DEF TypeOK
      <3> QED
        BY <2>1, <2>3, <3>2, <3>3 DEF Enter, TypeOK
    <2> QED
      BY <2>2, <2>3, AdvanceType, PanicType
  <1>13. CASE Owned
    <2> USE <1>13, <1>off DEF Owned
    <2>1. \A n \in 0 .. (in.len - off) : off + n \in Int
      OBVIOUS
    <2>2. (IF raised = NoErr THEN ErrOwned ELSE raised) \in Errors
      OBVIOUS
    <2> QED
      BY <2>1, <2>2, AdvanceType, FailType, PanicType
  <1>14. CASE Return
    BY <1>14, CallerType DEF Return, TypeOK
  <1>15. CASE ReturnError
    BY <1>15, CallerType DEF ReturnError, TypeOK
  <1>16. CASE Finish
    BY <1>16 DEF Finish, TypeOK
  <1>17. CASE UNCHANGED vars
    BY <1>17 DEF vars, TypeOK
  <1> QED
    BY <1>1, <1>2, <1>3, <1>4, <1>5, <1>6, <1>7, <1>8, <1>9, <1>10, <1>11,
       <1>12, <1>13, <1>14, <1>15, <1>16, <1>17 DEF Next

\* The type invariant holds of every codec, in both modes and on any input.
THEOREM TypeCorrect == Spec => []TypeOK
  <1> QED
    BY InitType, NextType, PTL DEF Spec

-----------------------------------------------------------------------------
(***************************************************************************)
(* What a step makes of the work list and of the calls, in both modes.     *)
(***************************************************************************)

\* The expressions that the expression at hand is made of.
Parts ==
  CASE This.kind \in { "fixed", "block", "string", "bytes", "struct", "owned" } -> <<>>
    [] This.kind = "slice" ->
         IF Bulk THEN <<>> ELSE [k \in 1 .. Prefix.n |-> This.elems[1]]
    [] This.kind = "array" ->
         IF Bulk THEN <<>> ELSE [k \in 1 .. This.size |-> This.elems[1]]
    [] This.kind = "pointer" -> IF in.data[off + 1] # 0 THEN This.elems ELSE <<>>
    [] This.kind = "map" ->
         [k \in 1 .. (2 * Prefix.n) |-> This.elems[IF k % 2 = 1 THEN 1 ELSE 2]]
    [] This.kind = "union" -> IF Prefix.n = 0 THEN <<>> ELSE <<This.elems[Prefix.n]>>

\* Decoding an expression without a call replaces it by its parts; a prefix that
\* was read is a number, and a struct is a block of memory.
LEMMA PartsStep ==
  ASSUME TypeOK, Next, phase = "run", phase' = "run", callers' = callers, todo # <<>>
  PROVE  /\ todo' = Parts \o Tail(todo)
         /\ This.kind \in { "string", "bytes", "slice", "map", "union" } =>
              Prefix.n \in Nat /\ Prefix.c \in Int
         /\ This.kind = "union" => Prefix.n <= Len(This.elems)
         /\ This.kind = "struct" => Bulk
         /\ in' = in
  <1>1. <<>> \o Tail(todo) = Tail(todo)
    BY HeadType DEF Running
  <1>2. phase # "failed" /\ phase' # "failed" /\ phase' # "panic" /\ phase' # "done"
    OBVIOUS
  <1>3. ~Enter
    <2>1. callers \in Seq(Frame)
      BY DEF TypeOK
    <2>2. Len(<<[base |-> base, todo |-> Tail(todo)]>> \o callers) # Len(callers)
      BY <2>1
    <2> QED
      BY <2>2 DEF Enter
  <1> USE <1>1, <1>2
  <1>4. CASE NilValue
    <2>1. /\ This.kind \in { "bytes", "slice", "map", "union" } /\ Prefix.n = 0
          /\ todo' = Tail(todo) /\ in' = in /\ Prefix.c \in Int
      BY <1>4, PrefixType DEF NilValue, PrefixRead, Empty, Advance
    <2>2. [k \in 1 .. 0 |-> This.elems[1]] = <<>>
          /\ [k \in 1 .. 2 * 0 |-> This.elems[IF k % 2 = 1 THEN 1 ELSE 2]] = <<>>
      OBVIOUS
    <2>3. Parts = <<>>
      BY <2>1, <2>2 DEF Parts
    <2>4. This.kind = "union" => This.elems \in Seq(Type)
      BY HeadType DEF Running, Shape
    <2> QED
      BY <2>1, <2>3, <2>4
  <1>5. CASE Payload
    BY <1>5, PrefixType DEF Payload, PrefixRead, Advance, Panic, Parts
  <1>6. CASE Slice
    BY <1>6, PrefixType DEF Slice, PrefixRead, Advance, Panic, Parts
  <1>7. CASE Map
    BY <1>7, PrefixType DEF Map, PrefixRead, Advance, Panic, Parts
  <1>8. CASE Union
    BY <1>8, PrefixType DEF Union, PrefixRead, Empty, Advance, Fail, Parts
  <1>9. CASE Fixed \/ Block
    BY <1>9 DEF Fixed, Block, Advance, Fail, Panic, Parts
  <1>10. CASE Array
    <2>1. This.size \in Nat
      BY HeadType DEF Running, Shape
    <2>2. ~(This.size > 0) => [k \in 1 .. This.size |-> This.elems[1]] = <<>>
      BY <2>1
    <2> QED
      BY <1>10, <2>1, <2>2 DEF Array, Advance, Panic, Parts
  <1>11. CASE Pointer
    BY <1>11 DEF Pointer, Advance, Fail, Panic, Parts
  <1>12. CASE Struct
    BY <1>12, <1>3 DEF Struct, Advance, Panic, Parts
  <1>13. CASE Owned
    BY <1>13 DEF Owned, Advance, Fail, Panic, Parts
  <1>14. CASE BadPrefix \/ ShortLength
    BY <1>14 DEF BadPrefix, ShortLength, Fail, Panic
  <1>15. ~(Return \/ ReturnError \/ Finish)
    BY DEF Return, ReturnError, Finish
  <1> QED
    BY <1>4, <1>5, <1>6, <1>7, <1>8, <1>9, <1>10, <1>11, <1>12, <1>13, <1>14,
       <1>15 DEF Next

\* What a step that is no call and no return does: it decodes an expression or
\* stops the method.
Stays ==
  /\ UNCHANGED <<in, callers>>
  /\ phase' = "run" \/ todo' = todo

\* What the user called is never replaced.
LEMMA RootStays == Next => root' = root
  BY DEF Next, BadPrefix, ShortLength, NilValue, Payload, Slice, Map, Union, Fixed,
         Block, Array, Pointer, Struct, Owned, Return, ReturnError, Finish, Advance,
         Fail, Panic, Enter

\* Nor is the buffer.
LEMMA BufferStays == Next => in' = in
  BY DEF Next, BadPrefix, ShortLength, NilValue, Payload, Slice, Map, Union, Fixed,
         Block, Array, Pointer, Struct, Owned, Return, ReturnError, Finish, Advance,
         Fail, Panic, Enter

LEMMA StepKinds ==
  ASSUME TypeOK, Next
  PROVE  Stays \/ (Running /\ This.kind = "struct" /\ Enter) \/ Return \/ ReturnError
  <1>1. CASE BadPrefix \/ ShortLength
    BY <1>1 DEF BadPrefix, ShortLength, Fail, Panic, Stays
  <1>2. CASE NilValue \/ Map
    BY <1>2 DEF NilValue, Map, Advance, Running, Stays
  <1>3. CASE Payload
    BY <1>3 DEF Payload, Advance, Panic, Running, Stays
  <1>4. CASE Slice
    BY <1>4 DEF Slice, Advance, Panic, Running, Stays
  <1>5. CASE Union
    BY <1>5 DEF Union, Advance, Fail, Running, Stays
  <1>6. CASE Fixed \/ Block
    BY <1>6 DEF Fixed, Block, Advance, Fail, Panic, Running, Stays
  <1>7. CASE Array
    BY <1>7 DEF Array, Advance, Panic, Running, Stays
  <1>8. CASE Pointer
    BY <1>8 DEF Pointer, Advance, Fail, Panic, Running, Stays
  <1>9. CASE Struct
    BY <1>9 DEF Struct, Advance, Panic, Running, Stays
  <1>10. CASE Owned
    BY <1>10 DEF Owned, Advance, Fail, Panic, Running, Stays
  <1>11. CASE Finish
    BY <1>11 DEF Finish, Stays
  <1> QED
    BY <1>1, <1>2, <1>3, <1>4, <1>5, <1>6, <1>7, <1>8, <1>9, <1>10, <1>11 DEF Next

\* The calls are one more after a call and one less after a return.
LEMMA CallCount ==
  ASSUME TypeOK
  PROVE  /\ Len(callers) \in Nat
         /\ Enter => Len(callers') = Len(callers) + 1
         /\ Return \/ ReturnError =>
              /\ callers # <<>> /\ callers' = Tail(callers)
              /\ Len(callers') = Len(callers) - 1
              /\ todo' = Head(callers).todo
              /\ in' = in
  <1>1. callers \in Seq(Frame) /\ Len(callers) \in Nat
    BY DEF TypeOK
  <1>2. Enter => Len(callers') = Len(callers) + 1
    BY <1>1 DEF Enter
  <1>3. callers # <<>> => Len(Tail(callers)) = Len(callers) - 1
    BY <1>1
  <1>4. Len(callers) > 1 => callers # <<>>
    BY <1>1
  <1> QED
    BY <1>1, <1>2, <1>3, <1>4 DEF Return, ReturnError

\* A step that makes a call enters a struct.
LEMMA CallStep ==
  ASSUME TypeOK, Next, Len(callers') > Len(callers)
  PROVE  Running /\ This.kind = "struct" /\ Enter
  BY StepKinds, CallCount DEF Stays

\* A step that ends a call goes on with what the caller had to do.
LEMMA ReturnStep ==
  ASSUME TypeOK, Next, Len(callers') < Len(callers)
  PROVE  /\ callers # <<>> /\ callers' = Tail(callers)
         /\ todo' = Head(callers).todo
         /\ in' = in
  BY StepKinds, CallCount DEF Stays

\* A step that stops the method leaves its work as it is.
LEMMA StopStep ==
  ASSUME TypeOK, Next, phase' # "run", callers' = callers
  PROVE  UNCHANGED <<todo, in>>
  BY StepKinds, CallCount DEF Stays

-----------------------------------------------------------------------------
(***************************************************************************)
(* Safe mode.  A guard that holds makes the read behind it legal.          *)
(***************************************************************************)

LEMMA BufferType ==
  ASSUME TypeOK
  PROVE  /\ in.len \in Nat /\ Len(in.data) \in Nat
         /\ in.len <= Len(in.data) /\ Len(in.data) <= MaxInt
  BY InputAssumption DEF TypeOK

\* guardN: the n bytes at i exist.
LEMMA GuardNSound ==
  ASSUME TypeOK, Safe, InSlice(off), NEW n \in Nat, GuardN(n)
  PROVE  Indexable(off, n) /\ Sliceable(off, n) /\ off + n \in off .. in.len
  BY BufferType DEF TypeOK, InSlice, GuardN, Indexable, Sliceable

\* guardLen: however large the prefix is, int(nn) is nn, and its bytes exist.
LEMMA GuardLenSound ==
  ASSUME TypeOK, Safe, NEW o \in off .. in.len, InSlice(o),
         NEW nn \in Nat, nn <= 2 * MaxInt + 1, GuardLen(o, nn)
  PROVE  /\ nn <= in.len /\ ~(nn > MaxInt)
         /\ Sliceable(o, ToInt(nn))
         /\ o + ToInt(nn) \in off .. in.len
  BY BufferType, MaxIntAssumption
     DEF TypeOK, InSlice, GuardLen, ToUint, ToInt, Sliceable

\* A prefix that is read moves i forward, and not out of the buffer.
LEMMA PrefixSound ==
  ASSUME TypeOK, Safe, PrefixRead
  PROVE  /\ AfterPrefix \in off .. in.len /\ InSlice(AfterPrefix)
         /\ Prefix.n \in Nat /\ Prefix.n <= 2 * MaxInt + 1
  BY PrefixType, BufferType DEF TypeOK, PrefixRead, InSlice, AfterPrefix

-----------------------------------------------------------------------------
(***************************************************************************)
(* The kinds of step safe mode has.                                        *)
(***************************************************************************)

\* An expression is decoded, and nothing larger than the buffer allocated.
Decodes ==
  /\ Running
  /\ off' \in off .. in.len
  /\ made' = made \/ made' <= in.len
  /\ UNCHANGED <<root, in, base, callers, phase, err, raised>>

\* An expression is rejected with an error.
Rejects ==
  /\ Running
  /\ off' \in off .. in.len
  /\ phase' = "failed"
  /\ err' \in Errors \ { NoErr }
  /\ raised' = IF raised = NoErr THEN err' ELSE raised
  /\ UNCHANGED <<root, in, base, callers, made>>

LEMMA AdvanceDecodes ==
  ASSUME Running, NEW o \in off .. in.len, NEW more, Advance(o, more),
         raised' = raised, made' = made \/ made' <= in.len
  PROVE  Decodes
  BY DEF Advance, Decodes

LEMMA FailRejects ==
  ASSUME Running, NEW o \in off .. in.len, NEW e \in Errors \ { NoErr }, Fail(o, e)
  PROVE  Rejects
  BY DEF Fail, Rejects

\* No step of safe mode panics: behind its guards every read is legal.
LEMMA SafeStep ==
  ASSUME TypeOK, SafeInv, Safe, Next
  PROVE  \/ Decodes \/ Rejects
         \/ Running /\ InSlice(off) /\ Enter
         \/ Return \/ ReturnError \/ Finish
  <1>err. { ErrShortBuffer, ErrUnknownUnionTag, ErrOwned } \subseteq Errors \ { NoErr }
    BY DEF Errors, NoErr, ErrShortBuffer, ErrUnknownUnionTag, ErrOwned
  <1>off. Running => InSlice(off) /\ off \in off .. in.len
    BY BufferType DEF SafeInv, SafeInBounds, InSlice, TypeOK, Running
  <1>1. CASE BadPrefix
    BY <1>1, <1>off, <1>err, FailRejects DEF BadPrefix
  <1>2. CASE ShortLength
    BY <1>2, <1>err, PrefixSound, FailRejects DEF ShortLength
  <1>3. CASE NilValue
    BY <1>3, PrefixSound, AdvanceDecodes DEF NilValue
  <1>4. CASE Payload
    <2>1. Sliceable(AfterPrefix, ToInt(Prefix.n))
          /\ AfterPrefix + ToInt(Prefix.n) \in off .. in.len
      BY <1>4, PrefixSound, GuardLenSound DEF Payload
    <2> QED
      BY <1>4, <2>1, AdvanceDecodes DEF Payload
  <1>5. CASE Slice
    <2>1. /\ AfterPrefix \in off .. in.len
          /\ ~(Prefix.n > MaxInt) /\ Prefix.n <= in.len
      BY <1>5, PrefixSound, GuardLenSound DEF Slice
    <2> QED
      BY <1>5, <2>1, AdvanceDecodes DEF Slice, Bulk
  <1>6. CASE Map
    BY <1>6, PrefixSound, GuardLenSound, AdvanceDecodes DEF Map
  <1>7. CASE Union
    BY <1>7, <1>err, PrefixSound, AdvanceDecodes, FailRejects DEF Union
  <1>8. CASE Fixed
    <2>1. GuardN(This.size) =>
            Indexable(off, This.size) /\ off + This.size \in off .. in.len
      BY <1>8, <1>off, HeadType, GuardNSound DEF Fixed, Shape
    <2> QED
      BY <1>8, <2>1, <1>off, <1>err, AdvanceDecodes, FailRejects DEF Fixed
  <1>9. CASE Block
    <2>1. GuardN(This.size) =>
            Sliceable(off, This.size) /\ off + This.size \in off .. in.len
      BY <1>9, <1>off, HeadType, GuardNSound DEF Block, Shape
    <2> QED
      BY <1>9, <2>1, <1>off, <1>err, AdvanceDecodes, FailRejects DEF Block
  <1>10. CASE Array
    BY <1>10, <1>off, AdvanceDecodes DEF Array, Bulk
  <1>11. CASE Pointer
    <2>1. GuardN(1) => Indexable(off, 1) /\ off + 1 \in off .. in.len
      BY <1>11, <1>off, GuardNSound DEF Pointer
    <2> QED
      BY <1>11, <2>1, <1>off, <1>err, AdvanceDecodes, FailRejects DEF Pointer
  <1>12. CASE Struct
    BY <1>12, <1>off DEF Struct, Bulk
  <1>13. CASE Owned
    <2>1. in.len \in Nat /\ off \in Int
      BY BufferType DEF TypeOK
    <2>2. \A n \in 0 .. (in.len - off) : off + n \in off .. in.len
      BY <2>1
    <2> QED
      BY <1>13, <2>2, <1>off, <1>err, AdvanceDecodes, FailRejects DEF Owned
  <1> QED
    BY <1>1, <1>2, <1>3, <1>4, <1>5, <1>6, <1>7, <1>8, <1>9, <1>10, <1>11,
       <1>12, <1>13 DEF Next

-----------------------------------------------------------------------------
(***************************************************************************)
(* The inductive invariant of safe mode.                                   *)
(***************************************************************************)

LEMMA InitSafe == Init => SafeInv
  <1> SUFFICES ASSUME Init, Safe PROVE SafeInv
    BY DEF SafeInv
  <1>1. in.len \in Nat
    BY InputAssumption DEF Init
  <1> QED
    BY <1>1 DEF Init, SafeInv, SafeInBounds, Nested

\* A call nests the new method in those that wait.
LEMMA EnterNests ==
  ASSUME TypeOK, Nested, InSlice(off), Enter
  PROVE  Nested'
  <1> SUFFICES ASSUME NEW k \in 1 .. Len(callers')
               PROVE  callers'[k].base <=
                        (IF k = 1 THEN base' ELSE callers'[k - 1].base)
    BY DEF Nested
  <1>1. callers \in Seq(Frame)
        /\ callers' = <<[base |-> base, todo |-> Tail(todo)]>> \o callers
    BY DEF Enter, TypeOK
  <1>2. callers'[1].base = base
    BY <1>1
  <1>3. k # 1 => k - 1 \in 1 .. Len(callers) /\ callers'[k] = callers[k - 1]
    BY <1>1
  <1>4. k # 1 /\ k # 2 => callers'[k - 1] = callers[k - 2]
    BY <1>1
  <1>5. k = 2 => callers'[k - 1].base = base
    BY <1>2
  <1>6. k # 1 => callers[k - 1].base <=
                   (IF k - 1 = 1 THEN base ELSE callers[k - 2].base)
    BY <1>3 DEF Nested
  <1>7. base <= base'
    BY DEF Enter, InSlice
  <1> QED
    BY <1>2, <1>3, <1>4, <1>5, <1>6, <1>7

\* The method that goes on when one returns started before it.
LEMMA ReturnNests ==
  ASSUME TypeOK, Nested, callers # <<>>,
         callers' = Tail(callers), base' = Head(callers).base
  PROVE  Nested' /\ base' \in Nat /\ base' <= base
  <1>1. callers \in Seq(Frame) /\ Len(callers) \in Nat
    BY DEF TypeOK
  <1>2. base' = callers[1].base /\ base' \in Nat
    BY CallerType
  <1>3. base' <= base
    BY <1>1, <1>2 DEF Nested
  <1>4. \A k \in 1 .. Len(callers') :
           /\ k + 1 \in 1 .. Len(callers) /\ callers'[k] = callers[k + 1]
           /\ k # 1 => callers'[k - 1] = callers[k]
    BY <1>1
  <1>5. \A k \in 1 .. Len(callers') : callers[k + 1].base <= callers[k].base
    BY <1>1, <1>4 DEF Nested
  <1> QED
    BY <1>2, <1>3, <1>4, <1>5 DEF Nested

\* In safe mode no step panics, leaves the buffer or loses an error.
LEMMA NextSafe == TypeOK /\ SafeInv /\ [Next]_vars => SafeInv'
  <1> SUFFICES ASSUME TypeOK, SafeInv, [Next]_vars, Safe
               PROVE  SafeInv'
    BY DEF SafeInv
  <1>type. base \in Nat /\ off \in Int /\ in.len \in Nat
    BY BufferType DEF TypeOK
  <1>inv. SafeInBounds /\ Nested
    BY DEF SafeInv
  <1>1. CASE Decodes
    BY <1>1, <1>type DEF Decodes, Running, SafeInv, SafeInBounds, Nested
  <1>2. CASE Rejects
    BY <1>2, <1>type DEF Rejects, Running, SafeInv, SafeInBounds, Nested
  <1>3. CASE Running /\ InSlice(off) /\ Enter
    BY <1>3, <1>type, <1>inv, EnterNests
       DEF Enter, Running, SafeInv, SafeInBounds
  <1>4. CASE Return
    BY <1>4, <1>type, <1>inv, ReturnNests DEF Return, SafeInv, SafeInBounds
  <1>5. CASE ReturnError
    <2>1. callers # <<>>
      BY <1>5 DEF ReturnError
    <2> QED
      BY <1>5, <2>1, <1>type, <1>inv, ReturnNests
         DEF ReturnError, SafeInv, SafeInBounds
  <1>6. CASE Finish
    BY <1>6 DEF Finish, SafeInv, SafeInBounds, Nested
  <1>7. CASE UNCHANGED vars
    BY <1>7 DEF vars, SafeInv, SafeInBounds, Nested
  <1> QED
    BY <1>1, <1>2, <1>3, <1>4, <1>5, <1>6, <1>7, SafeStep

\* The invariant of safe mode holds of every codec on any input.
THEOREM SafeInvariant == Spec => []SafeInv
  <1> QED
    BY TypeCorrect, InitSafe, NextSafe, PTL DEF Spec

\* For every schema and every buffer, of any content and any length: Unmarshal
\* in safe mode never panics and never leaves b[0:len(b)].
THEOREM NeverOutOfBounds == Spec => []SafeInBounds
  <1>1. SafeInv => SafeInBounds
    BY DEF SafeInv, SafeInBounds
  <1> QED
    BY <1>1, SafeInvariant, PTL

\* In safe mode the first error any nested method returns is the user's error.
THEOREM ErrorsReachTheUser == Safe => (Spec => []ErrorReported)
  <1> SUFFICES ASSUME Safe PROVE Spec => []ErrorReported
    OBVIOUS
  <1>1. SafeInv => ErrorReported
    BY DEF SafeInv, ErrorReported
  <1> QED
    BY <1>1, SafeInvariant, PTL

-----------------------------------------------------------------------------
(***************************************************************************)
(* What a step of safe mode does is determined by the buffer and by where  *)
(* the running method is, but for hand-written codecs.                     *)
(***************************************************************************)

\* Where the running method is, and what it and its callers have to do.
Now == [base |-> base, off |-> off, todo |-> todo, callers |-> callers]

\* The user's method is at its end.
Ended(c) == c.todo = <<>> /\ c.callers = <<>>

ShapeAt(c) == Schema[Head(c.todo)]

PrefixAt(x, c) == ReadUvarint(SubSeq(x.data, c.off + 1, x.len))

\* The guards of the expression c is at pass in the buffer x.
Fits(x, c) ==
  /\ ShapeAt(c).kind \in { "fixed", "block" } => c.off + ShapeAt(c).size <= x.len
  /\ ShapeAt(c).kind = "pointer" => c.off + 1 <= x.len
  /\ ShapeAt(c).kind \in { "string", "bytes", "slice", "map" } =>
       /\ PrefixAt(x, c).c > 0
       /\ c.off + PrefixAt(x, c).c + PrefixAt(x, c).n <= x.len
  /\ ShapeAt(c).kind = "union" =>
       PrefixAt(x, c).c > 0 /\ PrefixAt(x, c).n <= Len(ShapeAt(c).elems)

\* The offset behind that expression, but for the parts still to decode.
Behind(x, c) ==
  CASE ShapeAt(c).kind \in { "fixed", "block" } -> c.off + ShapeAt(c).size
    [] ShapeAt(c).kind = "pointer" -> c.off + 1
    [] ShapeAt(c).kind \in { "string", "bytes" } ->
         c.off + PrefixAt(x, c).c + PrefixAt(x, c).n
    [] ShapeAt(c).kind \in { "slice", "map", "union" } -> c.off + PrefixAt(x, c).c
    [] ShapeAt(c).kind = "array" -> c.off

PartsAt(x, c) ==
  CASE ShapeAt(c).kind \in { "fixed", "block", "string", "bytes" } -> <<>>
    [] ShapeAt(c).kind = "pointer" ->
         IF x.data[c.off + 1] # 0 THEN ShapeAt(c).elems ELSE <<>>
    [] ShapeAt(c).kind = "slice" ->
         [k \in 1 .. PrefixAt(x, c).n |-> ShapeAt(c).elems[1]]
    [] ShapeAt(c).kind = "array" -> [k \in 1 .. ShapeAt(c).size |-> ShapeAt(c).elems[1]]
    [] ShapeAt(c).kind = "map" ->
         [k \in 1 .. (2 * PrefixAt(x, c).n) |->
            ShapeAt(c).elems[IF k % 2 = 1 THEN 1 ELSE 2]]
    [] ShapeAt(c).kind = "union" ->
         IF PrefixAt(x, c).n = 0 THEN <<>> ELSE <<ShapeAt(c).elems[PrefixAt(x, c).n]>>

Returned(c) ==
  [base |-> Head(c.callers).base, off |-> c.off, todo |-> Head(c.callers).todo,
   callers |-> Tail(c.callers)]

Called(c) ==
  [base |-> c.off, off |-> c.off, todo |-> ShapeAt(c).elems,
   callers |-> <<[base |-> c.base, todo |-> Tail(c.todo)]>> \o c.callers]

Decoded(x, c) ==
  [base |-> c.base, off |-> Behind(x, c), todo |-> PartsAt(x, c) \o Tail(c.todo),
   callers |-> c.callers]

Successor(x, c) ==
  IF c.todo = <<>> THEN Returned(c)
  ELSE IF ShapeAt(c).kind = "struct" THEN Called(c) ELSE Decoded(x, c)

\* The three ways a step goes.
Finishes ==
  /\ Ended(Now) /\ Now' = Now
  /\ phase' = "done" /\ UNCHANGED <<root, in, err, raised>>

Proceeds ==
  /\ ~Ended(Now) /\ (todo # <<>> => Fits(in, Now))
  /\ Now' = Successor(in, Now)
  /\ phase' = "run" /\ UNCHANGED <<root, in, err, raised>>

FailsShort ==
  /\ todo # <<>> /\ ~Fits(in, Now)
  /\ phase' = "failed" /\ UNCHANGED <<root, in>>
  /\ err' # NoErr
  /\ err' = ErrShortBuffer \/ (This.kind = "union" /\ Prefix.c > 0)

LEMMA NowFields ==
  /\ Now.base = base /\ Now.off = off /\ Now.todo = todo /\ Now.callers = callers
  /\ ShapeAt(Now) = This /\ PrefixAt(in, Now) = Prefix
  BY DEF Now, ShapeAt, PrefixAt, This, Prefix

\* Decoding an expression without a call.
LEMMA AdvanceProceeds ==
  ASSUME Running, This.kind # "struct", Fits(in, Now),
         Advance(Behind(in, Now), PartsAt(in, Now)), raised' = raised
  PROVE  Proceeds
  <1>1. Now' = Decoded(in, Now)
    BY NowFields DEF Advance, Decoded, Now
  <1>2. Successor(in, Now) = Decoded(in, Now)
    BY NowFields DEF Successor, Running
  <1> QED
    BY <1>1, <1>2, NowFields DEF Proceeds, Ended, Advance, Running

LEMMA FailFails ==
  ASSUME Running, NEW o, NEW e, ~Fits(in, Now), Fail(o, e), e # NoErr,
         e = ErrShortBuffer \/ (This.kind = "union" /\ Prefix.c > 0)
  PROVE  FailsShort
  BY DEF FailsShort, Fail, Running

\* Safe mode goes on where the guards pass, to what the buffer says, and fails
\* where they do not; only an unknown tag fails with another error.
LEMMA SafeStepIs ==
  ASSUME TypeOK, SafeInv, Safe, Next, phase = "run", Running => This.kind # "owned"
  PROVE  Finishes \/ Proceeds \/ FailsShort
  <1>off. Running => InSlice(off) /\ off \in off .. in.len
    BY BufferType DEF SafeInv, SafeInBounds, InSlice, TypeOK, Running
  <1>shape. Running => This.size \in Nat /\ Tail(todo) \in Seq(Type) /\ This.elems \in Seq(Type)
    BY HeadType DEF Shape
  <1>type. off \in Int /\ in.len \in Nat /\ in.len <= Len(in.data) /\ Len(in.data) <= MaxInt
           /\ MaxInt \in Nat
    BY BufferType, MaxIntAssumption DEF TypeOK
  <1>err. ErrShortBuffer # NoErr /\ ErrUnknownUnionTag # NoErr
    BY DEF ErrShortBuffer, NoErr, ErrUnknownUnionTag
  <1>1. CASE BadPrefix
    <2>1. Running /\ Prefix.c <= 0 /\ Fail(off, ErrShortBuffer)
          /\ This.kind \in { "string", "bytes", "slice", "map", "union" }
          /\ Prefix.c \in Int
      BY <1>1, <1>off, PrefixType DEF BadPrefix
    <2>2. ~Fits(in, Now)
      BY <2>1, NowFields DEF Fits
    <2> QED
      BY <2>1, <2>2, <1>err, FailFails
  <1>2. CASE ShortLength
    <2>1. /\ Running /\ Fail(AfterPrefix, ErrShortBuffer)
          /\ This.kind \in { "string", "bytes", "slice", "map" }
          /\ Prefix.c \in Int /\ Prefix.n \in Nat /\ AfterPrefix \in off .. in.len
          /\ ToUint(in.len - AfterPrefix) < Prefix.n
      BY <1>2, <1>type, PrefixType, PrefixSound
         DEF ShortLength, PrefixRead, GuardLen, ToUint
    <2>2. in.len - AfterPrefix < Prefix.n
      BY <2>1, <1>type DEF ToUint, AfterPrefix
    <2>3. ~Fits(in, Now)
      BY <2>1, <2>2, <1>type, NowFields DEF Fits, AfterPrefix
    <2> QED
      BY <2>1, <2>3, <1>err, FailFails
  <1>3. CASE NilValue
    <2>1. /\ Running /\ Advance(AfterPrefix, <<>>) /\ raised' = raised
          /\ This.kind \in { "bytes", "slice", "map", "union" }
          /\ Prefix.c \in Int /\ Prefix.n = 0 /\ AfterPrefix \in off .. in.len
          /\ Prefix.c > 0
      BY <1>3, PrefixType, PrefixSound DEF NilValue, PrefixRead, Empty
    <2>2. Fits(in, Now)
      BY <2>1, <1>type, <1>shape, NowFields DEF Fits, AfterPrefix
    <2>3. [k \in 1 .. 0 |-> This.elems[1]] = <<>>
          /\ [k \in 1 .. 2 * 0 |-> This.elems[IF k % 2 = 1 THEN 1 ELSE 2]] = <<>>
      OBVIOUS
    <2>4. PartsAt(in, Now) = <<>>
      BY <2>1, <2>3, NowFields DEF PartsAt
    <2>5. Behind(in, Now) = AfterPrefix
      BY <2>1, <1>type, NowFields DEF Behind, AfterPrefix
    <2> QED
      BY <2>1, <2>2, <2>4, <2>5, AdvanceProceeds
  <1>4. CASE Payload
    <2>1. /\ Running /\ This.kind \in { "string", "bytes" } /\ raised' = raised
          /\ Prefix.c \in Int /\ Prefix.n \in Nat /\ Prefix.c > 0
          /\ ToInt(Prefix.n) = Prefix.n
          /\ AfterPrefix + Prefix.n <= in.len
          /\ Advance(AfterPrefix + Prefix.n, <<>>)
      BY <1>4, <1>off, <1>type, PrefixType, PrefixSound, GuardLenSound
         DEF Payload, PrefixRead, ToInt, Panic
    <2>2. Fits(in, Now) /\ Behind(in, Now) = AfterPrefix + Prefix.n
          /\ PartsAt(in, Now) = <<>>
      BY <2>1, <1>type, NowFields DEF Fits, Behind, PartsAt, AfterPrefix
    <2> QED
      BY <2>1, <2>2, AdvanceProceeds
  <1>5. CASE Slice
    <2>1. /\ Running /\ This.kind = "slice" /\ raised' = raised
          /\ Prefix.c \in Int /\ Prefix.n \in Nat /\ Prefix.c > 0
          /\ ToInt(Prefix.n) = Prefix.n
          /\ AfterPrefix + Prefix.n <= in.len
          /\ Advance(AfterPrefix, [k \in 1 .. Prefix.n |-> This.elems[1]])
      BY <1>5, <1>off, <1>type, PrefixType, PrefixSound, GuardLenSound
         DEF Slice, PrefixRead, ToInt, Panic, Bulk
    <2>2. Fits(in, Now) /\ Behind(in, Now) = AfterPrefix
          /\ PartsAt(in, Now) = [k \in 1 .. Prefix.n |-> This.elems[1]]
      BY <2>1, <1>type, NowFields DEF Fits, Behind, PartsAt, AfterPrefix
    <2> QED
      BY <2>1, <2>2, AdvanceProceeds
  <1>6. CASE Map
    <2>1. /\ Running /\ This.kind = "map" /\ raised' = raised
          /\ Prefix.c \in Int /\ Prefix.n \in Nat /\ Prefix.c > 0
          /\ ToInt(Prefix.n) = Prefix.n
          /\ AfterPrefix + Prefix.n <= in.len
          /\ Advance(AfterPrefix, [k \in 1 .. (2 * Prefix.n) |->
                                     This.elems[IF k % 2 = 1 THEN 1 ELSE 2]])
      BY <1>6, <1>off, <1>type, PrefixType, PrefixSound, GuardLenSound
         DEF Map, PrefixRead, ToInt
    <2>2. Fits(in, Now) /\ Behind(in, Now) = AfterPrefix
          /\ PartsAt(in, Now) = [k \in 1 .. (2 * Prefix.n) |->
                                   This.elems[IF k % 2 = 1 THEN 1 ELSE 2]]
      BY <2>1, <1>type, NowFields DEF Fits, Behind, PartsAt, AfterPrefix
    <2> QED
      BY <2>1, <2>2, AdvanceProceeds
  <1>7. CASE Union
    <2>1. /\ Running /\ This.kind = "union"
          /\ Prefix.c \in Int /\ Prefix.n \in Nat /\ Prefix.c > 0 /\ Prefix.n # 0
      BY <1>7, <1>off, PrefixType DEF Union, PrefixRead, Empty
    <2>2. CASE Prefix.n <= Len(This.elems)
      <3>1. Advance(AfterPrefix, <<This.elems[Prefix.n]>>) /\ raised' = raised
        BY <1>7, <2>1, <2>2, <1>shape DEF Union
      <3>2. Fits(in, Now) /\ Behind(in, Now) = AfterPrefix
            /\ PartsAt(in, Now) = <<This.elems[Prefix.n]>>
        BY <2>1, <2>2, <1>type, NowFields DEF Fits, Behind, PartsAt, AfterPrefix
      <3> QED
        BY <2>1, <3>1, <3>2, AdvanceProceeds
    <2>3. CASE ~(Prefix.n <= Len(This.elems))
      <3>1. Fail(AfterPrefix, ErrUnknownUnionTag)
        BY <1>7, <2>3 DEF Union
      <3>2. ~Fits(in, Now)
        BY <2>1, <2>3, NowFields DEF Fits
      <3> QED
        BY <2>1, <3>1, <3>2, <1>err, FailFails
    <2> QED
      BY <2>2, <2>3
  <1>8. CASE Fixed \/ Block
    <2>1. Running /\ This.kind \in { "fixed", "block" } /\ This.size \in Nat
      BY <1>8, <1>shape DEF Fixed, Block
    <2>2. CASE GuardN(This.size)
      <3>1. /\ Indexable(off, This.size) /\ Sliceable(off, This.size)
            /\ off + This.size \in off .. in.len
        BY <2>1, <2>2, <1>off, GuardNSound
      <3>2. Advance(off + This.size, <<>>) /\ raised' = raised
        BY <1>8, <2>2, <3>1 DEF Fixed, Block
      <3>3. Fits(in, Now) /\ Behind(in, Now) = off + This.size /\ PartsAt(in, Now) = <<>>
        BY <2>1, <3>1, <1>type, NowFields DEF Fits, Behind, PartsAt
      <3> QED
        BY <2>1, <3>2, <3>3, AdvanceProceeds
    <2>3. CASE ~GuardN(This.size)
      <3>1. Fail(off, ErrShortBuffer)
        BY <1>8, <2>3 DEF Fixed, Block
      <3>2. ~Fits(in, Now)
        BY <2>1, <2>3, <1>type, NowFields DEF Fits, GuardN
      <3> QED
        BY <2>1, <3>1, <3>2, <1>err, FailFails
    <2> QED
      BY <2>2, <2>3
  <1>9. CASE Array
    <2>1. /\ Running /\ This.kind = "array" /\ raised' = raised
          /\ Advance(off, [k \in 1 .. This.size |-> This.elems[1]])
      BY <1>9 DEF Array, Bulk
    <2>2. Fits(in, Now) /\ Behind(in, Now) = off
          /\ PartsAt(in, Now) = [k \in 1 .. This.size |-> This.elems[1]]
      BY <2>1, NowFields DEF Fits, Behind, PartsAt
    <2> QED
      BY <2>1, <2>2, AdvanceProceeds
  <1>10. CASE Pointer
    <2>1. Running /\ This.kind = "pointer"
      BY <1>10 DEF Pointer
    <2>2. CASE GuardN(1)
      <3>1. Indexable(off, 1) /\ off + 1 \in off .. in.len
        BY <2>1, <2>2, <1>off, GuardNSound
      <3>2. /\ raised' = raised
            /\ Advance(off + 1, IF in.data[off + 1] # 0 THEN This.elems ELSE <<>>)
        BY <1>10, <2>2, <3>1 DEF Pointer
      <3>3. Fits(in, Now) /\ Behind(in, Now) = off + 1
            /\ PartsAt(in, Now) = (IF in.data[off + 1] # 0 THEN This.elems ELSE <<>>)
        BY <2>1, <3>1, <1>type, NowFields DEF Fits, Behind, PartsAt
      <3> QED
        BY <2>1, <3>2, <3>3, AdvanceProceeds
    <2>3. CASE ~GuardN(1)
      <3>1. Fail(off, ErrShortBuffer)
        BY <1>10, <2>3 DEF Pointer
      <3>2. ~Fits(in, Now)
        BY <2>1, <2>3, <1>type, NowFields DEF Fits, GuardN
      <3> QED
        BY <2>1, <3>1, <3>2, <1>err, FailFails
    <2> QED
      BY <2>2, <2>3
  <1>11. CASE Struct
    <2>1. Running /\ This.kind = "struct" /\ Enter
      BY <1>11, <1>off DEF Struct, Bulk
    <2>2. Fits(in, Now)
      BY <2>1, NowFields DEF Fits
    <2>3. Now' = Called(Now)
      BY <2>1, NowFields DEF Enter, Called, Now
    <2>4. Successor(in, Now) = Called(Now)
      BY <2>1, NowFields DEF Successor, Running
    <2> QED
      BY <2>1, <2>2, <2>3, <2>4, NowFields DEF Proceeds, Ended, Enter, Running
  <1>12. CASE Return
    <2>1. Now' = Returned(Now)
      BY <1>12, NowFields DEF Return, Returned, Now
    <2> QED
      BY <1>12, <2>1, NowFields DEF Return, Proceeds, Successor, Ended
  <1>13. CASE Finish
    BY <1>13, NowFields DEF Finish, Finishes, Ended, Now
  <1>14. ~Owned /\ ~ReturnError
    BY DEF Owned, ReturnError, Running
  <1> QED
    BY <1>1, <1>2, <1>3, <1>4, <1>5, <1>6, <1>7, <1>8, <1>9, <1>10, <1>11, <1>12,
       <1>13, <1>14 DEF Next

\* An error on its way to the user stays what it is.
LEMMA FailedStep ==
  ASSUME Safe, Next, phase # "run"
  PROVE  /\ phase = "failed" /\ phase' \in { "failed", "done" }
         /\ UNCHANGED <<root, in, err>>
  BY DEF Next, Running, BadPrefix, ShortLength, NilValue, Payload, Slice, Map, Union,
         Fixed, Block, Array, Pointer, Struct, Owned, Return, ReturnError, Finish

-----------------------------------------------------------------------------
(***************************************************************************)
(* Allocation.                                                             *)
(***************************************************************************)

\* No input makes safe mode allocate more elements than the input has bytes.
THEOREM AllocationBounded == Spec => []AllocBounded
  <1>1. Init => AllocBounded
    <2>1. Init => in.len \in Nat
      BY InputAssumption DEF Init
    <2> QED
      BY <2>1 DEF Init, AllocBounded
  <1>2. TypeOK /\ SafeInv /\ AllocBounded /\ [Next]_vars => AllocBounded'
    <2> SUFFICES ASSUME TypeOK, SafeInv, Safe, made <= in.len, [Next]_vars
                 PROVE  made' <= in.len'
      BY DEF AllocBounded
    <2> QED
      BY SafeStep
         DEF Decodes, Rejects, Enter, Return, ReturnError, Finish, vars
  <1> QED
    BY <1>1, <1>2, TypeCorrect, SafeInvariant, PTL DEF Spec

-----------------------------------------------------------------------------
(***************************************************************************)
(* Refinement.                                                             *)
(***************************************************************************)

\* A safe-mode Unmarshal implements the cursor its interface promises.
THEOREM SafeImplementsCursor == Safe => (Spec => ImplementsCursor)
  <1> SUFFICES ASSUME Safe PROVE Spec => ImplementsCursor
    OBVIOUS
  <1>1. Init => Contract!Init
    <2>1. Init => in.len \in Nat
      BY InputAssumption DEF Init
    <2> QED
      BY <2>1 DEF Init, Contract!Init
  <1>2. TypeOK /\ SafeInv /\ [Next]_vars
          => [Contract!Next]_(Contract!vars)
    <2> SUFFICES ASSUME TypeOK, SafeInv, [Next]_vars
                 PROVE  [Contract!Next]_(Contract!vars)
      OBVIOUS
    <2> USE DEF Contract!Next, Contract!vars
    <2>type. base \in Nat /\ off \in Int /\ in.len \in Nat
      BY BufferType DEF TypeOK
    <2>1. CASE Decodes
      BY <2>1 DEF Decodes, Running, Contract!Read
    <2>2. CASE Rejects
      BY <2>2 DEF Rejects, Running, Contract!Reject
    <2>3. CASE Running /\ InSlice(off) /\ Enter
      BY <2>3 DEF Enter
    <2>4. CASE Return
      BY <2>4 DEF Return
    <2>5. CASE ReturnError
      <3>1. off' = base /\ UNCHANGED <<in, phase, err>> /\ phase = "failed"
        BY <2>5 DEF ReturnError
      <3>2. base \in 0 .. off
        BY <2>type DEF SafeInv, SafeInBounds
      <3> QED
        BY <3>1, <3>2 DEF Contract!Unwind
    <2>6. CASE Finish
      BY <2>6 DEF Finish, Contract!Return
    <2>7. CASE UNCHANGED vars
      BY <2>7 DEF vars
    <2> QED
      BY <2>1, <2>2, <2>3, <2>4, <2>5, <2>6, <2>7, SafeStep
  <1> QED
    BY <1>1, <1>2, TypeCorrect, SafeInvariant, PTL
       DEF Spec, ImplementsCursor, Contract!Spec

-----------------------------------------------------------------------------
(***************************************************************************)
(* What a step does where the buffer holds a value, in either mode: fast   *)
(* is the mode.  The expression at c takes the bytes up to o of the buffer *)
(* x, and leaves more to decode.                                           *)
(***************************************************************************)
Prefixed(x, c) ==
  LET p == PrefixAt(x, c)
  IN  p.c \in Nat /\ p.c > 0 /\ p.n \in Nat /\ p.n <= MaxInt

TakesBasic(x, c, o, more) ==
  /\ more = <<>>
  /\ \/ ShapeAt(c).kind \in { "fixed", "block" } /\ o = c.off + ShapeAt(c).size
     \/ /\ ShapeAt(c).kind \in { "string", "bytes" } /\ Prefixed(x, c)
        /\ o = c.off + PrefixAt(x, c).c + PrefixAt(x, c).n

\* Safe mode has as many bytes left as there are elements.
TakesSlice(fast, x, c, o, more) ==
  /\ ShapeAt(c).kind = "slice" /\ Prefixed(x, c)
  /\ \/ /\ fast /\ ShapeAt(c).bulk /\ more = <<>>
        /\ o = c.off + PrefixAt(x, c).c + ShapeAt(c).raw * PrefixAt(x, c).n
     \/ /\ ~ (fast /\ ShapeAt(c).bulk) /\ o = c.off + PrefixAt(x, c).c
        /\ more = [k \in 1 .. PrefixAt(x, c).n |-> ShapeAt(c).elems[1]]
        /\ ~fast => o + PrefixAt(x, c).n <= x.len

TakesArray(fast, x, c, o, more) ==
  /\ ShapeAt(c).kind = "array"
  /\ \/ /\ fast /\ ShapeAt(c).bulk /\ ShapeAt(c).size > 0 /\ more = <<>>
        /\ o = c.off + ShapeAt(c).raw * ShapeAt(c).size
     \/ /\ ~ (fast /\ ShapeAt(c).bulk /\ ShapeAt(c).size > 0) /\ o = c.off
        /\ more = [k \in 1 .. ShapeAt(c).size |-> ShapeAt(c).elems[1]]

TakesPointer(x, c, o, more) ==
  /\ ShapeAt(c).kind = "pointer" /\ o = c.off + 1
  /\ more = IF x.data[c.off + 1] # 0 THEN ShapeAt(c).elems ELSE <<>>

TakesMap(fast, x, c, o, more) ==
  /\ ShapeAt(c).kind = "map" /\ Prefixed(x, c) /\ o = c.off + PrefixAt(x, c).c
  /\ more = [k \in 1 .. (2 * PrefixAt(x, c).n) |->
               ShapeAt(c).elems[IF k % 2 = 1 THEN 1 ELSE 2]]
  /\ ~fast => o + PrefixAt(x, c).n <= x.len

TakesUnion(x, c, o, more) ==
  /\ ShapeAt(c).kind = "union" /\ Prefixed(x, c) /\ o = c.off + PrefixAt(x, c).c
  /\ \/ PrefixAt(x, c).n = 0 /\ more = <<>>
     \/ /\ PrefixAt(x, c).n # 0 /\ PrefixAt(x, c).n <= Len(ShapeAt(c).elems)
        /\ more = <<ShapeAt(c).elems[PrefixAt(x, c).n]>>

TakesBlock(fast, c, o, more) ==
  /\ ShapeAt(c).kind = "struct" /\ fast /\ ShapeAt(c).bulk
  /\ o = c.off + ShapeAt(c).raw /\ more = <<>>

Takes(fast, x, c, o, more) ==
  \/ TakesBasic(x, c, o, more) \/ TakesSlice(fast, x, c, o, more)
  \/ TakesArray(fast, x, c, o, more) \/ TakesPointer(x, c, o, more)
  \/ TakesMap(fast, x, c, o, more) \/ TakesUnion(x, c, o, more)
  \/ TakesBlock(fast, c, o, more)

\* The running method is at a place of the buffer.
Ready ==
  /\ phase = "run" /\ todo \in Seq(Type)
  /\ base \in Nat /\ off \in Nat /\ base <= off
  /\ in.len \in Nat /\ Len(in.data) \in Nat /\ in.len <= Len(in.data)

\* The actions that decode an expression of each kind.
LEMMA ActionOf ==
  ASSUME Running, Next
  PROVE  /\ This.kind = "fixed" => Fixed
         /\ This.kind = "block" => Block
         /\ This.kind = "string" => BadPrefix \/ ShortLength \/ Payload
         /\ This.kind = "bytes" => BadPrefix \/ ShortLength \/ NilValue \/ Payload
         /\ This.kind = "slice" => BadPrefix \/ ShortLength \/ NilValue \/ Slice
         /\ This.kind = "map" => BadPrefix \/ ShortLength \/ NilValue \/ Map
         /\ This.kind = "union" => BadPrefix \/ NilValue \/ Union
         /\ This.kind = "array" => Array
         /\ This.kind = "pointer" => Pointer
         /\ This.kind = "struct" => Struct
  BY DEF Next, Running, BadPrefix, ShortLength, NilValue, Payload, Slice, Map, Union,
         Fixed, Block, Array, Pointer, Struct, Owned, Return, ReturnError, Finish

\* A prefix that is there is read, and its guard passes.
LEMMA PrefixPasses ==
  ASSUME Ready, Running, Next, Prefixed(in, Now), AfterPrefix <= in.len
  PROVE  /\ PrefixRead /\ ToInt(Prefix.n) = Prefix.n /\ Prefix.n \in Nat /\ ~ (Prefix.n > MaxInt)
         /\ InSlice(off) /\ AfterPrefix = off + Prefix.c /\ AfterPrefix \in Nat /\ off <= AfterPrefix
         /\ ~BadPrefix
         /\ (Safe => AfterPrefix + Prefix.n <= in.len) => GuardLen(AfterPrefix, Prefix.n)
  <1>1. /\ Prefix.c \in Nat /\ Prefix.c > 0 /\ Prefix.n \in Nat /\ Prefix.n <= MaxInt
    BY NowFields DEF Prefixed
  <1>2. MaxInt \in Nat
    BY MaxIntAssumption
  <1>3. /\ ToInt(Prefix.n) = Prefix.n /\ ~ (Prefix.n > MaxInt)
    BY <1>1, <1>2 DEF ToInt
  <1>4. /\ AfterPrefix = off + Prefix.c /\ AfterPrefix \in Nat /\ off <= AfterPrefix
        /\ InSlice(off)
    BY <1>1 DEF AfterPrefix, Ready, InSlice
  <1>5. PrefixRead /\ ~BadPrefix
    BY <1>1, <1>4 DEF PrefixRead, BadPrefix
  <1>6. ASSUME Safe => AfterPrefix + Prefix.n <= in.len
        PROVE  GuardLen(AfterPrefix, Prefix.n)
    BY <1>1, <1>4, <1>6 DEF GuardLen, ToUint, Ready
  <1> QED
    BY <1>1, <1>3, <1>4, <1>5, <1>6

\* An empty value leaves nothing to decode.
LEMMA NothingLeft ==
  ASSUME NEW f, NEW g
  PROVE  [k \in 1 .. 0 |-> f] = <<>> /\ [k \in 1 .. (2 * 0) |-> g[IF k % 2 = 1 THEN 1 ELSE 2]] = <<>>
  OBVIOUS

LEMMA TakesBasicStep ==
  ASSUME Ready, Running, Next, NEW o \in Nat, o <= in.len, NEW more,
         TakesBasic(in, Now, o, more)
  PROVE  Advance(o, more)
  <1>0. This.size \in Nat
    BY SchemaAssumption DEF Ready, Running, This, Shape
  <1>1. CASE This.kind \in { "fixed", "block" }
    <2>1. o = off + This.size /\ more = <<>>
      BY <1>1, NowFields DEF TakesBasic
    <2>2. GuardN(This.size) /\ Indexable(off, This.size) /\ Sliceable(off, This.size)
      BY <1>0, <2>1 DEF GuardN, Indexable, Sliceable, Ready
    <2>3. Fixed \/ Block
      BY <1>1, ActionOf
    <2> QED
      BY <2>1, <2>2, <2>3 DEF Fixed, Block
  <1>2. CASE This.kind \in { "string", "bytes" }
    <2>1. Prefixed(in, Now) /\ o = off + Prefix.c + Prefix.n /\ more = <<>>
      BY <1>2, NowFields DEF TakesBasic
    <2>2. AfterPrefix <= in.len /\ AfterPrefix + Prefix.n = o
      BY <2>1, NowFields DEF AfterPrefix, Prefixed, Ready
    <2>3. /\ PrefixRead /\ ToInt(Prefix.n) = Prefix.n /\ Prefix.n \in Nat
          /\ ~BadPrefix /\ GuardLen(AfterPrefix, Prefix.n) /\ AfterPrefix \in Nat
          /\ off <= AfterPrefix
      BY <2>1, <2>2, PrefixPasses
    <2>4. Sliceable(AfterPrefix, ToInt(Prefix.n))
      BY <2>2, <2>3 DEF Sliceable, Ready
    <2>5. ShortLength \/ NilValue \/ Payload
      BY <1>2, <2>3, ActionOf
    <2>6. ~ShortLength
      BY <2>3 DEF ShortLength
    <2>7. CASE NilValue
      <3>1. Prefix.n = 0 /\ Advance(AfterPrefix, <<>>)
        BY <2>7 DEF NilValue, Empty
      <3>2. AfterPrefix = o
        BY <2>2, <2>3, <3>1
      <3> QED
        BY <2>1, <3>1, <3>2
    <2>8. CASE Payload
      BY <2>1, <2>2, <2>3, <2>4, <2>8 DEF Payload
    <2> QED
      BY <2>5, <2>6, <2>7, <2>8
  <1> QED
    BY <1>1, <1>2, NowFields DEF TakesBasic

LEMMA TakesSliceStep ==
  ASSUME Ready, Running, Next, NEW o \in Nat, o <= in.len, NEW more,
         TakesSlice(~Safe, in, Now, o, more)
  PROVE  Advance(o, more)
  <1>0. This.raw \in Nat /\ Safe \in BOOLEAN
    BY SchemaAssumption, SafeAssumption DEF Ready, Running, This, Shape
  <1>1. This.kind = "slice" /\ Prefixed(in, Now)
    BY NowFields DEF TakesSlice
  <1>2. \/ Bulk /\ more = <<>> /\ o = off + Prefix.c + ByteCount(Prefix.n)
        \/ /\ ~Bulk /\ o = off + Prefix.c
           /\ more = [k \in 1 .. Prefix.n |-> This.elems[1]]
           /\ Safe => o + Prefix.n <= in.len
    BY NowFields DEF TakesSlice, Bulk, ByteCount
  <1>n. ByteCount(Prefix.n) \in Nat /\ (Prefix.n = 0 => ByteCount(Prefix.n) = 0)
    BY <1>0, <1>1, NowFields DEF ByteCount, Prefixed
  <1>3. AfterPrefix <= in.len /\ (Safe => AfterPrefix + Prefix.n <= in.len)
    BY <1>0, <1>1, <1>2, <1>n, NowFields DEF AfterPrefix, Prefixed, Ready, Bulk
  <1>4. /\ PrefixRead /\ Prefix.n \in Nat /\ ~ (Prefix.n > MaxInt)
        /\ ~BadPrefix /\ GuardLen(AfterPrefix, Prefix.n) /\ AfterPrefix \in Nat
        /\ off <= AfterPrefix /\ AfterPrefix = off + Prefix.c
    BY <1>1, <1>3, PrefixPasses
  <1>5. NilValue \/ Slice
    BY <1>1, <1>4, ActionOf DEF ShortLength
  <1>6. CASE NilValue
    <2>1. Prefix.n = 0 /\ Advance(AfterPrefix, <<>>)
      BY <1>6 DEF NilValue, Empty
    <2>2. more = <<>> /\ o = AfterPrefix
      BY <1>2, <1>4, <1>n, <2>1, NothingLeft
    <2> QED
      BY <2>1, <2>2
  <1>7. CASE Slice
    <2>1. CASE Bulk
      <3>1. o = AfterPrefix + ByteCount(Prefix.n) /\ more = <<>>
        BY <1>2, <1>4, <2>1
      <3>2. Sliceable(AfterPrefix, ByteCount(Prefix.n))
        BY <1>4, <1>n, <3>1 DEF Sliceable, Ready
      <3> QED
        BY <1>4, <1>7, <2>1, <3>1, <3>2 DEF Slice
    <2>2. CASE ~Bulk
      <3>1. o = AfterPrefix /\ more = [k \in 1 .. Prefix.n |-> This.elems[1]]
        BY <1>2, <1>4, <2>2
      <3> QED
        BY <1>4, <1>7, <2>2, <3>1 DEF Slice
    <2> QED
      BY <2>1, <2>2
  <1> QED
    BY <1>5, <1>6, <1>7

LEMMA TakesArrayStep ==
  ASSUME Ready, Running, Next, NEW o \in Nat, o <= in.len, NEW more,
         TakesArray(~Safe, in, Now, o, more)
  PROVE  Advance(o, more)
  <1>0. This.raw \in Nat /\ This.size \in Nat /\ Safe \in BOOLEAN
    BY SchemaAssumption, SafeAssumption DEF Ready, Running, This, Shape
  <1>1. This.kind = "array" /\ Array
    BY NowFields, ActionOf DEF TakesArray
  <1>2. \/ Bulk /\ This.size > 0 /\ more = <<>> /\ o = off + ByteCount(This.size)
        \/ /\ ~ (Bulk /\ This.size > 0) /\ o = off
           /\ more = [k \in 1 .. This.size |-> This.elems[1]]
    BY NowFields DEF TakesArray, Bulk, ByteCount
  <1>3. ByteCount(This.size) \in Nat
    BY <1>0 DEF ByteCount
  <1>4. Bulk /\ This.size > 0 => Sliceable(off, ByteCount(This.size))
    BY <1>2, <1>3 DEF Sliceable, Ready
  <1> QED
    BY <1>1, <1>2, <1>4 DEF Array

LEMMA TakesPointerStep ==
  ASSUME Ready, Running, Next, NEW o \in Nat, o <= in.len, NEW more,
         TakesPointer(in, Now, o, more)
  PROVE  Advance(o, more)
  <1>1. This.kind = "pointer" /\ Pointer /\ o = off + 1
        /\ more = IF in.data[off + 1] # 0 THEN This.elems ELSE <<>>
    BY NowFields, ActionOf DEF TakesPointer
  <1>2. GuardN(1) /\ Indexable(off, 1)
    BY <1>1 DEF GuardN, Indexable, Ready
  <1> QED
    BY <1>1, <1>2 DEF Pointer

LEMMA TakesMapStep ==
  ASSUME Ready, Running, Next, NEW o \in Nat, o <= in.len, NEW more,
         TakesMap(~Safe, in, Now, o, more)
  PROVE  Advance(o, more)
  <1>1. /\ This.kind = "map" /\ Prefixed(in, Now) /\ o = off + Prefix.c
        /\ more = [k \in 1 .. (2 * Prefix.n) |-> This.elems[IF k % 2 = 1 THEN 1 ELSE 2]]
        /\ Safe => o + Prefix.n <= in.len
    BY SafeAssumption, NowFields DEF TakesMap
  <1>2. AfterPrefix = o
    BY <1>1 DEF AfterPrefix
  <1>3. /\ PrefixRead /\ Prefix.n \in Nat /\ ~BadPrefix /\ GuardLen(AfterPrefix, Prefix.n)
    BY <1>1, <1>2, PrefixPasses
  <1>4. NilValue \/ Map
    BY <1>1, <1>3, ActionOf DEF ShortLength
  <1>5. CASE NilValue
    <2>1. Prefix.n = 0 /\ Advance(AfterPrefix, <<>>)
      BY <1>5 DEF NilValue, Empty
    <2>2. more = <<>>
      BY <1>1, <2>1, NothingLeft
    <2> QED
      BY <1>2, <2>1, <2>2
  <1>6. CASE Map
    BY <1>1, <1>2, <1>6 DEF Map
  <1> QED
    BY <1>4, <1>5, <1>6

LEMMA TakesUnionStep ==
  ASSUME Ready, Running, Next, NEW o \in Nat, o <= in.len, NEW more,
         TakesUnion(in, Now, o, more)
  PROVE  Advance(o, more)
  <1>1. /\ This.kind = "union" /\ Prefixed(in, Now) /\ o = off + Prefix.c
        /\ \/ Prefix.n = 0 /\ more = <<>>
           \/ /\ Prefix.n # 0 /\ Prefix.n <= Len(This.elems)
              /\ more = <<This.elems[Prefix.n]>>
    BY NowFields DEF TakesUnion
  <1>2. AfterPrefix = o
    BY <1>1 DEF AfterPrefix
  <1>3. PrefixRead /\ Prefix.n \in Nat /\ ~BadPrefix
    BY <1>1, <1>2, PrefixPasses
  <1>4. NilValue \/ Union
    BY <1>1, <1>3, ActionOf
  <1>5. CASE NilValue
    BY <1>1, <1>2, <1>5 DEF NilValue, Empty
  <1>6. CASE Union
    <2>1. Prefix.n # 0
      BY <1>1, <1>6 DEF Union, Empty
    <2>2. This.elems \in Seq(Type)
      BY SchemaAssumption DEF Ready, Running, This, Shape
    <2>3. ~ (Prefix.n > Len(This.elems))
      BY <1>1, <1>3, <2>1, <2>2
    <2> QED
      BY <1>1, <1>2, <1>6, <2>1, <2>3 DEF Union
  <1> QED
    BY <1>4, <1>5, <1>6

LEMMA TakesBlockStep ==
  ASSUME Ready, Running, Next, NEW o \in Nat, o <= in.len, NEW more,
         TakesBlock(~Safe, Now, o, more)
  PROVE  Advance(o, more)
  <1>1. /\ This.kind = "struct" /\ Struct /\ Bulk /\ o = off + This.raw /\ more = <<>>
    BY NowFields, ActionOf DEF TakesBlock, Bulk
  <1>2. This.raw \in Nat
    BY SchemaAssumption DEF Ready, Running, This, Shape
  <1>3. InSlice(off)
    BY <1>1, <1>2 DEF InSlice, Ready
  <1> QED
    BY <1>1, <1>3 DEF Struct

\* What the buffer holds is what is decoded.
LEMMA TakesStep ==
  ASSUME Ready, todo # <<>>, Next, NEW o \in Nat, o <= in.len, NEW more,
         Takes(~Safe, in, Now, o, more)
  PROVE  Advance(o, more)
  <1>1. Running
    BY DEF Ready, Running
  <1> QED
    BY <1>1, TakesBasicStep, TakesSliceStep, TakesArrayStep, TakesPointerStep,
       TakesMapStep, TakesUnionStep, TakesBlockStep DEF Takes

\* A struct that is not copied is decoded by a method of its own.
LEMMA CallsStep ==
  ASSUME Ready, todo # <<>>, Next, off <= in.len, This.kind = "struct", ~Bulk
  PROVE  Enter
  <1>1. Running /\ InSlice(off)
    BY DEF Ready, Running, InSlice
  <1> QED
    BY <1>1, ActionOf DEF Struct

\* A method that has nothing left to decode returns.
LEMMA ReturnsStep ==
  ASSUME phase = "run", todo = <<>>, Next
  PROVE  /\ callers # <<>> => Return
         /\ callers = <<>> => Finish
  BY DEF Next, Running, BadPrefix, ShortLength, NilValue, Payload, Slice, Map, Union,
         Fixed, Block, Array, Pointer, Struct, Owned, Return, ReturnError, Finish

\* Nothing happens after the user's method has returned.
LEMMA DoneIsDone ==
  ASSUME phase = "done", Next
  PROVE  FALSE
  BY DEF Next, Running, BadPrefix, ShortLength, NilValue, Payload, Slice, Map, Union,
         Fixed, Block, Array, Pointer, Struct, Owned, Return, ReturnError, Finish
=============================================================================
