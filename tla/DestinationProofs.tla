------------------------- MODULE DestinationProofs -------------------------
(***************************************************************************)
(* Proofs about Destination, for every schema, every set of messages and   *)
(* any number of calls.                                                    *)
(***************************************************************************)
EXTENDS Destination, SequenceTheorems, TLAPS

SafeProofs == INSTANCE DecoderProofs WITH Safe <- TRUE
FastProofs == INSTANCE DecoderProofs WITH Safe <- FALSE

-----------------------------------------------------------------------------
(***************************************************************************)
(* The decoder inside.  Its steps and its types are those DecoderProofs is *)
(* about, and what that module assumes is so here.                         *)
(***************************************************************************)

LEMMA SafeNext == DecSafe!Next <=> SafeProofs!Next
  BY DEF DecSafe!Next, SafeProofs!Next, DecSafe!BadPrefix, SafeProofs!BadPrefix,
         DecSafe!ShortLength, SafeProofs!ShortLength, DecSafe!NilValue,
         SafeProofs!NilValue, DecSafe!Payload, SafeProofs!Payload, DecSafe!Slice,
         SafeProofs!Slice, DecSafe!Map, SafeProofs!Map, DecSafe!Union,
         SafeProofs!Union, DecSafe!Fixed, SafeProofs!Fixed, DecSafe!Block,
         SafeProofs!Block, DecSafe!Array, SafeProofs!Array, DecSafe!Pointer,
         SafeProofs!Pointer, DecSafe!Struct, SafeProofs!Struct, DecSafe!Owned,
         SafeProofs!Owned, DecSafe!Return, SafeProofs!Return, DecSafe!ReturnError,
         SafeProofs!ReturnError, DecSafe!Finish, SafeProofs!Finish, DecSafe!Running,
         SafeProofs!Running, DecSafe!This, SafeProofs!This, DecSafe!Bulk,
         SafeProofs!Bulk, DecSafe!Prefix, SafeProofs!Prefix, DecSafe!PrefixRead,
         SafeProofs!PrefixRead, DecSafe!AfterPrefix, SafeProofs!AfterPrefix,
         DecSafe!Empty, SafeProofs!Empty, DecSafe!InSlice, SafeProofs!InSlice,
         DecSafe!Indexable, SafeProofs!Indexable, DecSafe!Sliceable,
         SafeProofs!Sliceable, DecSafe!GuardN, SafeProofs!GuardN, DecSafe!GuardLen,
         SafeProofs!GuardLen, DecSafe!ToInt, SafeProofs!ToInt, DecSafe!ToUint,
         SafeProofs!ToUint, DecSafe!ByteCount, SafeProofs!ByteCount, DecSafe!Advance,
         SafeProofs!Advance, DecSafe!Fail, SafeProofs!Fail, DecSafe!Panic,
         SafeProofs!Panic, DecSafe!Enter, SafeProofs!Enter, DecSafe!NoErr,
         SafeProofs!NoErr, DecSafe!ErrShortBuffer, SafeProofs!ErrShortBuffer,
         DecSafe!ErrUnknownUnionTag, SafeProofs!ErrUnknownUnionTag, DecSafe!ErrOwned,
         SafeProofs!ErrOwned

LEMMA FastNext == DecFast!Next <=> FastProofs!Next
  BY DEF DecFast!Next, FastProofs!Next, DecFast!BadPrefix, FastProofs!BadPrefix,
         DecFast!ShortLength, FastProofs!ShortLength, DecFast!NilValue,
         FastProofs!NilValue, DecFast!Payload, FastProofs!Payload, DecFast!Slice,
         FastProofs!Slice, DecFast!Map, FastProofs!Map, DecFast!Union,
         FastProofs!Union, DecFast!Fixed, FastProofs!Fixed, DecFast!Block,
         FastProofs!Block, DecFast!Array, FastProofs!Array, DecFast!Pointer,
         FastProofs!Pointer, DecFast!Struct, FastProofs!Struct, DecFast!Owned,
         FastProofs!Owned, DecFast!Return, FastProofs!Return, DecFast!ReturnError,
         FastProofs!ReturnError, DecFast!Finish, FastProofs!Finish, DecFast!Running,
         FastProofs!Running, DecFast!This, FastProofs!This, DecFast!Bulk,
         FastProofs!Bulk, DecFast!Prefix, FastProofs!Prefix, DecFast!PrefixRead,
         FastProofs!PrefixRead, DecFast!AfterPrefix, FastProofs!AfterPrefix,
         DecFast!Empty, FastProofs!Empty, DecFast!InSlice, FastProofs!InSlice,
         DecFast!Indexable, FastProofs!Indexable, DecFast!Sliceable,
         FastProofs!Sliceable, DecFast!GuardN, FastProofs!GuardN, DecFast!GuardLen,
         FastProofs!GuardLen, DecFast!ToInt, FastProofs!ToInt, DecFast!ToUint,
         FastProofs!ToUint, DecFast!ByteCount, FastProofs!ByteCount, DecFast!Advance,
         FastProofs!Advance, DecFast!Fail, FastProofs!Fail, DecFast!Panic,
         FastProofs!Panic, DecFast!Enter, FastProofs!Enter, DecFast!NoErr,
         FastProofs!NoErr, DecFast!ErrShortBuffer, FastProofs!ErrShortBuffer,
         DecFast!ErrUnknownUnionTag, FastProofs!ErrUnknownUnionTag, DecFast!ErrOwned,
         FastProofs!ErrOwned

LEMMA SameType ==
  /\ DecSafe!TypeOK <=> SafeProofs!TypeOK
  /\ DecSafe!TypeOK <=> FastProofs!TypeOK
  /\ DecSafe!TypeOK' <=> SafeProofs!TypeOK'
  /\ DecSafe!TypeOK' <=> FastProofs!TypeOK'
  BY DEF DecSafe!TypeOK, SafeProofs!TypeOK, FastProofs!TypeOK,
         DecSafe!Frame, SafeProofs!Frame, FastProofs!Frame,
         DecSafe!Errors, SafeProofs!Errors, FastProofs!Errors,
         DecSafe!NoErr, SafeProofs!NoErr, FastProofs!NoErr,
         DecSafe!ErrShortBuffer, SafeProofs!ErrShortBuffer, FastProofs!ErrShortBuffer,
         DecSafe!ErrUnknownUnionTag, SafeProofs!ErrUnknownUnionTag,
         FastProofs!ErrUnknownUnionTag,
         DecSafe!ErrOwned, SafeProofs!ErrOwned, FastProofs!ErrOwned

LEMMA InputType ==
  /\ Input \subseteq [data : Seq(Nat), len : Nat]
  /\ \A x \in Input : x.len <= Len(x.data) /\ Len(x.data) <= MaxInt
  <1> SUFFICES ASSUME NEW x \in Input
               PROVE  /\ x \in [data : Seq(Nat), len : Nat]
                      /\ x.len <= Len(x.data) /\ Len(x.data) <= MaxInt
    OBVIOUS
  <1> PICK s \in BOOLEAN, t \in Roots :
        \E d \in Buffers[s][t] : \E n \in 0 .. MaxInt : x = [data |-> d, len |-> n]
    BY DEF Input, Given
  <1>1. PICK d \in Buffers[s][t], n \in 0 .. MaxInt : x = [data |-> d, len |-> n]
    OBVIOUS
  <1>2. d \in Seq(Nat) /\ Len(d) <= MaxInt
    BY BuffersAssumption
  <1>3. x.len <= Len(x.data)
    BY DEF Input
  <1>4. n \in Nat
    BY MaxIntAssumption
  <1> QED
    BY <1>1, <1>2, <1>3, <1>4

LEMMA SafeAssumptions ==
  /\ SafeProofs!MaxIntAssumption /\ SafeProofs!SafeAssumption
  /\ SafeProofs!SchemaAssumption /\ SafeProofs!RootsAssumption
  /\ SafeProofs!InputAssumption /\ SafeProofs!UvarintAssumption
  <1>1. SafeProofs!MaxIntAssumption /\ SafeProofs!SafeAssumption
    BY MaxIntAssumption DEF SafeProofs!MaxIntAssumption, SafeProofs!SafeAssumption
  <1>2. SafeProofs!SchemaAssumption
    BY DecoderAssumption
       DEF DecSafe!SchemaAssumption, SafeProofs!SchemaAssumption, DecSafe!Shape,
           SafeProofs!Shape, DecSafe!Kind, SafeProofs!Kind
  <1>3. SafeProofs!RootsAssumption /\ SafeProofs!UvarintAssumption
    BY DecoderAssumption
       DEF DecSafe!RootsAssumption, SafeProofs!RootsAssumption,
           DecSafe!UvarintAssumption, SafeProofs!UvarintAssumption
  <1>4. SafeProofs!InputAssumption
    BY InputType DEF SafeProofs!InputAssumption
  <1> QED
    BY <1>1, <1>2, <1>3, <1>4

LEMMA FastAssumptions ==
  /\ FastProofs!MaxIntAssumption /\ FastProofs!SafeAssumption
  /\ FastProofs!SchemaAssumption /\ FastProofs!RootsAssumption
  /\ FastProofs!InputAssumption /\ FastProofs!UvarintAssumption
  <1>1. FastProofs!MaxIntAssumption /\ FastProofs!SafeAssumption
    BY MaxIntAssumption DEF FastProofs!MaxIntAssumption, FastProofs!SafeAssumption
  <1>2. FastProofs!SchemaAssumption
    BY DecoderAssumption
       DEF DecSafe!SchemaAssumption, FastProofs!SchemaAssumption, DecSafe!Shape,
           FastProofs!Shape, DecSafe!Kind, FastProofs!Kind
  <1>3. FastProofs!RootsAssumption /\ FastProofs!UvarintAssumption
    BY DecoderAssumption
       DEF DecSafe!RootsAssumption, FastProofs!RootsAssumption,
           DecSafe!UvarintAssumption, FastProofs!UvarintAssumption
  <1>4. FastProofs!InputAssumption
    BY InputType DEF FastProofs!InputAssumption
  <1> QED
    BY <1>1, <1>2, <1>3, <1>4

\* A step of Unmarshal keeps the decoder's types, whatever the mode is.
LEMMA StepType == DecSafe!TypeOK /\ Step => DecSafe!TypeOK'
  BY SafeNext, FastNext, SameType, SafeAssumptions, FastAssumptions,
     SafeProofs!NextType, FastProofs!NextType DEF Step

\* The expressions that the expression at hand is made of.
Parts ==
  CASE This.kind \in { "fixed", "block", "string", "bytes", "struct", "owned" } -> << >>
    [] This.kind = "slice" ->
         IF Bulk THEN << >> ELSE [k \in 1 .. Count |-> This.elems[1]]
    [] This.kind = "array" ->
         IF Bulk THEN << >> ELSE [k \in 1 .. This.size |-> This.elems[1]]
    [] This.kind = "pointer" -> IF in.data[off + 1] # 0 THEN This.elems ELSE << >>
    [] This.kind = "map" ->
         [k \in 1 .. (2 * Count) |-> This.elems[IF k % 2 = 1 THEN 1 ELSE 2]]
    [] This.kind = "union" -> IF Count = 0 THEN << >> ELSE <<This.elems[Count]>>

Prefixed == { "string", "bytes", "slice", "map", "union" }

\* What the expression at hand has to be for a step to decode it without a call.
Decodable ==
  /\ This.kind \in Prefixed => Count \in Nat /\ Start \in Int
  /\ This.kind = "union" => Count <= Len(This.elems)
  /\ This.kind = "struct" => Bulk

LEMMA PartsStep ==
  ASSUME DecSafe!TypeOK, Step, phase = "run", phase' = "run", callers' = callers,
         todo # << >>
  PROVE  todo' = Parts \o Tail(todo) /\ Decodable /\ in' = in
  <1> USE SameType DEF Prefixed, This, Count, DecSafe!This, DecSafe!Prefix
  <1>0. off \in Int
    BY DEF DecSafe!TypeOK
  <1>1. CASE safe /\ DecSafe!Next
    <2>1. /\ todo' = SafeProofs!Parts \o Tail(todo) /\ in' = in
          /\ SafeProofs!This.kind \in Prefixed =>
               SafeProofs!Prefix.n \in Nat /\ SafeProofs!Prefix.c \in Int
          /\ SafeProofs!This.kind = "union" =>
               SafeProofs!Prefix.n <= Len(SafeProofs!This.elems)
          /\ SafeProofs!This.kind = "struct" => SafeProofs!Bulk
      BY <1>1, SafeNext, SafeAssumptions, SafeProofs!PartsStep
    <2>2. SafeProofs!Parts = Parts
      BY <1>1 DEF Parts, Bulk, SafeProofs!Parts, SafeProofs!This, SafeProofs!Prefix, SafeProofs!Bulk
    <2>3. Decodable
      BY <1>1, <1>0, <2>1 DEF Decodable, Bulk, Start, DecSafe!AfterPrefix,
         SafeProofs!This, SafeProofs!Prefix, SafeProofs!Bulk
    <2> QED
      BY <2>1, <2>2, <2>3
  <1>2. CASE ~safe /\ DecFast!Next
    <2>1. /\ todo' = FastProofs!Parts \o Tail(todo) /\ in' = in
          /\ FastProofs!This.kind \in Prefixed =>
               FastProofs!Prefix.n \in Nat /\ FastProofs!Prefix.c \in Int
          /\ FastProofs!This.kind = "union" =>
               FastProofs!Prefix.n <= Len(FastProofs!This.elems)
          /\ FastProofs!This.kind = "struct" => FastProofs!Bulk
      BY <1>2, FastNext, FastAssumptions, FastProofs!PartsStep
    <2>2. FastProofs!Parts = Parts
      BY <1>2 DEF Parts, Bulk, FastProofs!Parts, FastProofs!This, FastProofs!Prefix, FastProofs!Bulk
    <2>3. Decodable
      BY <1>2, <1>0, <2>1 DEF Decodable, Bulk, Start, DecSafe!AfterPrefix,
         FastProofs!This, FastProofs!Prefix, FastProofs!Bulk
    <2> QED
      BY <2>1, <2>2, <2>3
  <1> QED
    BY <1>1, <1>2 DEF Step

LEMMA CallStep ==
  ASSUME DecSafe!TypeOK, Step, Len(callers') > Len(callers)
  PROVE  /\ phase = "run" /\ todo # << >> /\ This.kind = "struct"
         /\ todo' = This.elems
         /\ callers' = <<[base |-> base, todo |-> Tail(todo)]>> \o callers
         /\ in' = in
  <1> USE SameType, SafeNext, FastNext, SafeAssumptions, FastAssumptions
  <1>1. CASE safe /\ DecSafe!Next
    BY <1>1, SafeProofs!CallStep
       DEF This, DecSafe!This, SafeProofs!Running, SafeProofs!This, SafeProofs!Enter
  <1>2. CASE ~safe /\ DecFast!Next
    BY <1>2, FastProofs!CallStep
       DEF This, DecSafe!This, FastProofs!Running, FastProofs!This, FastProofs!Enter
  <1> QED
    BY <1>1, <1>2 DEF Step

LEMMA ReturnStep ==
  ASSUME DecSafe!TypeOK, Step, Len(callers') < Len(callers)
  PROVE  /\ callers # << >> /\ callers' = Tail(callers)
         /\ todo' = Head(callers).todo
         /\ in' = in
  BY SameType, SafeNext, FastNext, SafeAssumptions, FastAssumptions,
     SafeProofs!ReturnStep, FastProofs!ReturnStep DEF Step

LEMMA RootStays == Step => root' = root
  BY SafeNext, FastNext, SafeAssumptions, FastAssumptions, SafeProofs!RootStays,
     FastProofs!RootStays DEF Step

LEMMA StopStep ==
  ASSUME DecSafe!TypeOK, Step, phase' # "run", callers' = callers
  PROVE  UNCHANGED <<todo, in>>
  BY SameType, SafeNext, FastNext, SafeAssumptions, FastAssumptions,
     SafeProofs!StopStep, FastProofs!StopStep DEF Step

\* The shape of the expression at hand.
LEMMA ThisType ==
  ASSUME DecSafe!TypeOK, todo # << >>
  PROVE  /\ Head(todo) \in Type /\ Tail(todo) \in Seq(Type)
         /\ This = Schema[Head(todo)]
         /\ This.kind \in DecSafe!Kind
         /\ This.size \in Nat /\ This.raw \in Nat /\ This.elems \in Seq(Type)
         /\ This.kind \in { "slice", "array", "pointer" } => Len(This.elems) = 1
         /\ This.kind = "map" => Len(This.elems) = 2
  <1>1. Head(todo) \in Type /\ Tail(todo) \in Seq(Type)
    BY DEF DecSafe!TypeOK
  <1>2. This = Schema[Head(todo)] /\ This \in DecSafe!Shape
    BY <1>1, DecoderAssumption DEF This, DecSafe!This, DecSafe!SchemaAssumption
  <1> QED
    BY <1>1, <1>2, DecoderAssumption DEF DecSafe!SchemaAssumption, DecSafe!Shape

-----------------------------------------------------------------------------
(***************************************************************************)
(* What a memory looks like at any time.                                   *)
(***************************************************************************)

MemoryFields == { "raw", "refs", "entries", "next", "dest", "after", "waiting" }

Path == Seq(Int) \ { << >> }

\* Where a variable can be.
Location == { l \in Path : l[1] > 0 /\ l[Len(l)] >= 0 }

Header == [obj : Int, lo : Int, n : Nat, cap : Int, tag : Nat]

\* What the variable at the place p, a type and a location, may refer to in mode
\* s: only strings and []byte of fast mode refer to an input buffer.
RefOK(s, p, r) ==
  /\ r \in Header
  /\ r.obj = 0 => r = Nil
  /\ r.obj > 0 => r.lo >= 0
  /\ r.obj < 0 => ~s /\ Schema[p[1]].kind \in { "string", "bytes" }

EntryAssignment ==
  [is : { "entry" }, left : Int, of : Int, key : Type \X Location, val : Location]

MemberAssignment(s) ==
  { a \in [is : { "member" }, left : Int, at : Type \X Location, ref : Header] :
      RefOK(s, a.at, a.ref) }

Assignment(s) == EntryAssignment \cup MemberAssignment(s)

MemoryOK(s, m) ==
  /\ DOMAIN m = MemoryFields
  /\ m.next \in Int /\ m.next > 0
  /\ DOMAIN m.raw \subseteq Path
  /\ DOMAIN m.refs \subseteq Type \X Location
  /\ \A p \in DOMAIN m.refs : RefOK(s, p, m.refs[p])
  /\ m.dest \in Seq(Location)
  /\ m.after \in Seq(Assignment(s))
  /\ m.waiting \in Seq([dest : Seq(Location), after : Seq(Assignment(s))])

\* Each expression to decode has its place, in the methods that wait too.
Aligned(m) ==
  /\ Len(m.dest) = Len(todo)
  /\ Len(m.waiting) = Len(callers)
  /\ \A k \in 1 .. Len(callers) : Len(m.waiting[k].dest) = Len(callers[k].todo)

\* A place claims the object it refers to, or is about to refer to.
Pending(m) ==
  { m.after[k] : k \in DOMAIN m.after } \cup
  UNION { { m.waiting[j].after[k] : k \in DOMAIN m.waiting[j].after } : j \in DOMAIN m.waiting }

Claims(m) ==
  { <<p, m.refs[p].obj>> : p \in DOMAIN m.refs } \cup
  { <<a.at, a.ref.obj>> : a \in { b \in Pending(m) : b.is = "member" } }

\* No object is claimed twice, and none that is not allocated.
ClaimedOnce(m) ==
  /\ \A c, d \in Claims(m) : c[2] = d[2] /\ c[2] > 0 => c[1] = d[1]
  /\ \A c \in Claims(m) : c[2] < m.next

\* The buffer being decoded is in memory as it was given.
Holds(m) == <<input>> \in DOMAIN m.raw /\ m.raw[<<input>>] = in.data

\* Which assignments are made when.
Timing(after) == [k \in DOMAIN after |-> <<after[k].is, after[k].left>>]

InLockstep(m, n) ==
  /\ Timing(m.after) = Timing(n.after)
  /\ Len(m.waiting) = Len(n.waiting)
  /\ \A k \in 1 .. Len(m.waiting) : Timing(m.waiting[k].after) = Timing(n.waiting[k].after)

CallOK ==
  /\ root \in Roots /\ safe \in BOOLEAN /\ calls \in Nat /\ input \in Int
  /\ phase = "idle" => calls = 0 /\ input = 0
  /\ phase # "idle" => /\ DecSafe!TypeOK
                       /\ in.data \in Buffers[safe][root]
                       /\ input < 0

MemoryInv ==
  /\ CallOK
  /\ mem = [w \in World |-> mem[w]]
  /\ \A w \in World :
       /\ MemoryOK(safe, mem[w])
       /\ ClaimedOnce(mem[w])
       /\ phase # "idle" => Aligned(mem[w]) /\ Holds(mem[w])
  /\ InLockstep(mem["used"], mem["fresh"])

-----------------------------------------------------------------------------
(***************************************************************************)
(* The operators Destination's memories are changed with.                  *)
(***************************************************************************)

\* b is m with memory allocated and written to, but no input buffer, and with
\* assignments awaited.
Prepared(m, b, due) ==
  /\ DOMAIN b = MemoryFields
  /\ b.refs = m.refs /\ b.dest = m.dest /\ b.waiting = m.waiting
  /\ b.after = due \o m.after
  /\ b.next \in Int /\ m.next <= b.next
  /\ DOMAIN b.raw \subseteq Path
  /\ \A l \in DOMAIN m.raw : l[1] < 0 => l \in DOMAIN b.raw /\ b.raw[l] = m.raw[l]

LEMMA PathType ==
  \A l \in Path : Len(l) \in Nat \ { 0 } /\ l[1] \in Int /\ l[Len(l)] \in Int
  BY DEF Path

LEMMA PreparedSelf ==
  ASSUME NEW s, NEW m, MemoryOK(s, m)
  PROVE  Prepared(m, m, << >>)
  <1>1. << >> \o m.after = m.after
    BY DEF MemoryOK
  <1> QED
    BY <1>1 DEF MemoryOK, Prepared

LEMMA PreparedPut ==
  ASSUME NEW m, NEW b, NEW due, Prepared(m, b, due),
         NEW l \in Path, l[1] >= 0, NEW bytes
  PROVE  Prepared(m, Put(b, l, bytes), due)
  <1> DEFINE c == Put(b, l, bytes)
  <1>1. /\ DOMAIN c = MemoryFields
        /\ c.refs = b.refs /\ c.dest = b.dest /\ c.waiting = b.waiting
        /\ c.after = b.after /\ c.next = b.next
        /\ c.raw = With(b.raw, l, bytes)
    BY DEF Put, Prepared, MemoryFields
  <1> HIDE DEF c
  <1>2. DOMAIN c.raw = { l } \cup DOMAIN b.raw
    BY <1>1 DEF With, Updated
  <1>3. \A x \in DOMAIN b.raw : x # l => c.raw[x] = b.raw[x]
    BY <1>1 DEF With, Updated
  <1>4. \A x \in DOMAIN m.raw : x[1] < 0 => x # l
    BY PathType
  <1>9. Prepared(m, c, due)
    BY <1>1, <1>2, <1>3, <1>4 DEF Prepared
  <1> QED
    BY <1>9, <1>1 DEF c

LEMMA PreparedAlloc ==
  ASSUME NEW m, NEW b, NEW due, Prepared(m, b, due), m.next \in Int, NEW n \in Nat
  PROVE  Prepared(m, Alloc(b, n), due) /\ Alloc(b, n).next = b.next + n
  <1> DEFINE c == Alloc(b, n)
  <1>1. /\ DOMAIN c = MemoryFields
        /\ c.refs = b.refs /\ c.dest = b.dest /\ c.waiting = b.waiting
        /\ c.after = b.after /\ c.next = b.next + n
        /\ c.raw = b.raw
    BY DEF Alloc, Prepared, MemoryFields
  <1> HIDE DEF c
  <1>2. b.next + n \in Int /\ m.next <= b.next + n
    BY DEF Prepared
  <1>9. Prepared(m, c, due)
    BY <1>1, <1>2 DEF Prepared
  <1> QED
    BY <1>9, <1>1 DEF c

LEMMA PreparedCopy ==
  ASSUME NEW m, NEW b, NEW due, Prepared(m, b, due), DOMAIN m.raw \subseteq Path,
         NEW blocks, DOMAIN blocks \subseteq Location
  PROVE  Prepared(m, Copy(b, blocks), due)
  <1> DEFINE Covered(k) == \E n \in 1 .. Len(k) - 1 : SubSeq(k, 1, n) \in DOMAIN blocks
             c == Copy(b, blocks)
             kept == [k \in { j \in DOMAIN b.raw : ~Covered(j) } |-> b.raw[k]]
  <1>1. /\ DOMAIN c = MemoryFields
        /\ c.refs = b.refs /\ c.dest = b.dest /\ c.waiting = b.waiting
        /\ c.after = b.after /\ c.next = b.next
        /\ c.raw = Updated(kept, blocks)
    BY DEF Copy, Prepared, MemoryFields
  <1>dom. /\ DOMAIN kept = { j \in DOMAIN b.raw : ~Covered(j) }
          /\ \A x \in DOMAIN kept : kept[x] = b.raw[x]
    OBVIOUS
  <1>first. \A x \in DOMAIN blocks : x[1] \in Int /\ x[1] > 0
    BY PathType DEF Location
  <1> HIDE DEF c, kept, Covered
  <1>2. DOMAIN c.raw = DOMAIN blocks \cup DOMAIN kept
    BY <1>1 DEF Updated
  <1>3. \A x \in DOMAIN kept : x \notin DOMAIN blocks => c.raw[x] = b.raw[x]
    BY <1>1, <1>dom DEF Updated
  <1>4. DOMAIN c.raw \subseteq Path
    BY <1>2, <1>dom DEF Prepared, Location
  <1>5. ASSUME NEW l \in DOMAIN m.raw, l[1] < 0
        PROVE  l \in DOMAIN c.raw /\ c.raw[l] = m.raw[l]
    <2>1. l \in DOMAIN b.raw /\ b.raw[l] = m.raw[l] /\ l \in Path
      BY <1>5 DEF Prepared
    <2>2. ~Covered(l)
      <3> SUFFICES ASSUME NEW n \in 1 .. Len(l) - 1, SubSeq(l, 1, n) \in DOMAIN blocks
                   PROVE  FALSE
        BY DEF Covered
      <3> DEFINE x == SubSeq(l, 1, n)
      <3>1. x[1] = l[1] /\ x \in DOMAIN blocks
        BY <2>1 DEF Path
      <3> HIDE DEF x
      <3> QED
        BY <3>1, <2>1, <1>5, <1>first, PathType
    <2>3. l \in DOMAIN kept /\ l \notin DOMAIN blocks
      BY <2>1, <2>2, <1>5, <1>dom, <1>first, PathType
    <2> QED
      BY <1>2, <1>3, <2>1, <2>3
  <1>9. Prepared(m, c, due)
    BY <1>1, <1>4, <1>5 DEF Prepared
  <1> QED
    BY <1>9, <1>1 DEF c

LEMMA PreparedAwait ==
  ASSUME NEW s, NEW m, MemoryOK(s, m), NEW b, Prepared(m, b, << >>),
         NEW due \in Seq(Assignment(s))
  PROVE  Prepared(m, Await(b, due), due)
  <1> DEFINE c == Await(b, due)
  <1>1. /\ DOMAIN c = MemoryFields
        /\ c.refs = b.refs /\ c.dest = b.dest /\ c.waiting = b.waiting
        /\ c.after = due \o b.after /\ c.next = b.next
        /\ c.raw = b.raw
    BY DEF Await, Prepared, MemoryFields
  <1>2. b.after = m.after
    BY DEF Prepared, MemoryOK
  <1> HIDE DEF c
  <1>9. Prepared(m, c, due)
    BY <1>1, <1>2 DEF Prepared
  <1> QED
    BY <1>9, <1>1 DEF c

-----------------------------------------------------------------------------
(***************************************************************************)
(* What each branch of unmarshalExpr does to a memory.                     *)
(***************************************************************************)

\* A memory in which the expression at hand may be stored.
Storing(m) ==
  /\ DecSafe!TypeOK /\ todo # << >> /\ Decodable
  /\ safe \in BOOLEAN /\ input \in Int /\ input < 0
  /\ MemoryOK(safe, m) /\ Len(m.dest) = Len(todo)

\* What the variable at hand may come to refer to: an object of its own, the one
\* it had or a new one.
OfOnesOwn(m, n, o) ==
  o <= 0 \/ o = Old(m).obj \/ (o = m.next /\ m.next < n.next)

\* The assignments that an expression leaves for later.
Schedule ==
  IF This.kind = "map"
    THEN [k \in 1 .. Count |-> <<"entry", Len(todo) - 1 + 2 * (Count - k)>>]
    ELSE IF This.kind = "union" /\ Count # 0
           THEN << <<"member", Len(todo) - 1>> >>
           ELSE << >>

Awaited(m, n, due) ==
  /\ Timing(due) = Schedule
  /\ \A k \in DOMAIN due : due[k].is = "member" =>
       due[k].at = Place(m) /\ OfOnesOwn(m, n, due[k].ref.obj)

\* n is m with the expression at hand stored.
Stores(m, n) ==
  \E due \in Seq(Assignment(safe)) : \E more \in Seq(Location) :
    /\ DOMAIN n = MemoryFields
    /\ n.dest = more \o Tail(m.dest) /\ Len(more) = Len(Parts)
    /\ n.after = due \o m.after /\ Awaited(m, n, due)
    /\ n.waiting = m.waiting
    /\ n.next \in Int /\ m.next <= n.next
    /\ DOMAIN n.raw \subseteq Path
    /\ \A l \in DOMAIN m.raw : l[1] < 0 => l \in DOMAIN n.raw /\ n.raw[l] = m.raw[l]
    /\ \/ n.refs = m.refs
       \/ \E r \in Header : /\ RefOK(safe, Place(m), r) /\ OfOnesOwn(m, n, r.obj)
                            /\ n.refs = With(m.refs, Place(m), r)

\* Where the expression at hand goes, and what is there.
LEMMA PlaceType ==
  ASSUME NEW m, Storing(m)
  PROVE  /\ Head(todo) \in Type /\ At(m) \in Location /\ Place(m) \in Type \X Location
         /\ Place(m)[1] = Head(todo)
         /\ RefOK(safe, Place(m), Old(m))
         /\ Place(m) \in DOMAIN m.refs => Old(m) = m.refs[Place(m)]
         /\ Place(m) \notin DOMAIN m.refs => Old(m) = Nil
         /\ m.dest # << >> /\ Rest(m) = Len(todo) - 1
  <1>1. m.dest # << >> /\ At(m) \in Location /\ Rest(m) = Len(todo) - 1
    BY DEF Storing, MemoryOK, At, Rest, DecSafe!TypeOK
  <1>2. Head(todo) \in Type
    BY ThisType DEF Storing
  <1>3. Place(m) \in Type \X Location /\ Place(m)[1] = Head(todo)
    BY <1>1, <1>2 DEF Place
  <1>4. /\ Place(m) \in DOMAIN m.refs => Old(m) = m.refs[Place(m)]
        /\ Place(m) \notin DOMAIN m.refs => Old(m) = Nil
    BY DEF Old, RefAt, Place
  <1>5. RefOK(safe, Place(m), Nil)
    BY DEF RefOK, Nil, Ref, Header
  <1>6. RefOK(safe, Place(m), Old(m))
    BY <1>4, <1>5 DEF Storing, MemoryOK
  <1> QED
    BY <1>1, <1>2, <1>3, <1>4, <1>6

LEMMA StoresThen ==
  ASSUME NEW m, NEW b, Storing(m), NEW due \in Seq(Assignment(safe)),
         Prepared(m, b, due), Awaited(m, b, due),
         NEW more \in Seq(Location), Len(more) = Len(Parts)
  PROVE  Stores(m, Then(b, more))
  <1> DEFINE n == Then(b, more)
  <1>1. DOMAIN b = MemoryFields
    BY DEF Prepared
  <1>2. /\ DOMAIN n = MemoryFields /\ n.dest = more \o Tail(b.dest) /\ n.raw = b.raw
        /\ n.refs = b.refs /\ n.after = b.after /\ n.waiting = b.waiting
        /\ n.next = b.next
    BY <1>1 DEF Then, MemoryFields
  <1> HIDE DEF n
  <1>3. Awaited(m, n, due)
    BY <1>2 DEF Awaited, OfOnesOwn
  <1>4. Stores(m, n)
    BY <1>2, <1>3 DEF Stores, Prepared
  <1> QED
    BY <1>4 DEF n

LEMMA StoresPoint ==
  ASSUME NEW m, NEW b, Storing(m), NEW due \in Seq(Assignment(safe)),
         Prepared(m, b, due), Awaited(m, b, due),
         NEW more \in Seq(Location), Len(more) = Len(Parts),
         NEW r, RefOK(safe, Place(m), r), OfOnesOwn(m, b, r.obj)
  PROVE  Stores(m, Point(b, r, more))
  <1> DEFINE n == Point(b, r, more)
  <1>1. DOMAIN b = MemoryFields
    BY DEF Prepared
  <1>2. /\ DOMAIN n = MemoryFields /\ n.dest = more \o Tail(b.dest) /\ n.raw = b.raw
        /\ n.refs = With(b.refs, Place(b), r)
        /\ n.after = b.after /\ n.waiting = b.waiting /\ n.next = b.next
    BY <1>1 DEF Point, Then, MemoryFields
  <1>3. Place(b) = Place(m)
    BY DEF Place, At, Prepared
  <1> HIDE DEF n
  <1>4. Awaited(m, n, due) /\ OfOnesOwn(m, n, r.obj)
    BY <1>2 DEF Awaited, OfOnesOwn
  <1>5. r \in Header
    BY DEF RefOK
  <1>6. Stores(m, n)
    BY <1>2, <1>3, <1>4, <1>5 DEF Stores, Prepared
  <1> QED
    BY <1>6 DEF n

\* An expression that leaves no assignment for later.
LEMMA NothingAwaited ==
  ASSUME NEW m, NEW b, Storing(m), This.kind = "map" \/ This.kind = "union" => Count = 0
  PROVE  /\ << >> \in Seq(Assignment(safe)) /\ Awaited(m, b, << >>)
         /\ << >> \in Seq(Location)
  <1>1. [k \in 1 .. 0 |-> <<"entry", Len(todo) - 1 + 2 * (0 - k)>>] = << >>
    OBVIOUS
  <1>2. Timing(<< >>) = << >>
    BY DEF Timing
  <1>3. Schedule = << >>
    BY <1>1 DEF Schedule
  <1> QED
    BY <1>2, <1>3 DEF Awaited

\* A prefix of zero leaves nil behind.
LEMMA StoresNil ==
  ASSUME NEW m, Storing(m), This.kind \in Prefixed, Count = 0
  PROVE  Stores(m, Point(m, Nil, << >>))
  <1>1. Len(Parts) = 0
    BY DEF Parts, Prefixed
  <1>2. Prepared(m, m, << >>)
    BY PreparedSelf DEF Storing
  <1>3. RefOK(safe, Place(m), Nil) /\ OfOnesOwn(m, m, Nil.obj)
    BY DEF RefOK, Nil, Ref, Header, OfOnesOwn
  <1> QED
    BY <1>1, <1>2, <1>3, NothingAwaited, StoresPoint

LEMMA StoresBasic ==
  ASSUME NEW m, Storing(m), This.kind \in { "fixed", "block" }
  PROVE  Stores(m, StoreBasic(m))
  <1>1. At(m) \in Path /\ At(m)[1] >= 0
    BY PlaceType, PathType DEF Location
  <1>2. Prepared(m, m, << >>)
    BY PreparedSelf DEF Storing
  <1>3. Prepared(m, Put(m, At(m), Between(off, off + This.size)), << >>)
    BY <1>1, <1>2, PreparedPut
  <1>4. Len(Parts) = 0
    BY DEF Parts
  <1> QED
    BY <1>3, <1>4, NothingAwaited, StoresThen DEF StoreBasic

LEMMA StoresOwned ==
  ASSUME NEW m, Storing(m), This.kind = "owned"
  PROVE  Stores(m, Then(m, << >>))
  <1>1. Prepared(m, m, << >>)
    BY PreparedSelf DEF Storing
  <1>2. Len(Parts) = 0
    BY DEF Parts
  <1> QED
    BY <1>1, <1>2, NothingAwaited, StoresThen

\* A view of the input buffer, which only fast mode makes.
LEMMA StoresView ==
  ASSUME NEW m, Storing(m), This.kind \in { "string", "bytes" }, ~safe
  PROVE  Stores(m, View(m))
  <1> DEFINE r == Ref(input, Start, Count, Len(in.data) - Start, 0)
  <1>1. Prepared(m, m, << >>)
    BY PreparedSelf DEF Storing
  <1>2. Len(Parts) = 0
    BY DEF Parts
  <1>3. Count \in Nat /\ Start \in Int /\ Len(in.data) \in Nat /\ input \in Int /\ input < 0
    BY InputType DEF Storing, Decodable, Prefixed, DecSafe!TypeOK
  <1>4. r \in Header /\ r.obj = input
    BY <1>3 DEF Ref, Header
  <1>5. Schema[Place(m)[1]].kind \in { "string", "bytes" }
    BY PlaceType, ThisType DEF Storing
  <1>6. RefOK(safe, Place(m), r) /\ OfOnesOwn(m, m, r.obj)
    BY <1>3, <1>4, <1>5 DEF RefOK, OfOnesOwn
  <1> HIDE DEF r
  <1>7. Stores(m, Point(m, r, << >>))
    BY <1>1, <1>2, <1>6, NothingAwaited, StoresPoint
  <1> QED
    BY <1>7 DEF View, r

\* A copy of its own.
LEMMA StoresOwn ==
  ASSUME NEW m, Storing(m), This.kind \in { "string", "bytes" }
  PROVE  Stores(m, Own(m))
  <1> DEFINE r == Ref(m.next, 0, Count, Count, 0)
             b == Put(m, <<m.next>>, Payload)
  <1>1. m.next \in Int /\ m.next > 0 /\ Count \in Nat
    BY DEF Storing, MemoryOK, Decodable, Prefixed
  <1>2. <<m.next>> \in Path /\ <<m.next>>[1] >= 0
    BY <1>1 DEF Path
  <1>3. Prepared(m, m, << >>)
    BY PreparedSelf DEF Storing
  <1>4. Prepared(m, b, << >>)
    BY <1>2, <1>3, PreparedPut
  <1>5. b.next = m.next
    BY DEF Put, Storing, MemoryOK, MemoryFields
  <1> HIDE DEF b, r
  <1>6. Prepared(m, Alloc(b, 1), << >>) /\ Alloc(b, 1).next = b.next + 1
    BY ONLY <1>1, <1>4, 1 \in Nat, PreparedAlloc
  <1> USE DEF r
  <1>7. r \in Header /\ r.obj = m.next /\ r.lo = 0
    BY <1>1 DEF Ref, Header
  <1>8. RefOK(safe, Place(m), r) /\ OfOnesOwn(m, Alloc(b, 1), r.obj)
    BY <1>1, <1>5, <1>6, <1>7 DEF RefOK, OfOnesOwn
  <1>9. Len(Parts) = 0
    BY DEF Parts
  <1> HIDE DEF r
  <1>10. Stores(m, Point(Alloc(b, 1), r, << >>))
    BY <1>6, <1>8, <1>9, NothingAwaited, StoresPoint
  <1> QED
    BY <1>10 DEF Own, r, b

\* The array []byte had: in safe mode it is no input buffer.
LEMMA StoresAppend ==
  ASSUME NEW m, Storing(m), This.kind = "bytes", safe, Count > 0, Old(m).cap >= Count
  PROVE  Stores(m, AppendInPlace(m))
  <1> DEFINE r == [Old(m) EXCEPT !.n = Count]
             array == m.raw[<<Old(m).obj>>]
             over == [k \in DOMAIN array |->
                        IF k - Old(m).lo \in DOMAIN Payload
                          THEN Payload[k - Old(m).lo] ELSE array[k]]
             b == Put(m, <<Old(m).obj>>, over)
  <1>1. Count \in Nat
    BY DEF Storing, Decodable, Prefixed
  <1>2. RefOK(safe, Place(m), Old(m)) /\ Old(m) \in Header
    BY PlaceType DEF RefOK
  <1>3. Old(m) # Nil
    BY <1>1, <1>2 DEF Nil, Ref
  <1>4. Old(m).obj \in Int /\ Old(m).obj > 0
    BY <1>2, <1>3 DEF RefOK, Header
  <1>5. <<Old(m).obj>> \in Path /\ <<Old(m).obj>>[1] >= 0
    BY <1>4 DEF Path
  <1>6. Prepared(m, m, << >>)
    BY PreparedSelf DEF Storing
  <1>7. r \in Header /\ r.obj = Old(m).obj /\ r.lo = Old(m).lo
    BY <1>1, <1>2 DEF Header
  <1>8. RefOK(safe, Place(m), r) /\ OfOnesOwn(m, b, r.obj)
    BY <1>2, <1>4, <1>7 DEF RefOK, OfOnesOwn
  <1>9. Len(Parts) = 0
    BY DEF Parts
  <1> HIDE DEF over, r
  <1>10. Prepared(m, b, << >>)
    BY <1>5, <1>6, PreparedPut
  <1> HIDE DEF b
  <1>11. Stores(m, Point(b, r, << >>))
    BY <1>8, <1>9, <1>10, NothingAwaited, StoresPoint
  <1> QED
    BY <1>11 DEF AppendInPlace, r, b, over, array

LEMMA StoresString ==
  ASSUME NEW m, Storing(m), This.kind = "string"
  PROVE  Stores(m, StoreString(m))
  <1>1. Count = 0 \/ Count > 0
    BY DEF Storing, Decodable, Prefixed
  <1> QED
    BY <1>1, StoresNil, StoresOwn, StoresView DEF StoreString, Prefixed, Storing

LEMMA StoresBytes ==
  ASSUME NEW m, Storing(m), This.kind = "bytes"
  PROVE  Stores(m, StoreBytes(m))
  <1>1. Count = 0 \/ (Count > 0 /\ Count # 0)
    BY DEF Storing, Decodable, Prefixed
  <1>2. Old(m).cap \in Int /\ Count \in Nat
    BY PlaceType DEF RefOK, Header, Storing, Decodable, Prefixed
  <1>3. CASE Count = 0
    BY <1>3, StoresNil DEF StoreBytes, Prefixed
  <1>4. CASE Count > 0 /\ ~safe
    BY <1>4, <1>1, StoresView DEF StoreBytes
  <1>5. CASE Count > 0 /\ safe /\ Old(m).cap >= Count
    BY <1>5, <1>1, <1>2, StoresAppend DEF StoreBytes
  <1>6. CASE Count > 0 /\ safe /\ Old(m).cap < Count
    BY <1>6, <1>1, <1>2, StoresOwn DEF StoreBytes
  <1> QED
    BY <1>1, <1>2, <1>3, <1>4, <1>5, <1>6 DEF Storing

LEMMA StoresBlock ==
  ASSUME NEW m, Storing(m), This.kind = "struct"
  PROVE  Stores(m, StoreBlock(m))
  <1> DEFINE end == IF in.len < off + This.raw THEN in.len ELSE off + This.raw
             held == IF At(m) \in DOMAIN m.raw THEN m.raw[At(m)] ELSE [k \in 1 .. This.raw |-> 0]
             block == Between(off, end) \o SubSeq(held, end - off + 1, This.raw)
             blocks == [l \in { At(m) } |-> block]
  <1>1. DOMAIN blocks \subseteq Location
    BY PlaceType
  <1>2. Prepared(m, m, << >>)
    BY PreparedSelf DEF Storing
  <1>3. DOMAIN m.raw \subseteq Path
    BY DEF Storing, MemoryOK
  <1>4. Len(Parts) = 0
    BY DEF Parts
  <1>5. StoreBlock(m) = Then(Copy(m, blocks), << >>)
    BY DEF StoreBlock
  <1> HIDE DEF blocks
  <1>6. Prepared(m, Copy(m, blocks), << >>)
    BY <1>1, <1>2, <1>3, PreparedCopy
  <1> QED
    BY <1>4, <1>5, <1>6, NothingAwaited, StoresThen

\* Elements are at locations behind the array's start.
LEMMA ElementLocations ==
  ASSUME NEW o \in Int, o > 0, NEW lo \in Int, lo >= 0, NEW n \in Nat
  PROVE  /\ [k \in 1 .. n |-> <<o, lo + k - 1>>] \in Seq(Location)
         /\ Len([k \in 1 .. n |-> <<o, lo + k - 1>>]) = n
  <1>1. \A k \in 1 .. n : <<o, lo + k - 1>> \in Location
    BY DEF Location, Path
  <1> QED
    BY <1>1

LEMMA ElementsType ==
  ASSUME NEW l \in Seq(Location), NEW o
  PROVE  DOMAIN Elements(l, o) \subseteq Location
  BY DEF Elements

LEMMA StoresSlice ==
  ASSUME NEW m, Storing(m), This.kind = "slice"
  PROVE  Stores(m, StoreSlice(m))
  <1> DEFINE fits == Old(m).cap >= Count
             r == IF fits THEN [Old(m) EXCEPT !.n = Count]
                          ELSE Ref(m.next, 0, Count, Count, 0)
             b == IF fits THEN m ELSE Alloc(m, 1)
             at == [k \in 1 .. Count |-> <<r.obj, r.lo + k - 1>>]
  <1>1. CASE Count = 0
    <2>1. StoreSlice(m) = Point(m, Nil, << >>)
      BY <1>1 DEF StoreSlice
    <2> QED
      BY <1>1, <2>1, StoresNil DEF Prefixed
  <1>2. CASE Count > 0
    <2>1. Count \in Nat /\ Count # 0 /\ m.next \in Int /\ m.next > 0
      BY <1>2 DEF Storing, MemoryOK, Decodable, Prefixed
    <2>2. RefOK(safe, Place(m), Old(m)) /\ Old(m) \in Header
      BY PlaceType DEF RefOK
    <2>3. Schema[Place(m)[1]].kind = "slice"
      BY PlaceType, ThisType DEF Storing
    <2>4. fits => Old(m) # Nil
      BY <2>1, <1>2 DEF Nil, Ref
    <2>5. fits => Old(m).obj > 0 /\ Old(m).lo >= 0
      BY <2>2, <2>3, <2>4 DEF RefOK, Header
    <2>6. Prepared(m, m, << >>)
      BY PreparedSelf DEF Storing
    <2>7. Prepared(m, b, << >>) /\ (~fits => b.next = m.next + 1)
      <3>1. Prepared(m, Alloc(m, 1), << >>) /\ Alloc(m, 1).next = m.next + 1
        BY <2>1, <2>6, PreparedAlloc
      <3> QED
        BY <2>6, <3>1, Zenon
    <2>8. /\ r \in Header /\ r.obj \in Int /\ r.obj > 0 /\ r.lo \in Int /\ r.lo >= 0
          /\ (fits => r.obj = Old(m).obj) /\ (~fits => r.obj = m.next)
      BY <2>1, <2>2, <2>5 DEF Ref, Header
    <2>9. StoreSlice(m) = IF Bulk THEN Point(Copy(b, Elements(at, Start)), r, << >>)
                                  ELSE Point(b, r, at)
      BY <1>2, <2>1 DEF StoreSlice
    <2> HIDE DEF r, b, fits
    <2>10. RefOK(safe, Place(m), r) /\ OfOnesOwn(m, b, r.obj)
      BY <2>1, <2>7, <2>8 DEF RefOK, OfOnesOwn
    <2>11. at \in Seq(Location) /\ Len(at) = Count
      BY <2>1, <2>8, ElementLocations
    <2> HIDE DEF at
    <2>12. CASE ~Bulk
      <3>1. Len(Parts) = Count
        BY <2>1, <2>12 DEF Parts
      <3> QED
        BY <2>7, <2>9, <2>10, <2>11, <2>12, <3>1, NothingAwaited, StoresPoint
    <2>13. CASE Bulk
      <3> DEFINE c == Copy(b, Elements(at, Start))
      <3>1. Len(Parts) = 0
        BY <2>13 DEF Parts
      <3>2. DOMAIN m.raw \subseteq Path
        BY DEF Storing, MemoryOK
      <3>3. Prepared(m, c, << >>)
        BY <2>7, <2>11, <3>2, ElementsType, PreparedCopy
      <3>4. c.next = b.next
        BY <2>7 DEF Copy, Prepared, MemoryFields
      <3> HIDE DEF c
      <3>5. OfOnesOwn(m, c, r.obj)
        BY <2>10, <3>4 DEF OfOnesOwn
      <3>6. Stores(m, Point(c, r, << >>))
        BY <2>10, <3>1, <3>3, <3>5, NothingAwaited, StoresPoint
      <3> QED
        BY <2>9, <2>13, <3>6 DEF c
    <2> QED
      BY <2>12, <2>13
  <1> QED
    BY <1>1, <1>2 DEF Storing, Decodable, Prefixed

\* The parts of an array or a struct are inside it.
LEMMA PartLocations ==
  ASSUME NEW l \in Location, NEW n \in Nat
  PROVE  /\ [k \in 1 .. n |-> l \o <<k>>] \in Seq(Location)
         /\ Len([k \in 1 .. n |-> l \o <<k>>]) = n
  <1>1. ASSUME NEW k \in 1 .. n
        PROVE  l \o <<k>> \in Location
    <2> DEFINE x == l \o <<k>>
    <2>1. l \in Seq(Int) /\ Len(l) \in Nat /\ Len(l) # 0 /\ l[1] > 0
      BY PathType DEF Location, Path
    <2>2. x \in Seq(Int) /\ Len(x) = Len(l) + 1 /\ x[Len(l) + 1] = k /\ x[1] = l[1]
      BY <2>1
    <2> HIDE DEF x
    <2>3. x # << >> /\ x[1] > 0 /\ x[Len(x)] >= 0
      BY <2>1, <2>2
    <2>4. x \in Location
      BY <2>2, <2>3 DEF Location, Path
    <2> QED
      BY <2>4 DEF x
  <1> QED
    BY <1>1

LEMMA StoresArray ==
  ASSUME NEW m, Storing(m), This.kind = "array"
  PROVE  Stores(m, StoreArray(m))
  <1> DEFINE at == [k \in 1 .. This.size |-> At(m) \o <<k>>]
  <1>1. This.size \in Nat /\ At(m) \in Location
    BY ThisType, PlaceType DEF Storing
  <1>2. at \in Seq(Location) /\ Len(at) = This.size
    BY <1>1, PartLocations
  <1>3. StoreArray(m) = IF Bulk THEN Then(Copy(m, Elements(at, off)), << >>) ELSE Then(m, at)
    BY DEF StoreArray
  <1>4. Prepared(m, m, << >>) /\ DOMAIN m.raw \subseteq Path
    BY PreparedSelf DEF Storing, MemoryOK
  <1> HIDE DEF at
  <1>5. CASE ~Bulk
    <2>1. Len(Parts) = This.size
      BY <1>1, <1>5 DEF Parts
    <2> QED
      BY <1>2, <1>3, <1>4, <1>5, <2>1, NothingAwaited, StoresThen
  <1>6. CASE Bulk
    <2>1. Len(Parts) = 0
      BY <1>6 DEF Parts
    <2>2. Prepared(m, Copy(m, Elements(at, off)), << >>)
      BY <1>2, <1>4, ElementsType, PreparedCopy
    <2> QED
      BY <1>3, <1>6, <2>1, <2>2, NothingAwaited, StoresThen
  <1> QED
    BY <1>5, <1>6

LEMMA StoresPointer ==
  ASSUME NEW m, Storing(m), This.kind = "pointer"
  PROVE  Stores(m, StorePointer(m))
  <1> DEFINE reused == Old(m) # Nil
             r == IF reused THEN Old(m) ELSE Ref(m.next, 0, 0, 0, 0)
             b == IF reused THEN m ELSE Alloc(m, 1)
  <1>1. m.next \in Int /\ m.next > 0
    BY DEF Storing, MemoryOK
  <1>2. RefOK(safe, Place(m), Old(m)) /\ Old(m) \in Header
    BY PlaceType DEF RefOK
  <1>3. Schema[Place(m)[1]].kind = "pointer"
    BY PlaceType, ThisType DEF Storing
  <1>4. reused => Old(m).obj > 0
    BY <1>2, <1>3 DEF RefOK, Header
  <1>5. Prepared(m, m, << >>)
    BY PreparedSelf DEF Storing
  <1>6. Prepared(m, b, << >>) /\ (~reused => b.next = m.next + 1)
    <2>1. Prepared(m, Alloc(m, 1), << >>) /\ Alloc(m, 1).next = m.next + 1
      BY <1>1, <1>5, PreparedAlloc
    <2> QED
      BY <1>5, <2>1, Zenon
  <1>7. /\ RefOK(safe, Place(m), r) /\ r.obj \in Int /\ r.obj > 0
        /\ (reused => r.obj = Old(m).obj) /\ (~reused => r.obj = m.next)
    BY <1>1, <1>2, <1>4 DEF RefOK, Ref, Header
  <1>8. StorePointer(m) = IF in.data[off + 1] = 0 THEN Point(m, Nil, << >>)
                          ELSE Point(b, r, << <<r.obj>> >>)
    BY DEF StorePointer
  <1> HIDE DEF r, b, reused
  <1>9. OfOnesOwn(m, b, r.obj)
    BY <1>1, <1>6, <1>7 DEF OfOnesOwn
  <1>10. CASE in.data[off + 1] = 0
    <2>1. Len(Parts) = 0
      BY <1>10 DEF Parts
    <2>2. RefOK(safe, Place(m), Nil) /\ OfOnesOwn(m, m, Nil.obj)
      BY DEF RefOK, Nil, Ref, Header, OfOnesOwn
    <2> QED
      BY <1>5, <1>8, <1>10, <2>1, <2>2, NothingAwaited, StoresPoint
  <1>11. CASE in.data[off + 1] # 0
    <2>1. Len(Parts) = 1
      BY <1>11, ThisType DEF Parts, Storing
    <2>2. << <<r.obj>> >> \in Seq(Location) /\ Len(<< <<r.obj>> >>) = 1
      BY <1>7 DEF Location, Path
    <2> QED
      BY <1>6, <1>7, <1>8, <1>9, <1>11, <2>1, <2>2, NothingAwaited, StoresPoint
  <1> QED
    BY <1>10, <1>11

\* The variables of a map's iterations are new objects.
LEMMA NewLocations ==
  ASSUME NEW first \in Int, first > 0, NEW n \in Nat
  PROVE  /\ [j \in 1 .. n |-> <<first + j - 1>>] \in Seq(Location)
         /\ Len([j \in 1 .. n |-> <<first + j - 1>>]) = n
  <1>1. \A j \in 1 .. n : <<first + j - 1>> \in Location
    BY DEF Location, Path
  <1> DEFINE l == [j \in 1 .. n |-> <<first + j - 1>>]
  <1>2. l \in [1 .. n -> Location]
    BY <1>1
  <1> HIDE DEF l
  <1>3. l \in Seq(Location) /\ Len(l) = n
    BY <1>2
  <1> QED
    BY <1>3 DEF l

\* A map is cleared or made, and its pairs are entered later.
LEMMA StoresMap ==
  ASSUME NEW m, Storing(m), This.kind = "map"
  PROVE  Stores(m, StoreMap(m))
  <1> DEFINE reused == Old(m) # Nil
             r == IF reused THEN Old(m) ELSE Ref(m.next, 0, 0, 0, 0)
             first == IF reused THEN m.next ELSE m.next + 1
             variables == [j \in 1 .. 2 * Count |-> <<first + j - 1>>]
             assignments ==
               [k \in 1 .. Count |->
                  Entry(Rest(m) + 2 * (Count - k), r.obj,
                        <<This.elems[1], variables[2 * k - 1]>>, variables[2 * k])]
             cleared == [m EXCEPT !.entries = With(@, r.obj, {}), !.next = first + 2 * Count]
             b == Await(cleared, assignments)
  <1>1. m.next \in Int /\ m.next > 0 /\ Count \in Nat /\ Rest(m) = Len(todo) - 1
        /\ Len(todo) \in Nat
    <2>1. Rest(m) = Len(todo) - 1
      BY PlaceType
    <2>2. Len(todo) \in Nat
      BY DEF Storing, DecSafe!TypeOK
    <2> QED
      BY <2>1, <2>2 DEF Storing, MemoryOK, Decodable, Prefixed
  <1>2. CASE Count = 0
    <2>1. StoreMap(m) = Point(m, Nil, << >>)
      BY <1>2 DEF StoreMap
    <2> QED
      BY <1>2, <2>1, StoresNil DEF Prefixed
  <1>3. CASE Count # 0
    <2>1. StoreMap(m) = Point(b, r, variables)
      BY <1>3 DEF StoreMap
    <2>2. RefOK(safe, Place(m), Old(m)) /\ Old(m) \in Header
      BY PlaceType DEF RefOK
    <2>3. Schema[Place(m)[1]].kind = "map"
      BY PlaceType, ThisType DEF Storing
    <2>4. reused => Old(m).obj > 0
      BY <2>2, <2>3 DEF RefOK, Header
    <2>5. /\ RefOK(safe, Place(m), r) /\ r.obj \in Int /\ r.obj > 0
          /\ (reused => r.obj = Old(m).obj) /\ (~reused => r.obj = m.next)
      BY <1>1, <2>2, <2>4 DEF RefOK, Ref, Header
    <2>6. first \in Int /\ first > 0 /\ m.next <= first /\ (~reused => m.next < first)
          /\ m.next <= first + 2 * Count /\ (~reused => m.next < first + 2 * Count)
      BY <1>1
    <2>7. /\ DOMAIN cleared = MemoryFields
          /\ cleared.refs = m.refs /\ cleared.dest = m.dest /\ cleared.raw = m.raw
          /\ cleared.waiting = m.waiting /\ cleared.after = m.after
          /\ cleared.next = first + 2 * Count
      BY DEF Storing, MemoryOK, MemoryFields
    <2> HIDE DEF r, first, cleared, reused
    <2>8. variables \in Seq(Location) /\ Len(variables) = 2 * Count
      <3>1. 2 * Count \in Nat
        BY <1>1
      <3> QED
        BY <2>6, <3>1, NewLocations, Zenon
    <2>9. This.elems[1] \in Type
      BY ThisType DEF Storing
    <2> HIDE DEF variables
    <2>10. ASSUME NEW k \in 1 .. Count
           PROVE  Entry(Rest(m) + 2 * (Count - k), r.obj,
                        <<This.elems[1], variables[2 * k - 1]>>, variables[2 * k])
                    \in EntryAssignment
      <3>1. variables[2 * k - 1] \in Location /\ variables[2 * k] \in Location
        BY <1>1, <2>8
      <3>2. Rest(m) + 2 * (Count - k) \in Int
        BY <1>1
      <3> QED
        BY <2>5, <2>9, <3>1, <3>2 DEF Entry, EntryAssignment
    <2>11. assignments \in Seq(EntryAssignment)
      <3>1. assignments \in [1 .. Count -> EntryAssignment]
        BY <2>10
      <3> HIDE DEF assignments
      <3> QED
        BY <1>1, <3>1
    <2>12. assignments \in Seq(Assignment(safe))
      BY <2>11 DEF Assignment
    <2>13. DOMAIN assignments = 1 .. Count
           /\ \A k \in 1 .. Count : /\ assignments[k].is = "entry"
                                    /\ assignments[k].left = Len(todo) - 1 + 2 * (Count - k)
      BY <1>1 DEF Entry
    <2> HIDE DEF assignments
    <2>14. Timing(assignments) = Schedule
      BY <2>13 DEF Timing, Schedule
    <2>15. Prepared(m, cleared, << >>)
      <3>1. << >> \o m.after = m.after
        BY DEF Storing, MemoryOK
      <3>2. DOMAIN m.raw \subseteq Path
        BY DEF Storing, MemoryOK
      <3> QED
        BY <1>1, <2>6, <2>7, <3>1, <3>2 DEF Prepared
    <2>16. Prepared(m, b, assignments)
      BY <2>12, <2>15, PreparedAwait DEF Storing
    <2>17. b.next = first + 2 * Count
      BY <2>7 DEF Await, MemoryFields
    <2> HIDE DEF b
    <2>18. OfOnesOwn(m, b, r.obj)
      BY <2>5, <2>6, <2>17 DEF OfOnesOwn
    <2>19. Awaited(m, b, assignments)
      BY <2>13, <2>14 DEF Awaited
    <2>20. Len(Parts) = 2 * Count
      BY <1>1 DEF Parts
    <2> QED
      BY <2>1, <2>5, <2>8, <2>12, <2>16, <2>18, <2>19, <2>20, StoresPoint
  <1> QED
    BY <1>2, <1>3

\* The member of a union is assigned to it once it is decoded.
LEMMA StoresUnion ==
  ASSUME NEW m, Storing(m), This.kind = "union"
  PROVE  Stores(m, StoreUnion(m))
  <1> DEFINE reused == Old(m).tag = Count
             v == IF reused THEN Old(m).obj ELSE m.next
             ref == Ref(v, 0, 0, 0, Count)
             assignment == Member(Rest(m), Place(m), ref)
             c == IF reused THEN m ELSE Alloc(m, 1)
             b == Await(c, <<assignment>>)
  <1>1. m.next \in Int /\ m.next > 0 /\ Count \in Nat /\ Rest(m) = Len(todo) - 1
        /\ Len(todo) \in Nat /\ Place(m) \in Type \X Location
    <2>1. Rest(m) = Len(todo) - 1 /\ Place(m) \in Type \X Location
      BY PlaceType
    <2>2. Len(todo) \in Nat
      BY DEF Storing, DecSafe!TypeOK
    <2> QED
      BY <2>1, <2>2 DEF Storing, MemoryOK, Decodable, Prefixed
  <1>2. CASE Count = 0
    <2>1. StoreUnion(m) = Point(m, Nil, << >>)
      BY <1>2 DEF StoreUnion
    <2> QED
      BY <1>2, <2>1, StoresNil DEF Prefixed
  <1>3. CASE Count # 0
    <2>1. StoreUnion(m) = Then(b, << <<v>> >>)
      BY <1>3 DEF StoreUnion
    <2>2. RefOK(safe, Place(m), Old(m)) /\ Old(m) \in Header
      BY PlaceType DEF RefOK
    <2>3. Schema[Place(m)[1]].kind = "union"
      BY PlaceType, ThisType DEF Storing
    <2>4. reused => Old(m) # Nil
      BY <1>3 DEF Nil, Ref
    <2>5. reused => Old(m).obj > 0
      BY <2>2, <2>3, <2>4 DEF RefOK, Header
    <2>6. v \in Int /\ v > 0 /\ (reused => v = Old(m).obj) /\ (~reused => v = m.next)
      BY <1>1, <2>2, <2>5 DEF Header
    <2>7. Prepared(m, c, << >>) /\ (~reused => c.next = m.next + 1)
      <3>1. Prepared(m, m, << >>)
        BY PreparedSelf DEF Storing
      <3>2. Prepared(m, Alloc(m, 1), << >>) /\ Alloc(m, 1).next = m.next + 1
        BY <1>1, <3>1, PreparedAlloc
      <3> QED
        BY <3>1, <3>2, Zenon
    <2> HIDE DEF v, c, reused
    <2>8. ref \in Header /\ ref.obj = v /\ ref.lo = 0
      BY <1>1, <2>6 DEF Ref, Header
    <2>9. RefOK(safe, Place(m), ref)
      BY <2>6, <2>8 DEF RefOK
    <2> HIDE DEF ref
    <2>10. /\ assignment \in MemberAssignment(safe) /\ assignment.is = "member"
           /\ assignment.left = Len(todo) - 1 /\ assignment.at = Place(m)
           /\ assignment.ref = ref
      BY <1>1, <2>8, <2>9 DEF Member, MemberAssignment
    <2> HIDE DEF assignment
    <2>11. <<assignment>> \in Seq(Assignment(safe))
      BY <2>10 DEF Assignment
    <2>12. Prepared(m, b, <<assignment>>)
      BY <2>7, <2>11, PreparedAwait DEF Storing
    <2>13. b.next = c.next
      BY <2>7 DEF Await, Prepared, MemoryFields
    <2> HIDE DEF b
    <2>14. OfOnesOwn(m, b, v)
      BY <1>1, <2>6, <2>7, <2>13 DEF OfOnesOwn
    <2>15. Timing(<<assignment>>) = << <<"member", Len(todo) - 1>> >>
      BY <2>10 DEF Timing
    <2>16. Awaited(m, b, <<assignment>>)
      BY <1>3, <2>8, <2>10, <2>14, <2>15 DEF Awaited, Schedule
    <2>17. Len(Parts) = 1
      BY <1>3 DEF Parts
    <2>18. << <<v>> >> \in Seq(Location) /\ Len(<< <<v>> >>) = 1
      BY <2>6 DEF Location, Path
    <2> QED
      BY <2>1, <2>11, <2>12, <2>16, <2>17, <2>18, StoresThen
  <1> QED
    BY <1>2, <1>3

\* Whatever the expression at hand is.
LEMMA StoresStored ==
  ASSUME NEW m, Storing(m)
  PROVE  Stores(m, Stored(m))
  <1>1. This.kind \in DecSafe!Kind
    BY ThisType DEF Storing
  <1> QED
    BY <1>1, StoresBasic, StoresString, StoresBytes, StoresSlice, StoresArray,
       StoresPointer, StoresMap, StoresUnion, StoresBlock, StoresOwned
       DEF Stored, DecSafe!Kind

-----------------------------------------------------------------------------
(***************************************************************************)
(* What a step of Unmarshal does to the invariant.                         *)
(***************************************************************************)

\* Claims are of objects, by number.
LEMMA ClaimsType ==
  ASSUME NEW s, NEW m, MemoryOK(s, m)
  PROVE  \A c \in Claims(m) : c[2] \in Int
  <1>1. \A p \in DOMAIN m.refs : m.refs[p].obj \in Int
    BY DEF MemoryOK, RefOK, Header
  <1>2. ASSUME NEW a \in Pending(m), a.is = "member"
        PROVE  a.ref.obj \in Int
    <2>1. a \in Assignment(s)
      <3>1. CASE a \in { m.after[k] : k \in DOMAIN m.after }
        BY <3>1 DEF MemoryOK
      <3>2. ASSUME NEW j \in DOMAIN m.waiting,
                   a \in { m.waiting[j].after[k] : k \in DOMAIN m.waiting[j].after }
            PROVE  a \in Assignment(s)
        <4> DEFINE Frame == [dest : Seq(Location), after : Seq(Assignment(s))]
        <4>1. m.waiting \in Seq(Frame)
          BY DEF MemoryOK
        <4>2. m.waiting[j] \in Frame => m.waiting[j].after \in Seq(Assignment(s))
          OBVIOUS
        <4> HIDE DEF Frame
        <4>3. m.waiting[j].after \in Seq(Assignment(s))
          BY <4>1, <4>2
        <4> QED
          BY <3>2, <4>3
      <3> QED
        BY <3>1, <3>2 DEF Pending
    <2> QED
      BY <1>2, <2>1 DEF Assignment, EntryAssignment, MemberAssignment, Header
  <1> QED
    BY <1>1, <1>2 DEF Claims

\* A new claim is of nothing, or the one claim of a new object.
LEMMA StillClaimedOnce ==
  ASSUME NEW m, NEW n, NEW p, ClaimedOnce(m),
         m.next \in Int, n.next \in Int, m.next > 0, m.next <= n.next,
         \A c \in Claims(m) : c[2] \in Int,
         \A c \in Claims(n) : c[2] \in Int,
         \A c \in Claims(n) : \/ c \in Claims(m) \/ c[2] <= 0
                              \/ c[1] = p /\ c[2] = m.next /\ m.next < n.next
  PROVE  ClaimedOnce(n)
  <1>1. ASSUME NEW c \in Claims(n)
        PROVE  c[2] < n.next
    <2>1. c \in Claims(m) => c[2] < m.next
      BY DEF ClaimedOnce
    <2> QED
      BY <2>1
  <1>2. ASSUME NEW c \in Claims(n), NEW d \in Claims(n), c[2] = d[2], c[2] > 0
        PROVE  c[1] = d[1]
    <2>1. c \in Claims(m) => c[2] < m.next
      BY DEF ClaimedOnce
    <2>2. d \in Claims(m) => d[2] < m.next
      BY DEF ClaimedOnce
    <2>3. c \in Claims(m) /\ d \in Claims(m) => c[1] = d[1]
      BY <1>2 DEF ClaimedOnce
    <2>4. c \in Claims(m) \/ (c[1] = p /\ c[2] = m.next)
      BY <1>2
    <2>5. d \in Claims(m) \/ (d[1] = p /\ d[2] = m.next)
      BY <1>2
    <2> QED
      BY <1>2, <2>1, <2>2, <2>3, <2>4, <2>5
  <1> QED
    BY <1>1, <1>2 DEF ClaimedOnce

\* The object of one's own is no one else's.
LEMMA StoresClaims ==
  ASSUME NEW m, NEW n, Storing(m), Stores(m, n), NEW c \in Claims(n)
  PROVE  \/ c \in Claims(m) \/ c[2] <= 0
         \/ c[1] = Place(m) /\ c[2] = m.next /\ m.next < n.next
  <1>1. ASSUME NEW o, OfOnesOwn(m, n, o)
        PROVE  o <= 0 \/ <<Place(m), o>> \in Claims(m) \/ (o = m.next /\ m.next < n.next)
    <2>1. Old(m) = Nil => Old(m).obj <= 0
      BY DEF Nil, Ref
    <2>2. Old(m) = Nil \/ <<Place(m), Old(m).obj>> \in Claims(m)
      BY PlaceType DEF Claims
    <2> QED
      BY <1>1, <2>1, <2>2 DEF OfOnesOwn
  <1>2. PICK due \in Seq(Assignment(safe)) :
          /\ n.after = due \o m.after /\ Awaited(m, n, due) /\ n.waiting = m.waiting
          /\ \/ n.refs = m.refs
             \/ \E r \in Header : /\ OfOnesOwn(m, n, r.obj)
                                  /\ n.refs = With(m.refs, Place(m), r)
    BY DEF Stores
  <1>3. CASE c \in { <<p, n.refs[p].obj>> : p \in DOMAIN n.refs }
    <2> PICK p \in DOMAIN n.refs : c = <<p, n.refs[p].obj>>
      BY <1>3
    <2>1. CASE n.refs = m.refs
      BY <2>1 DEF Claims
    <2>2. CASE \E r \in Header : /\ OfOnesOwn(m, n, r.obj)
                                 /\ n.refs = With(m.refs, Place(m), r)
      <3> PICK r \in Header : OfOnesOwn(m, n, r.obj) /\ n.refs = With(m.refs, Place(m), r)
        BY <2>2
      <3>1. p = Place(m) => n.refs[p] = r
        BY DEF With, Updated
      <3>2. p # Place(m) => p \in DOMAIN m.refs /\ n.refs[p] = m.refs[p]
        BY DEF With, Updated
      <3>3. p # Place(m) => c \in Claims(m)
        BY <3>2 DEF Claims
      <3> QED
        BY <1>1, <3>1, <3>3
    <2> QED
      BY <1>2, <2>1, <2>2
  <1>4. CASE c \in { <<a.at, a.ref.obj>> : a \in { b \in Pending(n) : b.is = "member" } }
    <2> PICK a \in Pending(n) : a.is = "member" /\ c = <<a.at, a.ref.obj>>
      BY <1>4
    <2>1. a \in Pending(m) => c \in Claims(m)
      BY DEF Claims
    <2>2. a \in Pending(m) \/ \E k \in DOMAIN due : a = due[k]
      <3>1. m.after \in Seq(Assignment(safe))
        BY DEF Storing, MemoryOK
      <3>2. CASE a \in { n.after[k] : k \in DOMAIN n.after }
        <4> PICK k \in DOMAIN n.after : a = n.after[k]
          BY <3>2
        <4>1. k \in 1 .. Len(due) => k \in DOMAIN due /\ a = due[k]
          BY <1>2, <3>1
        <4>2. k \notin 1 .. Len(due) => k - Len(due) \in DOMAIN m.after
                                        /\ a = m.after[k - Len(due)]
          BY <1>2, <3>1
        <4> QED
          BY <4>1, <4>2 DEF Pending
      <3>3. CASE a \notin { n.after[k] : k \in DOMAIN n.after }
        BY <1>2, <3>3 DEF Pending
      <3> QED
        BY <3>2, <3>3
    <2>3. ASSUME NEW k \in DOMAIN due, a = due[k]
          PROVE  a.at = Place(m) /\ OfOnesOwn(m, n, a.ref.obj)
      BY <1>2, <2>3 DEF Awaited
    <2> QED
      BY <1>1, <2>1, <2>2, <2>3
  <1> QED
    BY <1>3, <1>4 DEF Claims

LEMMA StoresMemory ==
  ASSUME NEW m, NEW n, Storing(m), Stores(m, n), ClaimedOnce(m)
  PROVE  MemoryOK(safe, n) /\ ClaimedOnce(n)
  <1>1. m.after \in Seq(Assignment(safe)) /\ m.next \in Int /\ m.next > 0
        /\ m.dest \in Seq(Location) /\ m.dest # << >>
        /\ m.waiting \in Seq([dest : Seq(Location), after : Seq(Assignment(safe))])
    BY DEF Storing, MemoryOK, DecSafe!TypeOK
  <1>2. DOMAIN m.refs \subseteq Type \X Location
        /\ \A p \in DOMAIN m.refs : RefOK(safe, p, m.refs[p])
    BY DEF Storing, MemoryOK
  <1>3. /\ DOMAIN n = MemoryFields
        /\ n.dest \in Seq(Location) /\ n.after \in Seq(Assignment(safe))
        /\ n.waiting = m.waiting /\ n.next \in Int /\ m.next <= n.next
        /\ DOMAIN n.raw \subseteq Path
        /\ \/ n.refs = m.refs
           \/ \E r \in Header : /\ RefOK(safe, Place(m), r)
                                /\ n.refs = With(m.refs, Place(m), r)
    <2>1. \A x, y \in Seq(Location) : x \o y \in Seq(Location)
      OBVIOUS
    <2>2. \A x, y \in Seq(Assignment(safe)) : x \o y \in Seq(Assignment(safe))
      OBVIOUS
    <2>3. Tail(m.dest) \in Seq(Location)
      BY <1>1
    <2> QED
      BY <1>1, <2>1, <2>2, <2>3 DEF Stores
  <1>4. DOMAIN n.refs \subseteq Type \X Location
        /\ \A p \in DOMAIN n.refs : RefOK(safe, p, n.refs[p])
    <2>1. CASE n.refs = m.refs
      BY <1>2, <2>1
    <2>2. ASSUME NEW r \in Header, RefOK(safe, Place(m), r),
                 n.refs = With(m.refs, Place(m), r)
          PROVE  DOMAIN n.refs \subseteq Type \X Location
                 /\ \A p \in DOMAIN n.refs : RefOK(safe, p, n.refs[p])
      <3>1. Place(m) \in Type \X Location
        BY PlaceType
      <3>2. DOMAIN n.refs = DOMAIN m.refs \cup { Place(m) }
        BY <2>2 DEF With, Updated
      <3>3. \A p \in DOMAIN n.refs :
              n.refs[p] = IF p = Place(m) THEN r ELSE m.refs[p]
        BY <2>2 DEF With, Updated
      <3> QED
        BY <1>2, <2>2, <3>1, <3>2, <3>3
    <2> QED
      BY <1>3, <2>1, <2>2
  <1>5. MemoryOK(safe, n)
    BY <1>1, <1>3, <1>4 DEF MemoryOK
  <1>6. ClaimedOnce(n)
    <2>1. /\ \A c \in Claims(m) : c[2] \in Int
          /\ \A c \in Claims(n) : c[2] \in Int
      BY <1>5, ClaimsType DEF Storing
    <2>2. \A c \in Claims(n) :
            \/ c \in Claims(m) \/ c[2] <= 0
            \/ c[1] = Place(m) /\ c[2] = m.next /\ m.next < n.next
      BY StoresClaims
    <2> QED
      BY <1>1, <1>3, <2>1, <2>2, StillClaimedOnce
  <1> QED
    BY <1>5, <1>6

LEMMA PartsType ==
  ASSUME DecSafe!TypeOK, todo # << >>, Decodable
  PROVE  Parts \in Seq(Type)
  <1>1. /\ This.kind \in DecSafe!Kind /\ This.size \in Nat /\ This.elems \in Seq(Type)
        /\ This.kind \in { "slice", "array", "pointer" } => Len(This.elems) = 1
        /\ This.kind = "map" => Len(This.elems) = 2
    BY ThisType
  <1>2. << >> \in Seq(Type)
    OBVIOUS
  <1>3. ASSUME NEW n \in Nat, NEW e, \A k \in 1 .. n : e[k] \in Type
        PROVE  [k \in 1 .. n |-> e[k]] \in Seq(Type)
    BY <1>3
  <1>4. ASSUME NEW n \in Nat, NEW t \in Type
        PROVE  [k \in 1 .. n |-> t] \in Seq(Type)
    OBVIOUS
  <1>5. CASE This.kind \in { "slice", "array" }
    <2>1. This.elems[1] \in Type
      BY <1>1, <1>5
    <2> QED
      BY <1>1, <1>2, <1>4, <1>5, <2>1 DEF Parts, Decodable, Prefixed
  <1>6. CASE This.kind = "map"
    <2>1. /\ This.elems[1] \in Type /\ This.elems[2] \in Type
          /\ 2 * Count \in Nat
      BY <1>1, <1>6 DEF Decodable, Prefixed
    <2>2. Parts = [k \in 1 .. (2 * Count) |-> This.elems[IF k % 2 = 1 THEN 1 ELSE 2]]
      BY <1>6 DEF Parts
    <2>3. Parts \in [1 .. 2 * Count -> Type]
      BY <2>1, <2>2
    <2> HIDE DEF Parts
    <2> QED
      BY <2>1, <2>3
  <1>7. CASE This.kind = "union"
    <2>1. Count # 0 => This.elems[Count] \in Type
      BY <1>1, <1>7 DEF Decodable, Prefixed
    <2> QED
      BY <1>2, <1>7, <2>1 DEF Parts
  <1>8. CASE This.kind \notin { "slice", "array", "map", "union" }
    BY <1>1, <1>2, <1>8 DEF Parts, DecSafe!Kind
  <1> QED
    BY <1>5, <1>6, <1>7, <1>8

LEMMA TimingType ==
  ASSUME NEW S, NEW x \in Seq(S)
  PROVE  /\ Timing(x) \in Seq({ <<a.is, a.left>> : a \in S })
         /\ Len(Timing(x)) = Len(x)
         /\ \A k \in 1 .. Len(x) : Timing(x)[k] = <<x[k].is, x[k].left>>
  BY DEF Timing

LEMMA TimingTail ==
  ASSUME NEW S, NEW x \in Seq(S), x # << >>
  PROVE  Timing(Tail(x)) = Tail(Timing(x))
  <1> DEFINE T == { <<a.is, a.left>> : a \in S }
             y == Tail(x)
             z == Timing(x)
             v == Timing(y)
  <1>1. /\ Len(x) \in Nat \ { 0 } /\ y \in Seq(S) /\ Len(y) = Len(x) - 1
        /\ \A k \in 1 .. Len(x) - 1 : y[k] = x[k + 1]
    BY HeadTailProperties, EmptySeq
  <1>2. /\ z \in Seq(T) /\ Len(z) = Len(x)
        /\ \A k \in 1 .. Len(x) : z[k] = <<x[k].is, x[k].left>>
    BY TimingType
  <1> HIDE DEF y
  <1>3. /\ v \in Seq(T) /\ Len(v) = Len(x) - 1
        /\ \A k \in 1 .. Len(x) - 1 : v[k] = <<y[k].is, y[k].left>>
    BY <1>1, TimingType
  <1> HIDE DEF T, z, v
  <1>4. z # << >>
    BY <1>1, <1>2, EmptySeq
  <1>5. /\ Tail(z) \in Seq(T) /\ Len(Tail(z)) = Len(x) - 1
        /\ \A k \in 1 .. Len(x) - 1 : Tail(z)[k] = z[k + 1]
    BY <1>2, <1>4, HeadTailProperties
  <1>6. ASSUME NEW k \in 1 .. Len(x) - 1
        PROVE  v[k] = Tail(z)[k]
    <2>1. k + 1 \in 1 .. Len(x)
      BY <1>1
    <2>2. v[k] = <<y[k].is, y[k].left>> /\ y[k] = x[k + 1]
      BY <1>1, <1>3
    <2>3. Tail(z)[k] = z[k + 1] /\ z[k + 1] = <<x[k + 1].is, x[k + 1].left>>
      BY <1>2, <1>5, <2>1
    <2> QED
      BY <2>2, <2>3
  <1>7. v = Tail(z)
    <2>1. v \in Seq(T) /\ Tail(z) \in Seq(T) /\ Len(v) = Len(Tail(z))
          /\ \A k \in 1 .. Len(v) : v[k] = Tail(z)[k]
      BY <1>3, <1>5, <1>6
    <2> QED
      BY ONLY <2>1, SeqEqual
  <1> QED
    BY <1>7 DEF v, y, z

LEMMA TimingConcat ==
  ASSUME NEW S, NEW due \in Seq(S), NEW after \in Seq(S)
  PROVE  Timing(due \o after) = Timing(due) \o Timing(after)
  <1> DEFINE T == { <<a.is, a.left>> : a \in S }
             all == due \o after
             x == Timing(all)
             y == Timing(due)
             z == Timing(after)
  <1>1. /\ Len(due) \in Nat /\ Len(after) \in Nat
        /\ all \in Seq(S) /\ Len(all) = Len(due) + Len(after)
        /\ \A k \in 1 .. Len(due) + Len(after) :
             all[k] = IF k <= Len(due) THEN due[k] ELSE after[k - Len(due)]
    OBVIOUS
  <1> HIDE DEF all
  <1>2. /\ x \in Seq(T) /\ Len(x) = Len(due) + Len(after)
        /\ \A k \in 1 .. Len(due) + Len(after) : x[k] = <<all[k].is, all[k].left>>
    BY <1>1, TimingType
  <1>3. /\ y \in Seq(T) /\ Len(y) = Len(due)
        /\ \A k \in 1 .. Len(due) : y[k] = <<due[k].is, due[k].left>>
    BY TimingType
  <1>4. /\ z \in Seq(T) /\ Len(z) = Len(after)
        /\ \A k \in 1 .. Len(after) : z[k] = <<after[k].is, after[k].left>>
    BY TimingType
  <1> HIDE DEF T, x, y, z
  <1>5. /\ y \o z \in Seq(T) /\ Len(y \o z) = Len(due) + Len(after)
        /\ \A k \in 1 .. Len(due) + Len(after) :
             (y \o z)[k] = IF k <= Len(due) THEN y[k] ELSE z[k - Len(due)]
    <2>0. y \in Seq(T) /\ z \in Seq(T)
      BY <1>3, <1>4
    <2>1. /\ y \o z \in Seq(T) /\ Len(y \o z) = Len(y) + Len(z)
          /\ \A k \in 1 .. Len(y) + Len(z) :
               (y \o z)[k] = IF k <= Len(y) THEN y[k] ELSE z[k - Len(y)]
      BY ONLY <2>0, ConcatProperties
    <2> QED
      BY <1>3, <1>4, <2>1
  <1>6. ASSUME NEW k \in 1 .. Len(due) + Len(after)
        PROVE  x[k] = (y \o z)[k]
    <2>1. CASE k <= Len(due)
      <3>1. k \in 1 .. Len(due)
        BY <1>1, <2>1
      <3> QED
        BY <1>1, <1>2, <1>3, <1>5, <2>1, <3>1
    <2>2. CASE ~(k <= Len(due))
      <3>1. k - Len(due) \in 1 .. Len(after)
        BY <1>1, <2>2
      <3> QED
        BY <1>1, <1>2, <1>4, <1>5, <2>2, <3>1
    <2> QED
      BY <2>1, <2>2
  <1>7. x = y \o z
    BY <1>1, <1>2, <1>5, <1>6
  <1> QED
    BY <1>7 DEF x, y, z, all

LEMMA StoresTiming ==
  ASSUME NEW m, NEW n, Storing(m), Stores(m, n)
  PROVE  Timing(n.after) = Schedule \o Timing(m.after)
  <1> PICK due \in Seq(Assignment(safe)) : n.after = due \o m.after /\ Timing(due) = Schedule
    BY DEF Stores, Awaited
  <1> QED
    BY TimingConcat DEF Storing, MemoryOK

LEMMA StoreKeepsInv == MemoryInv /\ Store => MemoryInv'
  <1> SUFFICES ASSUME MemoryInv, Store
               PROVE  MemoryInv'
    OBVIOUS
  <1>1. /\ phase = "run" /\ todo # << >> /\ Step /\ phase' = "run" /\ callers' = callers
        /\ mem' = [w \in World |-> Stored(mem[w])]
        /\ safe' = safe /\ input' = input /\ calls' = calls /\ edited' = edited
    BY DEF Store, user
  <1>2. /\ DecSafe!TypeOK /\ in.data \in Buffers[safe][root] /\ input < 0 /\ input \in Int
        /\ safe \in BOOLEAN
    BY <1>1 DEF MemoryInv, CallOK
  <1>3. DecSafe!TypeOK' /\ root' = root
    BY <1>1, <1>2, StepType, RootStays
  <1>4. todo' = Parts \o Tail(todo) /\ Decodable /\ in' = in
    BY <1>1, <1>2, PartsStep
  <1>5. CallOK'
    BY <1>1, <1>2, <1>3, <1>4 DEF MemoryInv, CallOK
  <1>6. mem' = [w \in World |-> mem'[w]] /\ \A w \in World : mem'[w] = Stored(mem[w])
    BY <1>1
  <1>7. ASSUME NEW w \in World
        PROVE  /\ Storing(mem[w]) /\ Stores(mem[w], mem'[w]) /\ ClaimedOnce(mem[w])
               /\ Aligned(mem[w]) /\ Holds(mem[w])
    <2>1. /\ MemoryOK(safe, mem[w]) /\ ClaimedOnce(mem[w])
          /\ Aligned(mem[w]) /\ Holds(mem[w])
      BY <1>1 DEF MemoryInv
    <2>2. Storing(mem[w])
      BY <1>1, <1>2, <1>4, <2>1 DEF Storing, Aligned
    <2> QED
      BY <1>6, <2>1, <2>2, StoresStored
  <1>8. ASSUME NEW w \in World
        PROVE  /\ MemoryOK(safe', mem'[w]) /\ ClaimedOnce(mem'[w])
               /\ Aligned(mem[w])' /\ Holds(mem[w])'
    <2> DEFINE m == mem[w]
               n == mem'[w]
    <2>1. MemoryOK(safe', n) /\ ClaimedOnce(n)
      BY <1>1, <1>7, StoresMemory
    <2>2. PICK more \in Seq(Location) :
            /\ n.dest = more \o Tail(m.dest) /\ Len(more) = Len(Parts)
            /\ n.waiting = m.waiting
            /\ \A l \in DOMAIN m.raw : l[1] < 0 => l \in DOMAIN n.raw /\ n.raw[l] = m.raw[l]
      BY <1>7 DEF Stores
    <2>3. Parts \in Seq(Type)
      BY <1>1, <1>2, <1>4, PartsType
    <2>4. Len(n.dest) = Len(todo')
      <3>1. todo \in Seq(Type) /\ m.dest \in Seq(Location) /\ Len(m.dest) = Len(todo)
        BY <1>2, <1>7 DEF Storing, MemoryOK, DecSafe!TypeOK
      <3> HIDE DEF m, n
      <3>2. /\ Tail(todo) \in Seq(Type) /\ Tail(m.dest) \in Seq(Location)
            /\ Len(Tail(m.dest)) = Len(Tail(todo))
        BY <1>1, <3>1
      <3>3. Len(n.dest) = Len(more) + Len(Tail(m.dest))
        BY <2>2, <3>2, ConcatProperties
      <3>4. Len(Parts \o Tail(todo)) = Len(Parts) + Len(Tail(todo))
        BY <2>3, <3>2, ConcatProperties
      <3> QED
        BY <1>4, <2>2, <3>2, <3>3, <3>4
    <2>5. Aligned(m)'
      BY <1>1, <1>7, <2>2, <2>4 DEF Aligned
    <2>6. Holds(m)'
      <3>1. <<input>>[1] < 0
        BY <1>2
      <3> QED
        BY <1>1, <1>4, <1>7, <2>2, <3>1 DEF Holds
    <2> QED
      BY <2>1, <2>5, <2>6
  <1>9. InLockstep(mem'["used"], mem'["fresh"])
    <2>1. ASSUME NEW w \in World
          PROVE  /\ Timing(mem'[w].after) = Schedule \o Timing(mem[w].after)
                 /\ mem'[w].waiting = mem[w].waiting
      BY <1>7, StoresTiming DEF Stores
    <2>2. "used" \in World /\ "fresh" \in World
      BY DEF World
    <2>3. InLockstep(mem["used"], mem["fresh"])
      BY DEF MemoryInv
    <2> QED
      BY <2>1, <2>2, <2>3 DEF InLockstep
  <1> QED
    BY <1>5, <1>6, <1>8, <1>9 DEF MemoryInv

\* An assignment makes a claim that was pending good.
LEMMA AssignedMemory ==
  ASSUME NEW s, NEW m, MemoryOK(s, m), ClaimedOnce(m), m.after # << >>
  PROVE  /\ MemoryOK(s, Assigned(m)) /\ ClaimedOnce(Assigned(m))
         /\ Assigned(m).raw = m.raw /\ Assigned(m).dest = m.dest
         /\ Assigned(m).waiting = m.waiting /\ Assigned(m).after = Tail(m.after)
  <1> DEFINE a == Head(m.after)
             n == Assigned(m)
  <1>1. m.after \in Seq(Assignment(s))
    BY DEF MemoryOK
  <1>2. /\ a \in Assignment(s) /\ Tail(m.after) \in Seq(Assignment(s))
        /\ Len(Tail(m.after)) = Len(m.after) - 1 /\ 1 \in DOMAIN m.after /\ a = m.after[1]
        /\ \A k \in DOMAIN Tail(m.after) :
             k + 1 \in DOMAIN m.after /\ Tail(m.after)[k] = m.after[k + 1]
    BY <1>1
  <1>3. /\ DOMAIN n = MemoryFields
        /\ n.raw = m.raw /\ n.dest = m.dest /\ n.waiting = m.waiting
        /\ n.after = Tail(m.after) /\ n.next = m.next
        /\ n.refs = IF a.is = "entry" THEN m.refs ELSE With(m.refs, a.at, a.ref)
    BY DEF Assigned, MemoryOK, MemoryFields
  <1>4. a.is # "entry" => /\ a.is = "member" /\ a.at \in Type \X Location
                          /\ RefOK(s, a.at, a.ref)
    BY <1>2 DEF Assignment, EntryAssignment, MemberAssignment
  <1> HIDE DEF a, n
  <1>5. DOMAIN n.refs \subseteq Type \X Location
        /\ \A p \in DOMAIN n.refs :
             RefOK(s, p, n.refs[p]) /\ <<p, n.refs[p].obj>> \in Claims(m)
    <2>0. /\ DOMAIN m.refs \subseteq Type \X Location
          /\ \A p \in DOMAIN m.refs : RefOK(s, p, m.refs[p])
      BY DEF MemoryOK
    <2>1. CASE a.is = "entry"
      BY <1>3, <2>0, <2>1 DEF Claims
    <2>2. CASE a.is # "entry"
      <3>1. DOMAIN n.refs = DOMAIN m.refs \cup { a.at }
        BY <1>3, <2>2 DEF With, Updated
      <3>2. \A p \in DOMAIN n.refs : n.refs[p] = IF p = a.at THEN a.ref ELSE m.refs[p]
        BY <1>3, <2>2 DEF With, Updated
      <3>3. a \in Pending(m)
        BY <1>2 DEF Pending
      <3>4. <<a.at, a.ref.obj>> \in Claims(m)
        BY <1>4, <2>2, <3>3 DEF Claims
      <3>5. ASSUME NEW p \in DOMAIN n.refs
            PROVE  RefOK(s, p, n.refs[p]) /\ <<p, n.refs[p].obj>> \in Claims(m)
        BY <1>4, <2>0, <2>2, <3>1, <3>2, <3>4 DEF Claims
      <3> QED
        BY <1>4, <2>0, <2>2, <3>1, <3>5
    <2> QED
      BY <2>1, <2>2
  <1>6. MemoryOK(s, n)
    BY <1>2, <1>3, <1>5 DEF MemoryOK
  <1>7. Pending(n) \subseteq Pending(m)
    BY <1>2, <1>3 DEF Pending
  <1>8. Claims(n) \subseteq Claims(m)
    BY <1>5, <1>7 DEF Claims
  <1>9. ClaimedOnce(n)
    BY <1>3, <1>8 DEF ClaimedOnce
  <1> QED
    BY <1>3, <1>6, <1>9 DEF n

LEMMA AssignKeepsInv == MemoryInv /\ Assign => MemoryInv'
  <1> SUFFICES ASSUME MemoryInv, Assign
               PROVE  MemoryInv'
    OBVIOUS
  <1>1. /\ phase = "run" /\ mem["used"].after # << >>
        /\ mem' = [w \in World |-> Assigned(mem[w])]
        /\ UNCHANGED <<root, in, todo, callers, phase, safe, input, calls>>
        /\ UNCHANGED <<base, off, err, made, raised>>
    BY DEF Assign, Due, decoder, user
  <1>2. CallOK'
    BY <1>1 DEF MemoryInv, CallOK, DecSafe!TypeOK
  <1>3. mem' = [w \in World |-> mem'[w]] /\ \A w \in World : mem'[w] = Assigned(mem[w])
    BY <1>1
  <1>4. "used" \in World /\ "fresh" \in World
    BY DEF World
  <1>5. ASSUME NEW w \in World
        PROVE  /\ MemoryOK(safe, mem[w]) /\ ClaimedOnce(mem[w])
               /\ Aligned(mem[w]) /\ Holds(mem[w])
    BY <1>1 DEF MemoryInv
  <1>6. \A w \in World : mem[w].after \in Seq(Assignment(safe))
    BY <1>5 DEF MemoryOK
  <1>7. Timing(mem["used"].after) = Timing(mem["fresh"].after)
    BY DEF MemoryInv, InLockstep
  <1>8. \A w \in World : mem[w].after # << >>
    <2>1. \A w \in World : Len(Timing(mem[w].after)) = Len(mem[w].after)
      BY <1>6, TimingType
    <2>2. Len(mem["fresh"].after) = Len(mem["used"].after)
      BY <1>4, <1>7, <2>1
    <2>3. mem["fresh"].after # << >>
      BY <1>1, <1>4, <1>6, <2>2, EmptySeq
    <2> QED
      BY <1>1, <2>3 DEF World
  <1>9. ASSUME NEW w \in World
        PROVE  /\ MemoryOK(safe, mem'[w]) /\ ClaimedOnce(mem'[w])
               /\ mem'[w].raw = mem[w].raw /\ mem'[w].dest = mem[w].dest
               /\ mem'[w].waiting = mem[w].waiting
               /\ mem'[w].after = Tail(mem[w].after)
    BY <1>3, <1>5, <1>8, AssignedMemory
  <1>10. ASSUME NEW w \in World
         PROVE  Aligned(mem[w])' /\ Holds(mem[w])'
    BY <1>1, <1>5, <1>9 DEF Aligned, Holds
  <1>11. Timing(Tail(mem["used"].after)) = Timing(Tail(mem["fresh"].after))
    <2>1. \A w \in World :
            Timing(Tail(mem[w].after)) = Tail(Timing(mem[w].after))
      BY <1>6, <1>8, TimingTail
    <2> QED
      BY <1>4, <1>7, <2>1
  <1>12. InLockstep(mem'["used"], mem'["fresh"])
    BY <1>4, <1>9, <1>11 DEF MemoryInv, InLockstep
  <1> QED
    BY <1>1, <1>2, <1>3, <1>9, <1>10, <1>12 DEF MemoryInv

\* One more in front of a sequence.
LEMMA FrontOf ==
  ASSUME NEW S, NEW x \in S, NEW q \in Seq(S)
  PROVE  /\ <<x>> \o q \in Seq(S) /\ Len(<<x>> \o q) = Len(q) + 1
         /\ (<<x>> \o q)[1] = x
         /\ \A k \in 2 .. Len(q) + 1 : k - 1 \in 1 .. Len(q) /\ (<<x>> \o q)[k] = q[k - 1]
  <1>1. <<x>> \in Seq(S) /\ Len(<<x>>) = 1 /\ Len(q) \in Nat
    OBVIOUS
  <1> DEFINE y == <<x>>
  <1>2. y[1] = x /\ y \in Seq(S) /\ Len(y) = 1
    BY <1>1
  <1> HIDE DEF y
  <1>3. /\ y \o q \in Seq(S) /\ Len(y \o q) = Len(y) + Len(q)
        /\ \A k \in 1 .. Len(y) + Len(q) :
             (y \o q)[k] = IF k <= Len(y) THEN y[k] ELSE q[k - Len(y)]
    BY ONLY <1>2, ConcatProperties
  <1>4. /\ y \o q \in Seq(S) /\ Len(y \o q) = Len(q) + 1
        /\ (y \o q)[1] = x
        /\ \A k \in 2 .. Len(q) + 1 : k - 1 \in 1 .. Len(q) /\ (y \o q)[k] = q[k - 1]
    BY <1>1, <1>2, <1>3
  <1> QED
    BY <1>4 DEF y

\* What waits of a method that calls another.
Frames(s) == [dest : Seq(Location), after : Seq(Assignment(s))]

LEMMA EnteredMemory ==
  ASSUME NEW s, NEW m, MemoryOK(s, m), ClaimedOnce(m), m.dest # << >>,
         This.elems \in Seq(Type)
  PROVE  /\ MemoryOK(s, Entered(m)) /\ ClaimedOnce(Entered(m))
         /\ Entered(m).raw = m.raw
         /\ Len(Entered(m).dest) = Len(This.elems) /\ Entered(m).after = << >>
         /\ Entered(m).waiting = <<[dest |-> Tail(m.dest), after |-> m.after]>> \o m.waiting
  <1> DEFINE n == Entered(m)
             dest == [k \in 1 .. Len(This.elems) |-> At(m) \o <<k>>]
             frame == [dest |-> Tail(m.dest), after |-> m.after]
  <1>1. /\ m.dest \in Seq(Location) /\ m.after \in Seq(Assignment(s))
        /\ m.waiting \in Seq(Frames(s))
    BY DEF MemoryOK, Frames
  <1>2. At(m) \in Location /\ Tail(m.dest) \in Seq(Location) /\ Len(This.elems) \in Nat
    BY <1>1 DEF At
  <1>3. dest \in Seq(Location) /\ Len(dest) = Len(This.elems)
    BY <1>2, PartLocations
  <1>4. frame \in Frames(s) /\ frame.after = m.after
    BY <1>1, <1>2 DEF Frames
  <1>5. /\ DOMAIN n = MemoryFields /\ n.raw = m.raw /\ n.refs = m.refs /\ n.next = m.next
        /\ n.dest = dest /\ n.after = << >> /\ n.waiting = <<frame>> \o m.waiting
    BY DEF Entered, MemoryOK, MemoryFields
  <1> HIDE DEF n, dest, frame
  <1>6. /\ n.waiting \in Seq(Frames(s)) /\ Len(n.waiting) = Len(m.waiting) + 1
        /\ n.waiting[1] = frame
        /\ \A k \in 2 .. Len(m.waiting) + 1 : k - 1 \in 1 .. Len(m.waiting)
                                              /\ n.waiting[k] = m.waiting[k - 1]
    BY <1>1, <1>4, <1>5, FrontOf
  <1>7. MemoryOK(s, n)
    <2>1. << >> \in Seq(Assignment(s))
      OBVIOUS
    <2> QED
      BY <1>3, <1>5, <1>6, <2>1 DEF MemoryOK, Frames
  <1>8. Pending(n) \subseteq Pending(m)
    <2>0. DOMAIN n.after = {}
      BY <1>5
    <2>4. SUFFICES ASSUME NEW j \in DOMAIN n.waiting, NEW k \in DOMAIN n.waiting[j].after
                   PROVE  n.waiting[j].after[k] \in Pending(m)
      BY <2>0 DEF Pending
    <2>1. CASE j = 1
      BY <1>4, <1>6, <2>1 DEF Pending
    <2>2. CASE j # 1
      <3>1. j - 1 \in DOMAIN m.waiting /\ n.waiting[j] = m.waiting[j - 1]
        <4>1. DOMAIN n.waiting = 1 .. Len(n.waiting) /\ DOMAIN m.waiting = 1 .. Len(m.waiting)
          BY <1>1, <1>6, LenProperties
        <4>2. Len(m.waiting) \in Nat
          BY <1>1, LenProperties
        <4>3. j \in 2 .. Len(m.waiting) + 1
          BY <1>6, <2>2, <4>1, <4>2
        <4> QED
          BY <1>6, <4>1, <4>3
      <3> QED
        BY <3>1 DEF Pending
    <2> QED
      BY <2>1, <2>2
  <1>9. ClaimedOnce(n)
    BY <1>5, <1>8 DEF Claims, ClaimedOnce
  <1> QED
    BY <1>3, <1>5, <1>7, <1>9 DEF n, frame

LEMMA LeftMemory ==
  ASSUME NEW s, NEW m, MemoryOK(s, m), ClaimedOnce(m), m.waiting # << >>
  PROVE  /\ MemoryOK(s, Left(m)) /\ ClaimedOnce(Left(m))
         /\ Left(m).raw = m.raw
         /\ Left(m).dest = m.waiting[1].dest /\ Left(m).after = m.waiting[1].after
         /\ Left(m).waiting = Tail(m.waiting)
  <1> DEFINE n == Left(m)
  <1>1. m.waiting \in Seq(Frames(s))
    BY DEF MemoryOK, Frames
  <1>2. /\ DOMAIN n = MemoryFields /\ n.raw = m.raw /\ n.refs = m.refs /\ n.next = m.next
        /\ n.dest = m.waiting[1].dest /\ n.after = m.waiting[1].after
        /\ n.waiting = Tail(m.waiting)
    BY <1>1 DEF Left, MemoryOK, MemoryFields
  <1>3. /\ 1 \in DOMAIN m.waiting /\ m.waiting[1] \in Frames(s)
        /\ Tail(m.waiting) \in Seq(Frames(s))
        /\ \A k \in DOMAIN Tail(m.waiting) :
             k + 1 \in DOMAIN m.waiting /\ Tail(m.waiting)[k] = m.waiting[k + 1]
    BY <1>1
  <1> HIDE DEF n
  <1>4. MemoryOK(s, n)
    BY <1>2, <1>3 DEF MemoryOK, Frames
  <1>5. Pending(n) \subseteq Pending(m)
    <2>1. \A k \in DOMAIN n.after : n.after[k] \in Pending(m)
      BY <1>2, <1>3 DEF Pending
    <2>2. ASSUME NEW j \in DOMAIN n.waiting, NEW k \in DOMAIN n.waiting[j].after
          PROVE  n.waiting[j].after[k] \in Pending(m)
      <3>1. j + 1 \in DOMAIN m.waiting /\ n.waiting[j] = m.waiting[j + 1]
        BY <1>2, <1>3
      <3> QED
        BY <3>1 DEF Pending
    <2> QED
      BY <2>1, <2>2 DEF Pending
  <1>6. ClaimedOnce(n)
    BY <1>2, <1>5 DEF Claims, ClaimedOnce
  <1> QED
    BY <1>2, <1>4, <1>6 DEF n

\* n is m in a method called from where m was.
Enters(m, n) ==
  /\ n.raw = m.raw /\ n.after = << >>
  /\ Len(m.waiting) \in Nat /\ Len(n.waiting) = Len(m.waiting) + 1
  /\ n.waiting[1] = [dest |-> Tail(m.dest), after |-> m.after]
  /\ \A k \in 2 .. Len(m.waiting) + 1 :
       k - 1 \in 1 .. Len(m.waiting) /\ n.waiting[k] = m.waiting[k - 1]

LEMMA EnteredEnters ==
  ASSUME NEW s, NEW m, MemoryOK(s, m), ClaimedOnce(m), m.dest # << >>,
         This.elems \in Seq(Type)
  PROVE  /\ MemoryOK(s, Entered(m)) /\ ClaimedOnce(Entered(m)) /\ Enters(m, Entered(m))
         /\ Len(Entered(m).dest) = Len(This.elems)
  <1> DEFINE frame == [dest |-> Tail(m.dest), after |-> m.after]
             n == Entered(m)
  <1>1. /\ MemoryOK(s, n) /\ ClaimedOnce(n) /\ n.raw = m.raw
        /\ Len(n.dest) = Len(This.elems) /\ n.after = << >>
        /\ n.waiting = <<frame>> \o m.waiting
    BY EnteredMemory
  <1> HIDE DEF n
  <1>2. m.dest \in Seq(Location) /\ m.after \in Seq(Assignment(s))
        /\ m.waiting \in Seq(Frames(s))
    BY DEF MemoryOK, Frames
  <1>3. frame \in Frames(s) /\ Len(m.waiting) \in Nat
    BY <1>2 DEF Frames
  <1> HIDE DEF frame
  <1>4. /\ Len(n.waiting) = Len(m.waiting) + 1
        /\ n.waiting[1] = frame
        /\ \A k \in 2 .. Len(m.waiting) + 1 :
             k - 1 \in 1 .. Len(m.waiting) /\ n.waiting[k] = m.waiting[k - 1]
    BY <1>1, <1>2, <1>3, FrontOf
  <1> QED
    BY <1>1, <1>3, <1>4 DEF Enters, frame, n

LEMMA EntersAligned ==
  ASSUME NEW m, NEW n, Enters(m, n), DecSafe!TypeOK, todo # << >>,
         m.dest \in Seq(Location), Aligned(m),
         callers' = <<[base |-> base, todo |-> Tail(todo)]>> \o callers
  PROVE  /\ Len(n.waiting) = Len(callers')
         /\ \A k \in 1 .. Len(callers') : Len(n.waiting[k].dest) = Len(callers'[k].todo)
  <1> DEFINE frame == [base |-> base, todo |-> Tail(todo)]
  <1>1. /\ todo \in Seq(Type) /\ callers \in Seq(DecSafe!Frame) /\ Len(callers) \in Nat
        /\ frame \in DecSafe!Frame
    BY DEF DecSafe!TypeOK, DecSafe!Frame
  <1> HIDE DEF frame
  <1>2. /\ Len(callers') = Len(callers) + 1 /\ callers'[1] = frame
        /\ \A k \in 2 .. Len(callers) + 1 :
             k - 1 \in 1 .. Len(callers) /\ callers'[k] = callers[k - 1]
    BY <1>1, FrontOf DEF frame
  <1>3. Len(m.waiting) = Len(callers) /\ Len(m.dest) = Len(todo)
        /\ \A k \in 1 .. Len(callers) : Len(m.waiting[k].dest) = Len(callers[k].todo)
    BY DEF Aligned
  <1>4. Len(Tail(m.dest)) = Len(Tail(todo))
    <2>1. m.dest # << >>
      BY <1>1, <1>3
    <2> QED
      BY <1>1, <1>3, <2>1, HeadTailProperties
  <1>5. n.waiting[1].dest = Tail(m.dest) /\ frame.todo = Tail(todo)
    BY DEF Enters, frame
  <1>6. ASSUME NEW k \in 1 .. Len(callers')
        PROVE  Len(n.waiting[k].dest) = Len(callers'[k].todo)
    <2>1. CASE k = 1
      BY <1>2, <1>4, <1>5, <2>1
    <2>2. CASE k # 1
      <3>1. k \in 2 .. Len(callers) + 1
        BY <1>1, <1>2, <2>2
      <3>2. n.waiting[k] = m.waiting[k - 1]
        BY <1>3, <3>1 DEF Enters
      <3> QED
        BY <1>2, <1>3, <3>1, <3>2
    <2> QED
      BY <2>1, <2>2
  <1> QED
    BY <1>2, <1>3, <1>6 DEF Enters

LEMMA EntersInLockstep ==
  ASSUME NEW u, NEW f, NEW v, NEW g, InLockstep(u, f), Enters(u, v), Enters(f, g)
  PROVE  InLockstep(v, g)
  <1>1. ASSUME NEW k \in 1 .. Len(v.waiting)
        PROVE  Timing(v.waiting[k].after) = Timing(g.waiting[k].after)
    <2>1. CASE k = 1
      <3>1. v.waiting[1].after = u.after /\ g.waiting[1].after = f.after
        BY DEF Enters
      <3> QED
        BY <2>1, <3>1 DEF InLockstep
    <2>2. CASE k # 1
      <3>1. k \in 2 .. Len(u.waiting) + 1 /\ Len(u.waiting) = Len(f.waiting)
        BY <2>2 DEF Enters, InLockstep
      <3>2. k - 1 \in 1 .. Len(u.waiting) /\ v.waiting[k] = u.waiting[k - 1]
            /\ g.waiting[k] = f.waiting[k - 1]
        BY <3>1 DEF Enters
      <3> QED
        BY <3>2 DEF InLockstep
    <2> QED
      BY <2>1, <2>2
  <1>2. v.after = g.after /\ Len(v.waiting) = Len(g.waiting)
    BY DEF Enters, InLockstep
  <1> QED
    BY <1>1, <1>2 DEF InLockstep

LEMMA EnterKeepsInv == MemoryInv /\ Enter => MemoryInv'
  <1> SUFFICES ASSUME MemoryInv, Enter
               PROVE  MemoryInv'
    OBVIOUS
  <1>1. /\ phase = "run" /\ Step /\ Len(callers') > Len(callers)
        /\ mem' = [w \in World |-> Entered(mem[w])]
        /\ safe' = safe /\ input' = input /\ calls' = calls /\ edited' = edited
    BY DEF Enter, user
  <1>2. /\ DecSafe!TypeOK /\ in.data \in Buffers[safe][root] /\ input < 0 /\ input \in Int
        /\ safe \in BOOLEAN
    BY <1>1 DEF MemoryInv, CallOK
  <1>3. DecSafe!TypeOK' /\ root' = root
    BY <1>1, <1>2, StepType, RootStays
  <1>4. /\ todo # << >> /\ todo' = This.elems /\ in' = in
        /\ callers' = <<[base |-> base, todo |-> Tail(todo)]>> \o callers
    BY <1>1, <1>2, CallStep
  <1>5. phase' # "idle"
    BY <1>3 DEF DecSafe!TypeOK
  <1>6. CallOK'
    BY <1>1, <1>2, <1>3, <1>4, <1>5 DEF MemoryInv, CallOK
  <1>7. mem' = [w \in World |-> mem'[w]] /\ \A w \in World : mem'[w] = Entered(mem[w])
    BY <1>1
  <1>8. /\ todo \in Seq(Type) /\ callers \in Seq(DecSafe!Frame) /\ This.elems \in Seq(Type)
        /\ [base |-> base, todo |-> Tail(todo)] \in DecSafe!Frame
    BY <1>2, <1>4, ThisType DEF DecSafe!TypeOK, DecSafe!Frame
  <1>9. ASSUME NEW w \in World
        PROVE  /\ MemoryOK(safe, mem[w]) /\ ClaimedOnce(mem[w])
               /\ Aligned(mem[w]) /\ Holds(mem[w]) /\ mem[w].dest # << >>
    <2>1. MemoryOK(safe, mem[w]) /\ Aligned(mem[w])
      BY <1>1 DEF MemoryInv
    <2>2. mem[w].dest # << >>
      BY <1>4, <1>8, <2>1 DEF MemoryOK, Aligned
    <2> QED
      BY <1>1, <2>2 DEF MemoryInv
  <1>10. ASSUME NEW w \in World
         PROVE  /\ MemoryOK(safe, mem'[w]) /\ ClaimedOnce(mem'[w]) /\ Enters(mem[w], mem'[w])
                /\ Len(mem'[w].dest) = Len(This.elems)
    <2>1. mem'[w] = Entered(mem[w])
      BY <1>7
    <2>2. /\ MemoryOK(safe, mem[w]) /\ ClaimedOnce(mem[w]) /\ mem[w].dest # << >>
          /\ This.elems \in Seq(Type)
      BY <1>8, <1>9
    <2>3. /\ MemoryOK(safe, Entered(mem[w])) /\ ClaimedOnce(Entered(mem[w]))
          /\ Enters(mem[w], Entered(mem[w]))
          /\ Len(Entered(mem[w]).dest) = Len(This.elems)
      BY <2>2, EnteredEnters
    <2> QED
      BY <2>1, <2>3
  <1>11. ASSUME NEW w \in World
         PROVE  Aligned(mem[w])' /\ Holds(mem[w])'
    <2>1. mem[w].dest \in Seq(Location)
      BY <1>9 DEF MemoryOK
    <2>2. /\ Len(mem'[w].waiting) = Len(callers')
          /\ \A k \in 1 .. Len(callers') :
               Len(mem'[w].waiting[k].dest) = Len(callers'[k].todo)
      BY <1>2, <1>4, <1>9, <1>10, <2>1, EntersAligned
    <2>3. mem'[w].raw = mem[w].raw
      BY <1>10 DEF Enters
    <2> QED
      BY <1>1, <1>4, <1>9, <1>10, <2>2, <2>3 DEF Aligned, Holds
  <1>12. InLockstep(mem'["used"], mem'["fresh"])
    <2>1. "used" \in World /\ "fresh" \in World
      BY DEF World
    <2>2. InLockstep(mem["used"], mem["fresh"])
      BY DEF MemoryInv
    <2> QED
      BY <1>10, <2>1, <2>2, EntersInLockstep
  <1> QED
    BY <1>1, <1>6, <1>7, <1>10, <1>11, <1>12 DEF MemoryInv

\* n is m back in the method that waited last.
Leaves(m, n) ==
  /\ n.raw = m.raw /\ n.dest = m.waiting[1].dest /\ n.after = m.waiting[1].after
  /\ Len(m.waiting) \in Nat \ { 0 } /\ Len(n.waiting) = Len(m.waiting) - 1
  /\ \A k \in 1 .. Len(m.waiting) - 1 :
       k + 1 \in 1 .. Len(m.waiting) /\ n.waiting[k] = m.waiting[k + 1]

LEMMA LeftLeaves ==
  ASSUME NEW s, NEW m, MemoryOK(s, m), ClaimedOnce(m), m.waiting # << >>,
         NEW n, n = Left(m)
  PROVE  MemoryOK(s, n) /\ ClaimedOnce(n) /\ Leaves(m, n)
  <1>1. /\ MemoryOK(s, n) /\ ClaimedOnce(n) /\ n.raw = m.raw
        /\ n.dest = m.waiting[1].dest /\ n.after = m.waiting[1].after
        /\ n.waiting = Tail(m.waiting)
    BY LeftMemory
  <1>2. m.waiting \in Seq(Frames(s))
    BY DEF MemoryOK, Frames
  <1>3. /\ Len(m.waiting) \in Nat \ { 0 }
        /\ Len(n.waiting) = Len(m.waiting) - 1
        /\ \A k \in 1 .. Len(m.waiting) - 1 : n.waiting[k] = m.waiting[k + 1]
    BY <1>1, <1>2, HeadTailProperties, EmptySeq
  <1> QED
    BY <1>1, <1>3 DEF Leaves

LEMMA LeavesAligned ==
  ASSUME NEW m, NEW n, Leaves(m, n), DecSafe!TypeOK, Aligned(m), callers # << >>,
         callers' = Tail(callers), todo' = Head(callers).todo
  PROVE  /\ Len(n.dest) = Len(todo') /\ Len(n.waiting) = Len(callers')
         /\ \A k \in 1 .. Len(callers') : Len(n.waiting[k].dest) = Len(callers'[k].todo)
  <1>1. /\ Len(callers) \in Nat \ { 0 } /\ Head(callers) = callers[1]
        /\ Len(callers') = Len(callers) - 1
        /\ \A k \in 1 .. Len(callers) - 1 : callers'[k] = callers[k + 1]
    BY HeadTailProperties, EmptySeq DEF DecSafe!TypeOK
  <1>2. Len(m.waiting) = Len(callers)
        /\ \A k \in 1 .. Len(callers) : Len(m.waiting[k].dest) = Len(callers[k].todo)
    BY DEF Aligned
  <1>3. 1 \in 1 .. Len(callers)
    BY <1>1
  <1>4. Len(n.dest) = Len(todo')
    BY <1>1, <1>2, <1>3 DEF Leaves
  <1>5. ASSUME NEW k \in 1 .. Len(callers')
        PROVE  Len(n.waiting[k].dest) = Len(callers'[k].todo)
    <2>1. k \in 1 .. Len(callers) - 1
      BY <1>1
    <2>2. k + 1 \in 1 .. Len(callers) /\ n.waiting[k] = m.waiting[k + 1]
      BY <1>2, <2>1 DEF Leaves
    <2> QED
      BY <1>1, <1>2, <2>1, <2>2
  <1> QED
    BY <1>1, <1>2, <1>4, <1>5 DEF Leaves

LEMMA LeavesInLockstep ==
  ASSUME NEW u, NEW f, NEW v, NEW g, InLockstep(u, f), Leaves(u, v), Leaves(f, g)
  PROVE  InLockstep(v, g)
  <1>1. Len(u.waiting) \in Nat \ { 0 } /\ Len(f.waiting) = Len(u.waiting)
    BY DEF Leaves, InLockstep
  <1>2. \A k \in 1 .. Len(u.waiting) :
          Timing(u.waiting[k].after) = Timing(f.waiting[k].after)
    BY DEF InLockstep
  <1>3. Timing(v.after) = Timing(g.after)
    <2>1. 1 \in 1 .. Len(u.waiting)
      BY <1>1
    <2> QED
      BY <1>2, <2>1 DEF Leaves
  <1>4. Len(v.waiting) = Len(u.waiting) - 1 /\ Len(g.waiting) = Len(u.waiting) - 1
    BY <1>1 DEF Leaves
  <1>5. ASSUME NEW k \in 1 .. Len(v.waiting)
        PROVE  Timing(v.waiting[k].after) = Timing(g.waiting[k].after)
    <2>1. k \in 1 .. Len(u.waiting) - 1
      BY <1>4
    <2>2. k + 1 \in 1 .. Len(u.waiting) /\ v.waiting[k] = u.waiting[k + 1]
          /\ g.waiting[k] = f.waiting[k + 1]
      BY <1>1, <2>1 DEF Leaves
    <2> QED
      BY <1>2, <2>2
  <1> QED
    BY <1>3, <1>4, <1>5 DEF InLockstep

LEMMA LeaveKeepsInv == MemoryInv /\ Leave => MemoryInv'
  <1> SUFFICES ASSUME MemoryInv, Leave
               PROVE  MemoryInv'
    OBVIOUS
  <1>1. /\ phase # "idle" /\ Step /\ Len(callers') < Len(callers)
        /\ mem' = [w \in World |-> Left(mem[w])]
        /\ safe' = safe /\ input' = input /\ calls' = calls /\ edited' = edited
    BY DEF Leave, user
  <1>2. /\ DecSafe!TypeOK /\ in.data \in Buffers[safe][root] /\ input < 0 /\ input \in Int
        /\ safe \in BOOLEAN
    BY <1>1 DEF MemoryInv, CallOK
  <1>3. DecSafe!TypeOK' /\ root' = root
    BY <1>1, <1>2, StepType, RootStays
  <1>4. /\ callers # << >> /\ callers' = Tail(callers) /\ todo' = Head(callers).todo
        /\ in' = in
    BY <1>1, <1>2, ReturnStep
  <1>5. phase' # "idle"
    BY <1>3 DEF DecSafe!TypeOK
  <1>6. CallOK'
    BY <1>1, <1>2, <1>3, <1>4, <1>5 DEF MemoryInv, CallOK
  <1>7. mem' = [w \in World |-> mem'[w]] /\ \A w \in World : mem'[w] = Left(mem[w])
    BY <1>1
  <1>8. Len(callers) \in Nat \ { 0 }
    BY <1>2, <1>4, EmptySeq DEF DecSafe!TypeOK
  <1>9. ASSUME NEW w \in World
        PROVE  /\ MemoryOK(safe, mem[w]) /\ ClaimedOnce(mem[w])
               /\ Aligned(mem[w]) /\ Holds(mem[w])
               /\ mem[w].waiting \in Seq(Frames(safe)) /\ mem[w].waiting # << >>
               /\ Len(mem[w].waiting) = Len(callers)
    <2>1. MemoryOK(safe, mem[w]) /\ Aligned(mem[w])
      BY <1>1 DEF MemoryInv
    <2>2. mem[w].waiting \in Seq(Frames(safe)) /\ Len(mem[w].waiting) = Len(callers)
      BY <2>1 DEF MemoryOK, Frames, Aligned
    <2>3. mem[w].waiting # << >>
      BY <1>8, <2>2
    <2> QED
      BY <1>1, <2>2, <2>3 DEF MemoryInv
  <1>10. ASSUME NEW w \in World
         PROVE  /\ MemoryOK(safe, mem'[w]) /\ ClaimedOnce(mem'[w]) /\ Leaves(mem[w], mem'[w])
    <2>1. mem'[w] = Left(mem[w])
      BY <1>7
    <2> QED
      BY <1>9, <2>1, LeftLeaves
  <1>11. ASSUME NEW w \in World
         PROVE  Aligned(mem[w])' /\ Holds(mem[w])'
    <2>1. /\ Len(mem'[w].dest) = Len(todo') /\ Len(mem'[w].waiting) = Len(callers')
          /\ \A k \in 1 .. Len(callers') :
               Len(mem'[w].waiting[k].dest) = Len(callers'[k].todo)
      BY <1>2, <1>4, <1>9, <1>10, LeavesAligned
    <2>2. mem'[w].raw = mem[w].raw
      BY <1>10 DEF Leaves
    <2> QED
      BY <1>1, <1>4, <1>9, <2>1, <2>2 DEF Aligned, Holds
  <1>12. InLockstep(mem'["used"], mem'["fresh"])
    <2>1. "used" \in World /\ "fresh" \in World
      BY DEF World
    <2>2. InLockstep(mem["used"], mem["fresh"])
      BY DEF MemoryInv
    <2> QED
      BY <1>10, <2>1, <2>2, LeavesInLockstep
  <1> QED
    BY <1>1, <1>6, <1>7, <1>10, <1>11, <1>12 DEF MemoryInv

LEMMA StopKeepsInv == MemoryInv /\ Stop => MemoryInv'
  <1> SUFFICES ASSUME MemoryInv, Stop
               PROVE  MemoryInv'
    OBVIOUS
  <1>1. /\ phase # "idle" /\ Step /\ phase' # "run" /\ callers' = callers
        /\ mem' = mem
        /\ safe' = safe /\ input' = input /\ calls' = calls /\ edited' = edited
    BY DEF Stop, user
  <1>2. /\ DecSafe!TypeOK /\ in.data \in Buffers[safe][root] /\ input < 0 /\ input \in Int
    BY <1>1 DEF MemoryInv, CallOK
  <1>3. DecSafe!TypeOK' /\ root' = root
    BY <1>1, <1>2, StepType, RootStays
  <1>4. todo' = todo /\ in' = in
    BY <1>1, <1>2, StopStep
  <1>5. phase' # "idle"
    BY <1>3 DEF DecSafe!TypeOK
  <1>6. CallOK'
    BY <1>1, <1>2, <1>3, <1>4, <1>5 DEF MemoryInv, CallOK
  <1> QED
    BY <1>1, <1>4, <1>6 DEF MemoryInv, Aligned, Holds

-----------------------------------------------------------------------------
(***************************************************************************)
(* What the user does to it.                                               *)
(***************************************************************************)

LEMMA ZeroedMemory ==
  ASSUME NEW s, NEW o \in Int, NEW bytes
  PROVE  /\ MemoryOK(s, Zeroed(o, bytes)) /\ ClaimedOnce(Zeroed(o, bytes))
         /\ <<o>> \in DOMAIN Zeroed(o, bytes).raw /\ Zeroed(o, bytes).raw[<<o>>] = bytes
         /\ Zeroed(o, bytes).dest = <<Variable>> /\ Zeroed(o, bytes).after = << >>
         /\ Zeroed(o, bytes).waiting = << >>
  <1> DEFINE m == Zeroed(o, bytes)
  <1>1. /\ DOMAIN m = MemoryFields
        /\ m.raw = [l \in { <<o>> } |-> bytes] /\ m.refs = << >> /\ m.next = 2
        /\ m.dest = <<Variable>> /\ m.after = << >> /\ m.waiting = << >>
    BY DEF Zeroed, MemoryFields
  <1> HIDE DEF m
  <1>2. <<o>> \in Path /\ <<Variable>> \in Seq(Location)
    BY DEF Path, Location, Variable
  <1>3. DOMAIN m.refs = {} /\ DOMAIN m.raw = { <<o>> } /\ m.raw[<<o>>] = bytes
    BY <1>1
  <1>4. m.after \in Seq(Assignment(s)) /\ m.waiting \in Seq(Frames(s))
    BY <1>1
  <1>5. MemoryOK(s, m)
    BY <1>1, <1>2, <1>3, <1>4 DEF MemoryOK, Frames
  <1>6. Claims(m) = {}
    <2>1. DOMAIN m.after = {} /\ DOMAIN m.waiting = {}
      BY <1>1
    <2> QED
      BY <1>3, <2>1 DEF Claims, Pending
  <1>7. ClaimedOnce(m)
    BY <1>6 DEF ClaimedOnce
  <1> QED
    BY <1>1, <1>3, <1>5, <1>7 DEF m

\* The memory whose variable the user decodes into again.
Again(m, o, data) ==
  [Put(m, <<o>>, data) EXCEPT !.dest = <<Variable>>, !.after = << >>, !.waiting = << >>]

LEMMA AgainMemory ==
  ASSUME NEW s, NEW m, MemoryOK(s, m), ClaimedOnce(m), NEW o \in Int, NEW data
  PROVE  /\ MemoryOK(s, Again(m, o, data)) /\ ClaimedOnce(Again(m, o, data))
         /\ <<o>> \in DOMAIN Again(m, o, data).raw /\ Again(m, o, data).raw[<<o>>] = data
         /\ Again(m, o, data).dest = <<Variable>> /\ Again(m, o, data).after = << >>
         /\ Again(m, o, data).waiting = << >>
  <1> DEFINE n == Again(m, o, data)
  <1>1. /\ DOMAIN n = MemoryFields
        /\ n.raw = With(m.raw, <<o>>, data) /\ n.refs = m.refs /\ n.next = m.next
        /\ n.dest = <<Variable>> /\ n.after = << >> /\ n.waiting = << >>
    BY DEF Again, Put, MemoryOK, MemoryFields
  <1> HIDE DEF n
  <1>2. <<o>> \in Path /\ <<Variable>> \in Seq(Location)
    BY DEF Path, Location, Variable
  <1>3. DOMAIN n.raw = DOMAIN m.raw \cup { <<o>> } /\ n.raw[<<o>>] = data
    BY <1>1 DEF With, Updated
  <1>4. n.after \in Seq(Assignment(s)) /\ n.waiting \in Seq(Frames(s))
    BY <1>1
  <1>5. MemoryOK(s, n)
    BY <1>1, <1>2, <1>3, <1>4 DEF MemoryOK, Frames
  <1>6. Claims(n) \subseteq Claims(m)
    <2>1. DOMAIN n.after = {} /\ DOMAIN n.waiting = {}
      BY <1>1
    <2>2. Pending(n) = {}
      BY <2>1 DEF Pending
    <2> QED
      BY <1>1, <2>2 DEF Claims
  <1>7. ClaimedOnce(n)
    BY <1>1, <1>6 DEF ClaimedOnce
  <1> QED
    BY <1>1, <1>3, <1>5, <1>7 DEF n

LEMMA DecodeKeepsInv ==
  ASSUME MemoryInv, NEW o \in Int, o < 0, NEW data \in Buffers[safe][root],
         NEW n \in Nat, n <= Len(data), Decode(o, data, n)
  PROVE  MemoryInv'
  <1>1. /\ root \in Roots /\ safe \in BOOLEAN /\ calls \in Nat
        /\ \A w \in World : MemoryOK(safe, mem[w]) /\ ClaimedOnce(mem[w])
    BY DEF MemoryInv, CallOK
  <1>2. /\ in' = [data |-> data, len |-> n] /\ input' = o
        /\ base' = 0 /\ off' = 0 /\ todo' = <<root>> /\ callers' = << >>
        /\ phase' = "run" /\ err' = DecSafe!NoErr /\ made' = 0 /\ raised' = DecSafe!NoErr
        /\ calls' = calls + 1 /\ root' = root /\ safe' = safe
    BY DEF Decode
  <1>3. /\ mem' = [used |-> Again(mem["used"], o, data), fresh |-> Zeroed(o, data)]
    BY DEF Decode, Again
  <1>4. in' \in Input
    <2>1. data \in Seq(Nat) /\ Len(data) <= MaxInt
      BY <1>1, BuffersAssumption
    <2>2. n \in 0 .. MaxInt
      BY <2>1, MaxIntAssumption
    <2> DEFINE all == UNION { Buffers[s][t] : s \in BOOLEAN, t \in Roots }
    <2>3. data \in all
      BY <1>1
    <2>4. Given = { [data |-> d, len |-> k] : d \in all, k \in 0 .. MaxInt }
      BY DEF Given
    <2> HIDE DEF all
    <2>5. in' \in Given
      BY <1>2, <2>2, <2>3, <2>4
    <2> QED
      BY <1>2, <2>5 DEF Input
  <1>5. DecSafe!TypeOK'
    <2>1. root \in Type
      BY <1>1, DecoderAssumption DEF DecSafe!RootsAssumption
    <2> QED
      BY <1>1, <1>2, <1>4, <2>1 DEF DecSafe!TypeOK, DecSafe!Errors
  <1>6. CallOK'
    BY <1>1, <1>2, <1>5 DEF CallOK
  <1>7. "used" \in World /\ "fresh" \in World /\ \A w \in World : w = "used" \/ w = "fresh"
    BY DEF World
  <1>8. mem' = [w \in World |-> mem'[w]]
    BY <1>3 DEF World
  <1>9. mem'["used"] = Again(mem["used"], o, data) /\ mem'["fresh"] = Zeroed(o, data)
    BY <1>3
  <1>10. ASSUME NEW w \in World
         PROVE  /\ MemoryOK(safe, mem'[w]) /\ ClaimedOnce(mem'[w])
                /\ <<o>> \in DOMAIN mem'[w].raw /\ mem'[w].raw[<<o>>] = data
                /\ mem'[w].dest = <<Variable>> /\ mem'[w].after = << >>
                /\ mem'[w].waiting = << >>
    <2>1. CASE w = "used"
      <3> DEFINE x == Again(mem["used"], o, data)
      <3>1. /\ MemoryOK(safe, x) /\ ClaimedOnce(x)
            /\ <<o>> \in DOMAIN x.raw /\ x.raw[<<o>>] = data
            /\ x.dest = <<Variable>> /\ x.after = << >> /\ x.waiting = << >>
        BY <1>1, <1>7, AgainMemory
      <3> HIDE DEF x
      <3> QED
        BY <1>9, <2>1, <3>1 DEF x
    <2>2. CASE w = "fresh"
      <3> DEFINE x == Zeroed(o, data)
      <3>1. /\ MemoryOK(safe, x) /\ ClaimedOnce(x)
            /\ <<o>> \in DOMAIN x.raw /\ x.raw[<<o>>] = data
            /\ x.dest = <<Variable>> /\ x.after = << >> /\ x.waiting = << >>
        BY ZeroedMemory
      <3> HIDE DEF x
      <3> QED
        BY <1>9, <2>2, <3>1 DEF x
    <2> QED
      BY <1>7, <2>1, <2>2
  <1>11. ASSUME NEW w \in World
         PROVE  Aligned(mem[w])' /\ Holds(mem[w])'
    BY <1>2, <1>10 DEF Aligned, Holds
  <1>12. InLockstep(mem'["used"], mem'["fresh"])
    BY <1>7, <1>10 DEF InLockstep
  <1> QED
    BY <1>2, <1>6, <1>8, <1>10, <1>11, <1>12 DEF MemoryInv

LEMMA CallOnNewKeepsInv == MemoryInv /\ CallOnNew => MemoryInv'
  <1> SUFFICES ASSUME MemoryInv, CallOnNew
               PROVE  MemoryInv'
    OBVIOUS
  <1>1. PICK msg \in Messages[safe][root] : Decode(input - 1, msg, Len(msg))
    BY DEF CallOnNew
  <1>2. root \in Roots /\ safe \in BOOLEAN /\ input \in Int /\ (input = 0 \/ input < 0)
    BY DEF MemoryInv, CallOK
  <1>3. msg \in Buffers[safe][root] /\ msg \in Seq(Nat)
    BY <1>2, BuffersAssumption
  <1>4. Len(msg) \in Nat /\ Len(msg) <= Len(msg) /\ input - 1 \in Int /\ input - 1 < 0
    BY <1>2, <1>3
  <1> QED
    BY <1>1, <1>3, <1>4, DecodeKeepsInv

LEMMA OverType ==
  ASSUME NEW msg \in Seq(Nat), NEW held \in Seq(Nat), Len(msg) <= Len(held)
  PROVE  Len(msg) \in Nat /\ Len(msg) <= Len(Over(msg, held))
  <1> DEFINE rest == SubSeq(held, Len(msg) + 1, Len(held))
  <1>1. Len(msg) \in Nat /\ rest \in Seq(Nat) /\ Len(rest) \in Nat
    OBVIOUS
  <1> HIDE DEF rest
  <1>2. Len(msg \o rest) = Len(msg) + Len(rest)
    BY <1>1, ConcatProperties
  <1> QED
    BY <1>1, <1>2 DEF Over, rest

LEMMA CallOnRefilledKeepsInv == MemoryInv /\ CallOnRefilled => MemoryInv'
  <1> SUFFICES ASSUME MemoryInv, CallOnRefilled
               PROVE  MemoryInv'
    OBVIOUS
  <1> DEFINE held == mem["used"].raw[<<input>>]
  <1>1. calls > 0 /\ \E msg \in Messages[safe][root] :
                       Len(msg) <= Len(held) /\ Decode(input, Over(msg, held), Len(msg))
    BY DEF CallOnRefilled
  <1>2. /\ root \in Roots /\ safe \in BOOLEAN /\ input \in Int /\ input < 0
        /\ phase # "idle" /\ in.data \in Buffers[safe][root]
    BY <1>1 DEF MemoryInv, CallOK
  <1>3. held = in.data
    BY <1>2 DEF MemoryInv, Holds, World
  <1> HIDE DEF held
  <1>4. PICK msg \in Messages[safe][root] :
          Len(msg) <= Len(held) /\ Decode(input, Over(msg, held), Len(msg))
    BY <1>1
  <1>5. /\ msg \in Seq(Nat) /\ held \in Seq(Nat) /\ Over(msg, held) \in Buffers[safe][root]
    BY <1>2, <1>3, <1>4, BuffersAssumption
  <1>6. Len(msg) \in Nat /\ Len(msg) <= Len(Over(msg, held))
    BY <1>4, <1>5, OverType
  <1> QED
    BY <1>2, <1>4, <1>5, <1>6, DecodeKeepsInv

\* An edit leaves the buffers alone, and makes no claim.
LEMMA EditKeepsInv ==
  ASSUME MemoryInv, NEW m, Edit(m), MemoryOK(safe, m), ClaimedOnce(m),
         m.dest = mem["used"].dest, m.after = mem["used"].after,
         m.waiting = mem["used"].waiting,
         <<input>> \in DOMAIN mem["used"].raw =>
           <<input>> \in DOMAIN m.raw /\ m.raw[<<input>>] = mem["used"].raw[<<input>>]
  PROVE  MemoryInv'
  <1>1. /\ calls > 0 /\ mem' = [mem EXCEPT !["used"] = m]
        /\ UNCHANGED <<root, in, base, off, todo, callers, phase, err, made, raised>>
        /\ UNCHANGED <<safe, input, calls>>
    BY DEF Edit, decoder
  <1>2. mem = [w \in World |-> mem[w]]
    BY DEF MemoryInv
  <1>3. "used" \in World /\ "fresh" \in World /\ \A w \in World : w = "used" \/ w = "fresh"
    BY DEF World
  <1>4. DOMAIN mem = World
    BY <1>2
  <1>5. mem'["used"] = m /\ mem'["fresh"] = mem["fresh"] /\ DOMAIN mem' = World
    BY <1>1, <1>3, <1>4
  <1>6. mem' = [w \in World |-> mem'[w]]
    BY <1>1, <1>2
  <1>7. CallOK'
    BY <1>1 DEF MemoryInv, CallOK, DecSafe!TypeOK
  <1>8. /\ MemoryOK(safe, mem["fresh"]) /\ ClaimedOnce(mem["fresh"])
        /\ Aligned(mem["fresh"]) /\ Holds(mem["fresh"])
        /\ Aligned(mem["used"]) /\ Holds(mem["used"])
    BY <1>1, <1>3 DEF MemoryInv, CallOK
  <1>9. ASSUME NEW w \in World
        PROVE  /\ MemoryOK(safe, mem'[w]) /\ ClaimedOnce(mem'[w])
               /\ Aligned(mem[w])' /\ Holds(mem[w])'
    <2>1. CASE w = "used"
      BY <1>1, <1>5, <1>8, <2>1 DEF Aligned, Holds
    <2>2. CASE w = "fresh"
      BY <1>1, <1>5, <1>8, <2>2 DEF Aligned, Holds
    <2> QED
      BY <1>3, <2>1, <2>2
  <1>10. InLockstep(mem'["used"], mem'["fresh"])
    BY <1>5 DEF MemoryInv, InLockstep
  <1> QED
    BY <1>1, <1>6, <1>7, <1>9, <1>10 DEF MemoryInv

\* The header of a slice that has elements.
LEMMA SliceHeader ==
  ASSUME MemoryInv, NEW k \in Slices
  PROVE  /\ <<Fields[k], <<1, k>>>> \in DOMAIN mem["used"].refs
         /\ FieldRef(k) = mem["used"].refs[<<Fields[k], <<1, k>>>>]
         /\ Schema[Fields[k]].kind = "slice"
         /\ FieldRef(k) \in Header /\ FieldRef(k).n > 0 /\ FieldRef(k).obj > 0
         /\ FieldRef(k).lo >= 0
  <1> DEFINE p == <<Fields[k], <<1, k>>>>
  <1>1. Schema[Fields[k]].kind = "slice" /\ FieldRef(k).n > 0
    BY DEF Slices
  <1>2. FieldRef(k) = IF p \in DOMAIN mem["used"].refs THEN mem["used"].refs[p] ELSE Nil
    BY DEF FieldRef, RefAt
  <1>3. Nil.n = 0
    BY DEF Nil, Ref
  <1>4. p \in DOMAIN mem["used"].refs /\ FieldRef(k) = mem["used"].refs[p]
    BY <1>1, <1>2, <1>3
  <1>5. RefOK(safe, p, FieldRef(k))
    BY <1>4 DEF MemoryInv, MemoryOK, World
  <1>6. p[1] = Fields[k]
    OBVIOUS
  <1>7. FieldRef(k) # Nil
    BY <1>1, <1>3
  <1> HIDE DEF p
  <1>8. FieldRef(k) \in Header /\ FieldRef(k).obj \in Int
    BY <1>5 DEF RefOK, Header
  <1>9. FieldRef(k).obj > 0 /\ FieldRef(k).lo >= 0
    BY <1>1, <1>5, <1>6, <1>7, <1>8 DEF RefOK
  <1> QED
    BY <1>1, <1>4, <1>8, <1>9 DEF p

LEMMA ReslicedKeepsInv ==
  ASSUME MemoryInv, NEW k \in Slices, NEW r \in Header,
         r.obj = FieldRef(k).obj, r.lo >= 0, Edit(Resliced(k, r))
  PROVE  MemoryInv'
  <1> DEFINE p == <<Fields[k], <<1, k>>>>
             m == mem["used"]
             n == Resliced(k, r)
  <1>1. MemoryOK(safe, m) /\ ClaimedOnce(m)
    BY DEF MemoryInv, World
  <1>2. /\ p \in DOMAIN m.refs /\ FieldRef(k) = m.refs[p] /\ FieldRef(k).obj > 0
        /\ Schema[p[1]].kind = "slice"
    BY SliceHeader
  <1>3. /\ DOMAIN n = MemoryFields /\ n.raw = m.raw /\ n.next = m.next
        /\ n.dest = m.dest /\ n.after = m.after /\ n.waiting = m.waiting
        /\ n.refs = [m.refs EXCEPT ![p] = r]
    BY <1>1 DEF Resliced, MemoryOK, MemoryFields
  <1> HIDE DEF p, m, n
  <1>4. /\ DOMAIN n.refs = DOMAIN m.refs
        /\ \A q \in DOMAIN m.refs : n.refs[q] = IF q = p THEN r ELSE m.refs[q]
    BY <1>3
  <1>5. RefOK(safe, p, r)
    BY <1>2 DEF RefOK, Header
  <1>6. MemoryOK(safe, n)
    BY <1>1, <1>3, <1>4, <1>5 DEF MemoryOK
  <1>7. \A q \in DOMAIN m.refs : n.refs[q].obj = m.refs[q].obj
    BY <1>2, <1>4
  <1>8. Pending(n) = Pending(m)
    BY <1>3 DEF Pending
  <1>9. Claims(n) \subseteq Claims(m)
    BY <1>4, <1>7, <1>8 DEF Claims
  <1>10. ClaimedOnce(n)
    BY <1>1, <1>3, <1>9 DEF ClaimedOnce
  <1> QED
    BY <1>3, <1>6, <1>10, EditKeepsInv DEF m, n

LEMMA ShortenKeepsInv == MemoryInv /\ Shorten => MemoryInv'
  <1> SUFFICES ASSUME MemoryInv, Shorten
               PROVE  MemoryInv'
    OBVIOUS
  <1>1. PICK k \in Slices : Edit(Resliced(k, [FieldRef(k) EXCEPT !.n = @ - 1]))
    BY DEF Shorten
  <1> DEFINE f == FieldRef(k)
             r == [f EXCEPT !.n = @ - 1]
  <1>2. f \in Header /\ f.n > 0 /\ f.lo >= 0
    BY SliceHeader
  <1> HIDE DEF f
  <1>3. r \in Header /\ r.obj = f.obj /\ r.lo >= 0
    BY <1>2 DEF Header
  <1> HIDE DEF r
  <1> QED
    BY <1>1, <1>3, ReslicedKeepsInv DEF f, r

LEMMA BeheadKeepsInv == MemoryInv /\ Behead => MemoryInv'
  <1> SUFFICES ASSUME MemoryInv, Behead
               PROVE  MemoryInv'
    OBVIOUS
  <1>1. PICK k \in Slices :
          Edit(Resliced(k, [FieldRef(k) EXCEPT !.lo = @ + 1, !.n = @ - 1, !.cap = @ - 1]))
    BY DEF Behead
  <1> DEFINE f == FieldRef(k)
             r == [f EXCEPT !.lo = @ + 1, !.n = @ - 1, !.cap = @ - 1]
  <1>2. f \in Header /\ f.n > 0 /\ f.lo >= 0
    BY SliceHeader
  <1> HIDE DEF f
  <1>3. /\ f.obj \in Int /\ f.lo + 1 \in Int /\ f.n - 1 \in Nat /\ f.cap - 1 \in Int
        /\ f.tag \in Nat /\ f.lo + 1 >= 0
    BY <1>2 DEF Header
  <1>4. /\ DOMAIN r = { "obj", "lo", "n", "cap", "tag" }
        /\ r.obj = f.obj /\ r.lo = f.lo + 1 /\ r.n = f.n - 1 /\ r.cap = f.cap - 1
        /\ r.tag = f.tag /\ r = [x \in DOMAIN r |-> r[x]]
    <2>1. DOMAIN f = { "obj", "lo", "n", "cap", "tag" }
      BY <1>2 DEF Header
    <2> QED
      BY <2>1
  <1> HIDE DEF r
  <1>5. r \in Header /\ r.obj = f.obj /\ r.lo >= 0
    BY <1>3, <1>4 DEF Header
  <1> QED
    BY <1>1, <1>5, ReslicedKeepsInv DEF f, r

\* Where the structs with an excluded field are.
LEMMA ExcludedLocations ==
  ASSUME MemoryInv, NEW x \in WithExcluded
  PROVE  x \in Path /\ x \o <<-1>> \in Path /\ x \o <<-1>> # <<input>>
  <1>1. x \in Path
    <2>1. CASE x = Variable
      BY <2>1 DEF Variable, Path
    <2>2. CASE x # Variable
      <3>1. PICK k \in { j \in Slices : Schema[Fields[j]].elems[1] \in Excluded } :
              \E j \in 0 .. FieldRef(k).n - 1 : x = <<FieldRef(k).obj, FieldRef(k).lo + j>>
        BY <2>2 DEF WithExcluded
      <3>2. PICK j \in 0 .. FieldRef(k).n - 1 : x = <<FieldRef(k).obj, FieldRef(k).lo + j>>
        BY <3>1
      <3>3. FieldRef(k).obj \in Int /\ FieldRef(k).lo \in Int
        BY SliceHeader DEF Header
      <3> QED
        BY <3>2, <3>3 DEF Path
    <2> QED
      BY <2>1, <2>2
  <1>2. x \in Seq(Int) /\ Len(x) \in Nat \ { 0 }
    BY <1>1 DEF Path
  <1>3. x \o <<-1>> \in Seq(Int) /\ Len(x \o <<-1>>) = Len(x) + 1
    BY <1>2
  <1>4. x \o <<-1>> # << >> /\ x \o <<-1>> # <<input>>
    <2>1. Len(<< >>) = 0 /\ Len(<<input>>) = 1
      OBVIOUS
    <2>2. Len(x) + 1 # 0 /\ Len(x) + 1 # 1
      BY <1>2
    <2> QED
      BY <1>3, <2>1, <2>2
  <1> QED
    BY <1>1, <1>3, <1>4 DEF Path

LEMMA SetExcludedKeepsInv == MemoryInv /\ SetExcluded => MemoryInv'
  <1> SUFFICES ASSUME MemoryInv, SetExcluded
               PROVE  MemoryInv'
    OBVIOUS
  <1> DEFINE m == mem["used"]
             set == [l \in { x \o <<-1>> : x \in WithExcluded } |-> <<1>>]
             n == [m EXCEPT !.raw = Updated(@, set)]
  <1>1. MemoryOK(safe, m) /\ ClaimedOnce(m)
    BY DEF MemoryInv, World
  <1>2. DOMAIN set \subseteq Path /\ <<input>> \notin DOMAIN set
    BY ExcludedLocations
  <1>3. /\ DOMAIN n = MemoryFields /\ n.raw = Updated(m.raw, set) /\ n.next = m.next
        /\ n.dest = m.dest /\ n.after = m.after /\ n.waiting = m.waiting
        /\ n.refs = m.refs
    BY <1>1 DEF MemoryOK, MemoryFields
  <1>4. Edit(n)
    BY DEF SetExcluded
  <1> HIDE DEF m, set, n
  <1>5. DOMAIN n.raw \subseteq Path
    BY <1>1, <1>2, <1>3 DEF Updated, MemoryOK
  <1>6. MemoryOK(safe, n)
    BY <1>1, <1>3, <1>5 DEF MemoryOK
  <1>7. ClaimedOnce(n)
    BY <1>1, <1>3 DEF ClaimedOnce, Claims, Pending
  <1>8. <<input>> \in DOMAIN m.raw =>
          <<input>> \in DOMAIN n.raw /\ n.raw[<<input>>] = m.raw[<<input>>]
    BY <1>2, <1>3 DEF Updated
  <1> QED
    BY <1>3, <1>4, <1>6, <1>7, <1>8, EditKeepsInv DEF m

-----------------------------------------------------------------------------
(***************************************************************************)
(* The results.                                                            *)
(***************************************************************************)

LEMMA InitKeepsInv == Init => MemoryInv
  <1> SUFFICES ASSUME Init
               PROVE  MemoryInv
    OBVIOUS
  <1>1. /\ root \in Roots /\ safe \in BOOLEAN /\ phase = "idle" /\ calls = 0 /\ input = 0
        /\ mem = [w \in World |-> Zeroed(0, << >>)]
    BY DEF Init
  <1>2. MemoryOK(safe, Zeroed(0, << >>)) /\ ClaimedOnce(Zeroed(0, << >>))
    <2>1. 0 \in Int
      OBVIOUS
    <2> QED
      BY <2>1, ZeroedMemory
  <1>3. \A w \in World : mem[w] = Zeroed(0, << >>)
    BY <1>1
  <1>4. mem["used"] = mem["fresh"]
    BY <1>3 DEF World
  <1> QED
    BY <1>1, <1>2, <1>3, <1>4 DEF MemoryInv, CallOK, InLockstep

LEMMA NextKeepsInv == MemoryInv /\ [Next]_vars => MemoryInv'
  <1>1. MemoryInv /\ UNCHANGED vars => MemoryInv'
    BY DEF MemoryInv, CallOK, DecSafe!TypeOK, Aligned, Holds, vars, decoder, user
  <1> QED
    BY <1>1, AssignKeepsInv, StoreKeepsInv, EnterKeepsInv, LeaveKeepsInv, StopKeepsInv,
       CallOnNewKeepsInv, CallOnRefilledKeepsInv, ShortenKeepsInv, BeheadKeepsInv,
       SetExcludedKeepsInv DEF Next, Unmarshal, User

\* The invariant of the two memories: the work list has a place for each of its
\* expressions, no two places claim an object, assignments that wait included, the
\* memories wait for the same assignments, and the buffer is as it was given.
THEOREM MemoryInvariant == Spec => []MemoryInv
  BY InitKeepsInv, NextKeepsInv, PTL DEF Spec

\* No two places of a decoded variable share memory, whatever has been decoded
\* into it before and however its slices were cut in between.
THEOREM OneOwnerAlways == Spec => []OneOwner
  <1>1. MemoryInv => OneOwner
    <2> SUFFICES ASSUME MemoryInv, NEW w \in World,
                        NEW k \in DOMAIN mem[w].refs, NEW l \in DOMAIN mem[w].refs,
                        mem[w].refs[k].obj = mem[w].refs[l].obj, mem[w].refs[k].obj > 0
                 PROVE  k = l
      BY DEF OneOwner
    <2>1. ClaimedOnce(mem[w])
      BY DEF MemoryInv
    <2>2. /\ <<k, mem[w].refs[k].obj>> \in Claims(mem[w])
          /\ <<l, mem[w].refs[l].obj>> \in Claims(mem[w])
      BY DEF Claims
    <2> QED
      BY <2>1, <2>2 DEF ClaimedOnce
  <1> QED
    BY <1>1, MemoryInvariant, PTL

\* No step of Unmarshal writes to an input buffer, in either mode.
LEMMA StepLeavesInput ==
  ASSUME MemoryInv, [Next]_vars, phase = "run", NEW w \in World,
         NEW l \in DOMAIN mem[w].raw, l[1] < 0
  PROVE  mem'[w].raw[l] = mem[w].raw[l]
  <1>1. MemoryOK(safe, mem[w])
    BY DEF MemoryInv
  <1>2. CASE Assign
    BY <1>1, <1>2 DEF Assign, Assigned, MemoryOK, MemoryFields
  <1>3. CASE Store
    <2>1. /\ todo # << >> /\ Step /\ phase' = "run" /\ callers' = callers
          /\ mem'[w] = Stored(mem[w])
      BY <1>3 DEF Store
    <2>2. /\ DecSafe!TypeOK /\ input < 0 /\ input \in Int /\ safe \in BOOLEAN
          /\ Aligned(mem[w])
      BY DEF MemoryInv, CallOK
    <2>3. Storing(mem[w])
      BY <1>1, <2>1, <2>2, PartsStep DEF Storing, Aligned
    <2>4. Stores(mem[w], Stored(mem[w]))
      BY <2>3, StoresStored
    <2> QED
      BY <2>1, <2>4 DEF Stores
  <1>4. CASE Enter
    BY <1>1, <1>4 DEF Enter, Entered, MemoryOK, MemoryFields
  <1>5. CASE Leave
    BY <1>1, <1>5 DEF Leave, Left, MemoryOK, MemoryFields
  <1>6. CASE Stop \/ UNCHANGED vars
    BY <1>6 DEF Stop, vars
  <1>7. ~User
    BY DEF User, CallOnNew, CallOnRefilled, Shorten, Behead, SetExcluded, Edit, Idle
  <1> QED
    BY <1>2, <1>3, <1>4, <1>5, <1>6, <1>7 DEF Next, Unmarshal

\* What was decoded in fast mode stays what it was as long as the user leaves its
\* buffers alone: Unmarshal writes to none of them.
THEOREM InputStays == Spec => InputUntouched
  <1>1. MemoryInv /\ [Next]_vars =>
          [ phase = "run" =>
              \A w \in World : \A l \in DOMAIN mem[w].raw :
                l[1] < 0 => mem'[w].raw[l] = mem[w].raw[l] ]_vars
    BY StepLeavesInput
  <1> QED
    BY <1>1, MemoryInvariant, PTL DEF Spec, InputUntouched

-----------------------------------------------------------------------------
(***************************************************************************)
(* Unmarshal leaves the fields tagged goserde:"-" alone.                   *)
(***************************************************************************)
IsMark(l) == Len(l) > 1 /\ l[Len(l)] = -1

\* The excluded fields that hold a value, by location.
Marks(m) == { l \in DOMAIN m.raw : IsMark(l) }

\* The arrays of structs with an excluded field that holds a value.
Behind(m) == { l[1] : l \in { k \in Marks(m) : Len(k) = 3 } }

\* An expression of type t that goes to l writes over no excluded field: what
\* lies in such an array goes to a struct there, or into one.
Clear(m, t, l) ==
  /\ l[1] \in Behind(m) => Len(l) > 1 /\ (Len(l) = 2 => t \in Excluded)
  /\ l = Variable => t = root

MarksOK(m) ==
  \A l \in Marks(m) :
    \/ l = <<1, -1>> /\ root \in Excluded
    \/ Len(l) = 3 /\ 1 < l[1] /\ l[1] < m.next

\* What refers to such an array is a slice of structs with an excluded field.
OnlySlices(m) ==
  \A c \in Claims(m) :
    /\ c[2] # 1
    /\ c[2] \in Behind(m) => /\ Schema[c[1][1]].kind = "slice"
                             /\ Schema[c[1][1]].elems[1] \in Excluded

Planned(m) ==
  /\ \A k \in 1 .. Len(todo) : Clear(m, todo[k], m.dest[k])
  /\ \A j \in 1 .. Len(callers) : \A k \in 1 .. Len(callers[j].todo) :
       Clear(m, callers[j].todo[k], m.waiting[j].dest[k])

ExcludedInv ==
  /\ mem["used"].next > 1
  /\ MarksOK(mem["used"]) /\ OnlySlices(mem["used"])
  /\ phase \in { "run", "failed" } => Planned(mem["used"])

-----------------------------------------------------------------------------
(***************************************************************************)
(* Marks, and what keeps them.                                             *)
(***************************************************************************)
KeepsMarks(m, n) ==
  Marks(n) = Marks(m) /\ \A l \in Marks(m) : n.raw[l] = m.raw[l]

LEMMA KeptMarks ==
  ASSUME NEW m, NEW n, KeepsMarks(m, n)
  PROVE  /\ Behind(n) = Behind(m)
         /\ \A t, l : Clear(m, t, l) => Clear(n, t, l)
  <1>1. Behind(n) = Behind(m)
    BY DEF KeepsMarks, Behind
  <1> QED
    BY <1>1 DEF Clear

LEMMA SameRaw ==
  ASSUME NEW m, NEW n, n.raw = m.raw
  PROVE  KeepsMarks(m, n)
  BY DEF KeepsMarks, Marks

LEMMA LocationIsNoMark == \A l \in Location : ~IsMark(l)
  BY PathType DEF Location, IsMark

LEMMA PutKeepsMarks ==
  ASSUME NEW m, DOMAIN m = MemoryFields, NEW l, ~IsMark(l), NEW bytes
  PROVE  KeepsMarks(m, Put(m, l, bytes))
  <1> DEFINE n == Put(m, l, bytes)
  <1>1. n.raw = With(m.raw, l, bytes)
    BY DEF Put, MemoryFields
  <1> HIDE DEF n
  <1>2. DOMAIN n.raw = { l } \cup DOMAIN m.raw
        /\ \A x \in DOMAIN m.raw : x # l => n.raw[x] = m.raw[x]
    BY <1>1 DEF With, Updated
  <1>3. KeepsMarks(m, n)
    BY <1>2 DEF KeepsMarks, Marks
  <1> QED
    BY <1>3 DEF n

\* What is at x contains an excluded field that holds a value.
Contains(m, x) ==
  \E l \in Marks(m) : \E k \in 1 .. Len(l) - 1 : SubSeq(l, 1, k) = x

LEMMA CopyKeepsMarks ==
  ASSUME NEW m, DOMAIN m = MemoryFields, NEW blocks, DOMAIN blocks \subseteq Location,
         \A x \in DOMAIN blocks : ~Contains(m, x)
  PROVE  KeepsMarks(m, Copy(m, blocks))
  <1> DEFINE Covered(j) == \E k \in 1 .. Len(j) - 1 : SubSeq(j, 1, k) \in DOMAIN blocks
             n == Copy(m, blocks)
             kept == [k \in { j \in DOMAIN m.raw : ~Covered(j) } |-> m.raw[k]]
  <1>1. n.raw = Updated(kept, blocks)
    BY DEF Copy, MemoryFields
  <1>2. /\ DOMAIN kept = { j \in DOMAIN m.raw : ~Covered(j) }
        /\ \A x \in DOMAIN kept : kept[x] = m.raw[x]
    OBVIOUS
  <1>3. \A l \in Marks(m) : ~Covered(l)
    BY DEF Contains
  <1>4. \A l \in DOMAIN blocks : ~IsMark(l)
    BY LocationIsNoMark
  <1> HIDE DEF Covered, n, kept
  <1>5. /\ DOMAIN n.raw = DOMAIN blocks \cup DOMAIN kept
        /\ \A x \in DOMAIN kept : x \notin DOMAIN blocks => n.raw[x] = kept[x]
    BY <1>1 DEF Updated
  <1>6. KeepsMarks(m, n)
    BY <1>2, <1>3, <1>4, <1>5 DEF KeepsMarks, Marks
  <1> QED
    BY <1>6 DEF n

-----------------------------------------------------------------------------
(***************************************************************************)
(* What each branch of unmarshalExpr does to marks.                        *)
(***************************************************************************)

\* A memory in which storing the expression at hand is to keep the marks.
Guarded(m) ==
  /\ BlocksAreWhole /\ Storing(m)
  /\ m.next > 1 /\ MarksOK(m) /\ OnlySlices(m)
  /\ Clear(m, Head(todo), At(m))

Plans(m, more) ==
  /\ more \in Seq(Location) /\ Len(more) = Len(Parts)
  /\ \A k \in 1 .. Len(Parts) : Clear(m, Parts[k], more[k])

Careful(m, n) ==
  /\ KeepsMarks(m, n)
  /\ \E more \in Seq(Location) : Plans(m, more) /\ n.dest = more \o Tail(m.dest)

\* b is m with something written to it.
Written(m, b) ==
  DOMAIN b = MemoryFields /\ b.dest = m.dest /\ KeepsMarks(m, b)

LEMMA CarefulThen ==
  ASSUME NEW m, NEW b, Written(m, b), NEW more, Plans(m, more)
  PROVE  Careful(m, Then(b, more)) /\ \A r : Careful(m, Point(b, r, more))
  <1>1. ASSUME NEW n, n.raw = b.raw, n.dest = more \o Tail(b.dest)
        PROVE  Careful(m, n)
    <2>1. KeepsMarks(m, n)
      BY <1>1 DEF Written, KeepsMarks, Marks
    <2> QED
      BY <1>1, <2>1 DEF Careful, Plans, Written
  <1>2. Then(b, more).raw = b.raw /\ Then(b, more).dest = more \o Tail(b.dest)
    BY DEF Then, Written, MemoryFields
  <1>3. ASSUME NEW r
        PROVE  /\ Point(b, r, more).raw = b.raw
               /\ Point(b, r, more).dest = more \o Tail(b.dest)
    BY DEF Point, Then, Written, MemoryFields
  <1> QED
    BY <1>1, <1>2, <1>3

LEMMA WrittenSelf ==
  ASSUME NEW m, Guarded(m)
  PROVE  Written(m, m) /\ Written(m, Alloc(m, 1))
  <1>1. DOMAIN m = MemoryFields
    BY DEF Guarded, Storing, MemoryOK
  <1>2. /\ DOMAIN Alloc(m, 1) = MemoryFields /\ Alloc(m, 1).dest = m.dest
        /\ Alloc(m, 1).raw = m.raw
    BY <1>1 DEF Alloc, MemoryFields
  <1> QED
    BY <1>1, <1>2, SameRaw DEF Written

LEMMA WrittenPut ==
  ASSUME NEW m, Guarded(m), NEW l, ~IsMark(l), NEW bytes
  PROVE  Written(m, Put(m, l, bytes)) /\ Written(m, Alloc(Put(m, l, bytes), 1))
  <1> DEFINE b == Put(m, l, bytes)
  <1>1. DOMAIN m = MemoryFields
    BY DEF Guarded, Storing, MemoryOK
  <1>2. DOMAIN b = MemoryFields /\ b.dest = m.dest
    BY <1>1 DEF Put, MemoryFields
  <1>3. KeepsMarks(m, b)
    BY <1>1, PutKeepsMarks
  <1> HIDE DEF b
  <1>4. /\ DOMAIN Alloc(b, 1) = MemoryFields /\ Alloc(b, 1).dest = b.dest
        /\ Alloc(b, 1).raw = b.raw
    BY <1>2 DEF Alloc, MemoryFields
  <1>5. Written(m, b) /\ Written(m, Alloc(b, 1))
    BY <1>2, <1>3, <1>4 DEF Written, KeepsMarks, Marks
  <1> QED
    BY <1>5 DEF b

LEMMA PlansNothing ==
  ASSUME NEW m, Len(Parts) = 0
  PROVE  Plans(m, << >>)
  BY DEF Plans

\* The object of one's own holds a mark only if it is an array of structs.
LEMMA OwnObject ==
  ASSUME NEW m, Guarded(m), NEW o \in Int, o > 0, o = Old(m).obj \/ o >= m.next
  PROVE  /\ o # 1
         /\ o \in Behind(m) => This.kind = "slice" /\ This.elems[1] \in Excluded
  <1>1. m.next \in Int /\ m.next > 1
    BY DEF Guarded, Storing, MemoryOK
  <1>2. \A x \in Behind(m) : x < m.next
    <2> SUFFICES ASSUME NEW l \in Marks(m), Len(l) = 3
                 PROVE  l[1] < m.next
      BY DEF Behind
    <2>1. Len(<<1, -1>>) = 2
      OBVIOUS
    <2> QED
      BY <2>1 DEF Guarded, MarksOK
  <1>3. CASE o >= m.next
    BY <1>1, <1>2, <1>3
  <1>4. CASE o = Old(m).obj
    <2>1. Old(m) # Nil
      BY <1>4 DEF Nil, Ref
    <2>2. Place(m) \in DOMAIN m.refs /\ m.refs[Place(m)] = Old(m)
          /\ Place(m)[1] = Head(todo)
      BY <2>1, PlaceType DEF Guarded
    <2>3. <<Place(m), o>> \in Claims(m)
      BY <1>4, <2>2 DEF Claims
    <2>4. This = Schema[Head(todo)]
      BY ThisType DEF Guarded, Storing
    <2> DEFINE c == <<Place(m), o>>
    <2>5. c \in Claims(m) /\ c[1] = Place(m) /\ c[2] = o
      BY <2>3
    <2> HIDE DEF c
    <2> QED
      BY <2>2, <2>4, <2>5 DEF Guarded, OnlySlices
  <1> QED
    BY <1>3, <1>4

LEMMA ClearObject ==
  ASSUME NEW m, NEW t, NEW o, o # 1, o \notin Behind(m)
  PROVE  Clear(m, t, <<o>>)
  BY DEF Clear, Variable

LEMMA ClearElement ==
  ASSUME NEW m, NEW t, NEW o, NEW i, o \in Behind(m) => t \in Excluded
  PROVE  Clear(m, t, <<o, i>>)
  <1>1. <<o, i>>[1] = o /\ Len(<<o, i>>) = 2 /\ Len(<<1>>) = 1
    OBVIOUS
  <1> QED
    BY <1>1 DEF Clear, Variable

LEMMA ClearPart ==
  ASSUME NEW m, NEW s, NEW t, NEW l \in Location, Clear(m, s, l), NEW k \in Nat
  PROVE  Clear(m, t, l \o <<k>>)
  <1> DEFINE x == l \o <<k>>
  <1>1. l \in Seq(Int) /\ Len(l) \in Nat \ { 0 }
    BY PathType DEF Location, Path
  <1>2. x \in Seq(Int) /\ Len(x) = Len(l) + 1 /\ x[1] = l[1]
    BY <1>1
  <1> HIDE DEF x
  <1>3. x # Variable
    <2>1. Len(Variable) = 1
      BY DEF Variable
    <2> QED
      BY <1>1, <1>2, <2>1
  <1>4. Clear(m, t, x)
    BY <1>1, <1>2, <1>3 DEF Clear
  <1> QED
    BY <1>4 DEF x


\* What goes to a variable of its own, or is read at once.
LEMMA CarefulLeaf ==
  ASSUME NEW m, Guarded(m), This.kind \in { "fixed", "block", "string", "bytes", "owned" }
  PROVE  Careful(m, Stored(m))
  <1>1. Plans(m, << >>)
    BY PlansNothing DEF Parts
  <1>2. Written(m, m)
    BY WrittenSelf
  <1>3. CASE This.kind \in { "fixed", "block" }
    <2>1. ~IsMark(At(m))
      BY LocationIsNoMark, PlaceType DEF Guarded
    <2> DEFINE b == Put(m, At(m), Between(off, off + This.size))
    <2>2. Written(m, b)
      BY <2>1, WrittenPut
    <2>3. Stored(m) = Then(b, << >>)
      BY <1>3 DEF Stored, StoreBasic
    <2> HIDE DEF b
    <2> QED
      BY <1>1, <2>2, <2>3, CarefulThen
  <1>4. CASE This.kind = "owned"
    <2>1. Stored(m) = Then(m, << >>)
      BY <1>4 DEF Stored
    <2> QED
      BY <1>1, <1>2, <2>1, CarefulThen
  <1>5. CASE This.kind \in { "string", "bytes" }
    <2>1. safe \in BOOLEAN /\ (Count = 0 \/ (Count > 0 /\ Count # 0))
      BY <1>5 DEF Guarded, Storing, Decodable, Prefixed
    <2>2. Careful(m, Point(m, Nil, << >>)) /\ Careful(m, View(m))
      BY <1>1, <1>2, CarefulThen DEF View
    <2>3. Careful(m, Own(m))
      <3> DEFINE b == Alloc(Put(m, <<m.next>>, Payload), 1)
      <3>1. Written(m, b)
        BY WrittenPut DEF IsMark
      <3> HIDE DEF b
      <3>2. \A r : Careful(m, Point(b, r, << >>))
        BY <1>1, <3>1, CarefulThen
      <3> QED
        BY <3>2 DEF Own, b
    <2>4. Careful(m, AppendInPlace(m))
      <3> DEFINE array == m.raw[<<Old(m).obj>>]
                 over == [k \in DOMAIN array |->
                            IF k - Old(m).lo \in DOMAIN Payload
                              THEN Payload[k - Old(m).lo] ELSE array[k]]
                 b == Put(m, <<Old(m).obj>>, over)
      <3> HIDE DEF over
      <3>1. Written(m, b)
        BY WrittenPut DEF IsMark
      <3> HIDE DEF b
      <3>2. \A r : Careful(m, Point(b, r, << >>))
        BY <1>1, <3>1, CarefulThen
      <3> QED
        BY <3>2 DEF AppendInPlace, b, over, array
    <2>5. Old(m).cap >= Count \/ (Old(m).cap < Count /\ ~(Old(m).cap >= Count))
      <3>1. Count \in Nat
        BY <1>5 DEF Guarded, Storing, Decodable, Prefixed
      <3>2. Old(m).cap \in Int
        BY PlaceType DEF Guarded, RefOK, Header
      <3> QED
        BY <3>1, <3>2
    <2>6. CASE This.kind = "string"
      <3>1. Careful(m, StoreString(m))
        BY <2>1, <2>2, <2>3 DEF StoreString
      <3> QED
        BY <2>6, <3>1 DEF Stored
    <2>7. CASE This.kind = "bytes"
      <3>1. Careful(m, StoreBytes(m))
        BY <2>1, <2>2, <2>3, <2>4, <2>5 DEF StoreBytes
      <3> QED
        BY <2>7, <3>1 DEF Stored
    <2> QED
      BY <1>5, <2>6, <2>7
  <1> QED
    BY <1>3, <1>4, <1>5

LEMMA Beginnings ==
  ASSUME NEW x \in Seq(Int)
  PROVE  /\ Len(x) >= 1 => SubSeq(x, 1, 1) = <<x[1]>>
         /\ Len(x) >= 2 => SubSeq(x, 1, 2) = <<x[1], x[2]>>
  <1>1. ASSUME NEW n \in { 1, 2 }, n <= Len(x)
        PROVE  /\ SubSeq(x, 1, n) \in Seq(Int) /\ Len(SubSeq(x, 1, n)) = n
               /\ \A k \in 1 .. n : SubSeq(x, 1, n)[k] = x[k]
    BY <1>1
  <1>2. ASSUME Len(x) >= 1
        PROVE  SubSeq(x, 1, 1) = <<x[1]>>
    <2> DEFINE y == SubSeq(x, 1, 1)
    <2>1. y \in Seq(Int) /\ Len(y) = 1 /\ y[1] = x[1]
      BY <1>1, <1>2
    <2> HIDE DEF y
    <2>2. y = <<x[1]>>
      BY <2>1
    <2> QED
      BY <2>2 DEF y
  <1>3. ASSUME Len(x) >= 2
        PROVE  SubSeq(x, 1, 2) = <<x[1], x[2]>>
    <2> DEFINE y == SubSeq(x, 1, 2)
    <2>1. y \in Seq(Int) /\ Len(y) = 2 /\ y[1] = x[1] /\ y[2] = x[2]
      BY <1>1, <1>3
    <2> HIDE DEF y
    <2>2. y = <<x[1], x[2]>>
      BY <2>1
    <2> QED
      BY <2>2 DEF y
  <1> QED
    BY <1>2, <1>3

\* A mark is in the variable itself, or in a struct of an array.
LEMMA ContainsMark ==
  ASSUME NEW m, Guarded(m), NEW x, Contains(m, x)
  PROVE  \/ x = Variable /\ root \in Excluded
         \/ Len(x) \in { 1, 2 } /\ x[1] \in Behind(m)
  <1> PICK l \in Marks(m) : \E k \in 1 .. Len(l) - 1 : SubSeq(l, 1, k) = x
    BY DEF Contains
  <1> PICK k \in 1 .. Len(l) - 1 : SubSeq(l, 1, k) = x
    OBVIOUS
  <1>1. l \in Seq(Int)
    BY DEF Marks, Guarded, Storing, MemoryOK, Path
  <1>2. /\ Len(l) >= 1 => SubSeq(l, 1, 1) = <<l[1]>>
        /\ Len(l) >= 2 => SubSeq(l, 1, 2) = <<l[1], l[2]>>
    BY ONLY <1>1, Beginnings
  <1>3. CASE l = <<1, -1>> /\ root \in Excluded
    <2>1. Len(l) = 2 /\ l[1] = 1 /\ k = 1
      BY <1>3
    <2>2. x = <<1>>
      BY <1>2, <2>1
    <2> QED
      BY <1>3, <2>2 DEF Variable
  <1>4. CASE Len(l) = 3
    <2> DEFINE y == <<l[1]>>
               z == <<l[1], l[2]>>
    <2>1. Len(y) = 1 /\ y[1] = l[1]
      OBVIOUS
    <2>2. Len(z) = 2 /\ z[1] = l[1]
      OBVIOUS
    <2>3. x = y \/ x = z
      <3>1. (k = 1 \/ k = 2) /\ Len(l) >= 1 /\ Len(l) >= 2
        BY <1>4
      <3> QED
        BY <1>2, <3>1
    <2>4. l[1] \in Behind(m)
      BY <1>4 DEF Behind
    <2> HIDE DEF y, z
    <2> QED
      BY <2>1, <2>2, <2>3, <2>4
  <1> QED
    BY <1>3, <1>4 DEF Guarded, MarksOK

\* A struct that is copied as a block has no excluded field, and lies in no array
\* of structs that have one.
LEMMA CarefulBlock ==
  ASSUME NEW m, Guarded(m), This.kind = "struct"
  PROVE  Careful(m, Stored(m))
  <1> DEFINE end == IF in.len < off + This.raw THEN in.len ELSE off + This.raw
             held == IF At(m) \in DOMAIN m.raw THEN m.raw[At(m)] ELSE [k \in 1 .. This.raw |-> 0]
             block == Between(off, end) \o SubSeq(held, end - off + 1, This.raw)
             blocks == [l \in { At(m) } |-> block]
  <1>1. Stored(m) = Then(Copy(m, blocks), << >>)
    BY DEF Stored, StoreBlock
  <1>2. Plans(m, << >>)
    BY PlansNothing DEF Parts
  <1>3. DOMAIN blocks = { At(m) }
    OBVIOUS
  <1> HIDE DEF blocks
  <1>4. Head(todo) \in Type /\ This = Schema[Head(todo)] /\ This.bulk
    BY ThisType DEF Guarded, Storing, Decodable, Bulk
  <1>5. Head(todo) \notin Excluded
    BY <1>4 DEF Guarded, BlocksAreWhole
  <1>6. At(m) \in Location /\ DOMAIN m = MemoryFields
    BY PlaceType DEF Guarded, Storing, MemoryOK
  <1>7. Clear(m, Head(todo), At(m))
    BY DEF Guarded
  <1>8. ~Contains(m, At(m))
    BY <1>5, <1>7, ContainsMark DEF Clear
  <1> DEFINE b == Copy(m, blocks)
  <1>9. KeepsMarks(m, b)
    BY <1>3, <1>6, <1>8, CopyKeepsMarks
  <1>10. DOMAIN b = MemoryFields /\ b.dest = m.dest
    BY <1>6 DEF Copy, MemoryFields
  <1> HIDE DEF b
  <1> QED
    BY <1>1, <1>2, <1>9, <1>10, CarefulThen DEF Written, b

\* Elements copied as blocks.
LEMMA WrittenElements ==
  ASSUME NEW m, Guarded(m), NEW at \in Seq(Location), NEW o,
         \A j \in DOMAIN at : ~Contains(m, at[j])
  PROVE  Written(m, Copy(m, Elements(at, o))) /\ Written(m, Copy(Alloc(m, 1), Elements(at, o)))
  <1> DEFINE blocks == Elements(at, o)
  <1>1. DOMAIN m = MemoryFields
    BY DEF Guarded, Storing, MemoryOK
  <1>2. DOMAIN blocks = { at[j] : j \in DOMAIN at }
    BY DEF Elements
  <1>3. DOMAIN blocks \subseteq Location
    BY <1>2
  <1> HIDE DEF blocks
  <1>4. \A x \in DOMAIN blocks : ~Contains(m, x)
    BY <1>2
  <1>5. ASSUME NEW b, DOMAIN b = MemoryFields, b.dest = m.dest, b.raw = m.raw
        PROVE  Written(m, Copy(b, blocks))
    <2> DEFINE c == Copy(b, blocks)
    <2>1. Marks(b) = Marks(m)
      BY <1>5 DEF Marks
    <2>2. KeepsMarks(b, c)
      <3>1. \A x \in DOMAIN blocks : ~Contains(b, x)
        BY <1>4, <2>1 DEF Contains
      <3> QED
        BY <1>3, <1>5, <3>1, CopyKeepsMarks
    <2>3. DOMAIN c = MemoryFields /\ c.dest = b.dest
      BY <1>5 DEF Copy, MemoryFields
    <2> HIDE DEF c
    <2>4. Written(m, c)
      BY <1>5, <2>1, <2>2, <2>3 DEF Written, KeepsMarks
    <2> QED
      BY <2>4 DEF c
  <1>6. /\ DOMAIN Alloc(m, 1) = MemoryFields /\ Alloc(m, 1).dest = m.dest
        /\ Alloc(m, 1).raw = m.raw
    BY <1>1 DEF Alloc, MemoryFields
  <1> QED
    BY <1>1, <1>5, <1>6 DEF blocks


\* What an expression is made of contains no mark.
LEMMA PartContainsNone ==
  ASSUME NEW m, Guarded(m), NEW t, NEW l \in Location, Clear(m, t, l), NEW k \in Nat
  PROVE  ~Contains(m, l \o <<k>>)
  <1> DEFINE x == l \o <<k>>
  <1>1. l \in Seq(Int) /\ Len(l) \in Nat \ { 0 }
    BY PathType DEF Location, Path
  <1>2. x \in Seq(Int) /\ Len(x) = Len(l) + 1 /\ x[1] = l[1]
    BY <1>1
  <1> HIDE DEF x
  <1>3. Contains(m, x) => Len(x) = 2 /\ x[1] \in Behind(m)
    <2>1. x # Variable
      <3>1. Len(Variable) = 1
        BY DEF Variable
      <3> QED
        BY <1>1, <1>2, <3>1
    <2>2. Len(x) # 1
      BY <1>1, <1>2
    <2> QED
      BY <2>1, <2>2, ContainsMark
  <1>4. ~Contains(m, x)
    BY <1>1, <1>2, <1>3 DEF Clear
  <1> QED
    BY <1>4 DEF x

LEMMA CarefulArray ==
  ASSUME NEW m, Guarded(m), This.kind = "array"
  PROVE  Careful(m, Stored(m))
  <1> DEFINE at == [k \in 1 .. This.size |-> At(m) \o <<k>>]
  <1>1. This.size \in Nat /\ At(m) \in Location /\ Clear(m, Head(todo), At(m))
    BY ThisType, PlaceType DEF Guarded, Storing
  <1>2. at \in Seq(Location) /\ Len(at) = This.size
    BY <1>1, PartLocations
  <1>3. Stored(m) = IF Bulk THEN Then(Copy(m, Elements(at, off)), << >>) ELSE Then(m, at)
    BY DEF Stored, StoreArray
  <1>4. DOMAIN at = 1 .. This.size /\ \A k \in 1 .. This.size : at[k] = At(m) \o <<k>>
    OBVIOUS
  <1> HIDE DEF at
  <1>5. CASE ~Bulk
    <2>1. /\ Len(Parts) = This.size
          /\ \A k \in 1 .. This.size : Parts[k] = This.elems[1]
      BY <1>1, <1>5 DEF Parts
    <2>2. ASSUME NEW k \in 1 .. This.size
          PROVE  Clear(m, This.elems[1], at[k])
      <3>1. k \in Nat /\ at[k] = At(m) \o <<k>>
        BY <1>1, <1>4
      <3>2. Clear(m, This.elems[1], At(m) \o <<k>>)
        BY <1>1, <3>1, ClearPart
      <3> QED
        BY <3>1, <3>2
    <2>3. Plans(m, at)
      BY <1>2, <2>1, <2>2 DEF Plans
    <2> QED
      BY <1>3, <1>5, <2>3, WrittenSelf, CarefulThen
  <1>6. CASE Bulk
    <2>1. Plans(m, << >>)
      BY <1>6, PlansNothing DEF Parts
    <2>2. ASSUME NEW j \in DOMAIN at
          PROVE  ~Contains(m, at[j])
      <3>1. j \in Nat /\ at[j] = At(m) \o <<j>>
        BY <1>1, <1>4
      <3>2. ~Contains(m, At(m) \o <<j>>)
        BY <1>1, <3>1, PartContainsNone
      <3> QED
        BY <3>1, <3>2
    <2>3. Written(m, Copy(m, Elements(at, off)))
      BY <1>2, <2>2, WrittenElements
    <2> QED
      BY <1>3, <1>6, <2>1, <2>3, CarefulThen
  <1> QED
    BY <1>5, <1>6

LEMMA CarefulSlice ==
  ASSUME NEW m, Guarded(m), This.kind = "slice"
  PROVE  Careful(m, Stored(m))
  <1> DEFINE fits == Old(m).cap >= Count
             r == IF fits THEN [Old(m) EXCEPT !.n = Count]
                          ELSE Ref(m.next, 0, Count, Count, 0)
             b == IF fits THEN m ELSE Alloc(m, 1)
             at == [k \in 1 .. Count |-> <<r.obj, r.lo + k - 1>>]
  <1>1. Written(m, m) /\ Written(m, Alloc(m, 1))
    BY WrittenSelf
  <1>2. CASE Count = 0
    <2>1. Stored(m) = Point(m, Nil, << >>)
      BY <1>2 DEF Stored, StoreSlice
    <2>2. Len(Parts) = 0
      BY <1>2 DEF Parts
    <2> QED
      BY <1>1, <2>1, <2>2, PlansNothing, CarefulThen
  <1>3. CASE Count > 0
    <2>1. Count \in Nat /\ Count # 0 /\ m.next \in Int /\ m.next > 0
      BY <1>3 DEF Guarded, Storing, MemoryOK, Decodable, Prefixed
    <2>2. RefOK(safe, Place(m), Old(m)) /\ Old(m) \in Header
          /\ Schema[Place(m)[1]].kind = "slice"
      BY PlaceType, ThisType DEF RefOK, Guarded, Storing
    <2>3. fits => Old(m) # Nil
      BY <2>1, <1>3 DEF Nil, Ref
    <2>4. fits => Old(m).obj > 0 /\ Old(m).lo >= 0
      BY <2>2, <2>3 DEF RefOK, Header
    <2>5. /\ r.obj \in Int /\ r.obj > 0 /\ r.lo \in Int /\ r.lo >= 0
          /\ (r.obj = Old(m).obj \/ r.obj >= m.next)
      BY <2>1, <2>2, <2>4 DEF Ref, Header
    <2>6. Written(m, b)
      BY <1>1, Zenon
    <2>7. Stored(m) = IF Bulk THEN Point(Copy(b, Elements(at, Start)), r, << >>)
                              ELSE Point(b, r, at)
      BY <1>3, <2>1 DEF Stored, StoreSlice
    <2>8. b = m \/ b = Alloc(m, 1)
      OBVIOUS
    <2> HIDE DEF r, b, fits
    <2>9. r.obj # 1 /\ (r.obj \in Behind(m) => This.elems[1] \in Excluded)
      BY <2>5, OwnObject
    <2>10. at \in Seq(Location) /\ Len(at) = Count /\ DOMAIN at = 1 .. Count
           /\ \A k \in 1 .. Count : at[k] = <<r.obj, r.lo + k - 1>>
      BY <2>1, <2>5, ElementLocations
    <2> HIDE DEF at
    <2>11. CASE ~Bulk
      <3>1. Len(Parts) = Count /\ \A k \in 1 .. Count : Parts[k] = This.elems[1]
        BY <2>1, <2>11 DEF Parts
      <3>2. \A k \in 1 .. Count : Clear(m, This.elems[1], at[k])
        BY <2>9, <2>10, ClearElement
      <3>3. Plans(m, at)
        BY <2>10, <3>1, <3>2 DEF Plans
      <3> QED
        BY <2>6, <2>7, <2>11, <3>3, CarefulThen
    <2>12. CASE Bulk
      <3>1. Plans(m, << >>)
        BY <2>12, PlansNothing DEF Parts
      <3>2. Head(todo) \in Type /\ This = Schema[Head(todo)] /\ This.bulk
        BY <2>12, ThisType DEF Guarded, Storing, Bulk
      <3>3. This.elems[1] \notin Excluded
        BY <3>2 DEF Guarded, BlocksAreWhole
      <3>4. ASSUME NEW j \in DOMAIN at, Contains(m, at[j])
            PROVE  FALSE
        <4> DEFINE y == <<r.obj, r.lo + j - 1>>
        <4>1. y[1] = r.obj /\ Len(y) = 2 /\ at[j] = y
          BY <2>10
        <4> HIDE DEF y
        <4>2. r.obj \in Behind(m)
          BY <3>4, <4>1, ContainsMark DEF Variable
        <4> QED
          BY <2>9, <3>3, <4>2
      <3>5. Written(m, Copy(b, Elements(at, Start)))
        <4>1. /\ Written(m, Copy(m, Elements(at, Start)))
              /\ Written(m, Copy(Alloc(m, 1), Elements(at, Start)))
          BY <2>10, <3>4, WrittenElements
        <4> QED
          BY <2>8, <4>1
      <3> QED
        BY <2>7, <2>12, <3>1, <3>5, CarefulThen
    <2> QED
      BY <2>11, <2>12
  <1>4. Count = 0 \/ Count > 0
    BY DEF Guarded, Storing, Decodable, Prefixed
  <1> QED
    BY <1>2, <1>3, <1>4

LEMMA CarefulPointer ==
  ASSUME NEW m, Guarded(m), This.kind = "pointer"
  PROVE  Careful(m, Stored(m))
  <1> DEFINE reused == Old(m) # Nil
             r == IF reused THEN Old(m) ELSE Ref(m.next, 0, 0, 0, 0)
             b == IF reused THEN m ELSE Alloc(m, 1)
  <1>1. m.next \in Int /\ m.next > 0
    BY DEF Guarded, Storing, MemoryOK
  <1>2. RefOK(safe, Place(m), Old(m)) /\ Old(m) \in Header
        /\ Schema[Place(m)[1]].kind = "pointer"
    BY PlaceType, ThisType DEF RefOK, Guarded, Storing
  <1>3. reused => Old(m).obj > 0
    BY <1>2 DEF RefOK, Header
  <1>4. r.obj \in Int /\ r.obj > 0 /\ (r.obj = Old(m).obj \/ r.obj >= m.next)
    BY <1>1, <1>2, <1>3 DEF Ref, Header
  <1>5. Written(m, m) /\ Written(m, b)
    BY WrittenSelf, Zenon
  <1>6. Stored(m) = IF in.data[off + 1] = 0 THEN Point(m, Nil, << >>)
                    ELSE Point(b, r, << <<r.obj>> >>)
    BY DEF Stored, StorePointer
  <1> HIDE DEF r, b, reused
  <1>7. r.obj # 1 /\ r.obj \notin Behind(m)
    BY <1>4, OwnObject
  <1>8. CASE in.data[off + 1] = 0
    <2>1. Len(Parts) = 0
      BY <1>8 DEF Parts
    <2> QED
      BY <1>5, <1>6, <1>8, <2>1, PlansNothing, CarefulThen
  <1>9. CASE in.data[off + 1] # 0
    <2> DEFINE l == <<r.obj>>
    <2>1. Len(Parts) = 1
      BY <1>9, ThisType DEF Parts, Guarded, Storing
    <2>2. l \in Location
      BY <1>4 DEF Location, Path
    <2>3. \A t : Clear(m, t, l)
      BY <1>7, ClearObject
    <2> HIDE DEF l
    <2>4. Plans(m, <<l>>)
      BY <2>1, <2>2, <2>3 DEF Plans
    <2>5. Stored(m) = Point(b, r, <<l>>)
      BY <1>6, <1>9 DEF l
    <2> QED
      BY <1>5, <2>4, <2>5, CarefulThen
  <1> QED
    BY <1>8, <1>9

LEMMA CarefulMap ==
  ASSUME NEW m, Guarded(m), This.kind = "map"
  PROVE  Careful(m, Stored(m))
  <1> DEFINE r == IF Old(m) # Nil THEN Old(m) ELSE Ref(m.next, 0, 0, 0, 0)
             first == IF Old(m) # Nil THEN m.next ELSE m.next + 1
             variables == [j \in 1 .. 2 * Count |-> <<first + j - 1>>]
             assignments ==
               [k \in 1 .. Count |->
                  Entry(Rest(m) + 2 * (Count - k), r.obj,
                        <<This.elems[1], variables[2 * k - 1]>>, variables[2 * k])]
             cleared == [m EXCEPT !.entries = With(@, r.obj, {}), !.next = first + 2 * Count]
             b == Await(cleared, assignments)
  <1>1. /\ m.next \in Int /\ m.next > 1 /\ Count \in Nat
        /\ DOMAIN m = MemoryFields
    BY DEF Guarded, Storing, MemoryOK, Decodable, Prefixed
  <1>2. CASE Count = 0
    <2>1. Stored(m) = Point(m, Nil, << >>)
      BY <1>2 DEF Stored, StoreMap
    <2>2. Len(Parts) = 0
      BY <1>2 DEF Parts
    <2> QED
      BY <2>1, <2>2, WrittenSelf, PlansNothing, CarefulThen
  <1>3. CASE Count # 0
    <2>1. Stored(m) = Point(b, r, variables)
      BY <1>3 DEF Stored, StoreMap
    <2>2. first \in Int /\ first >= m.next /\ first > 0
      BY <1>1
    <2>3. DOMAIN cleared = MemoryFields /\ cleared.dest = m.dest /\ cleared.raw = m.raw
      BY <1>1 DEF MemoryFields
    <2> HIDE DEF r, first, cleared, assignments
    <2>4. DOMAIN b = MemoryFields /\ b.dest = m.dest /\ b.raw = m.raw
      BY <2>3 DEF Await, MemoryFields
    <2> HIDE DEF b
    <2>5. Written(m, b)
      BY <2>4, SameRaw DEF Written
    <2>6. /\ variables \in Seq(Location) /\ Len(variables) = 2 * Count
          /\ \A j \in 1 .. 2 * Count : variables[j] = <<first + j - 1>>
      <3>1. 2 * Count \in Nat
        BY <1>1
      <3>2. \A j \in 1 .. 2 * Count : variables[j] = <<first + j - 1>>
        OBVIOUS
      <3> QED
        BY <2>2, <3>1, <3>2, NewLocations, Zenon
    <2> HIDE DEF variables
    <2>7. Len(Parts) = 2 * Count
      BY <1>1 DEF Parts
    <2>8. ASSUME NEW j \in 1 .. 2 * Count
          PROVE  \A t : Clear(m, t, variables[j])
      <3> DEFINE o == first + j - 1
      <3>1. o \in Int /\ o > 0 /\ o >= m.next
        BY <1>1, <2>2
      <3>2. variables[j] = <<o>>
        BY <2>6
      <3> HIDE DEF o
      <3>3. o # 1 /\ o \notin Behind(m)
        BY <3>1, OwnObject
      <3> QED
        BY <3>2, <3>3, ClearObject
    <2>9. Plans(m, variables)
      BY <2>6, <2>7, <2>8 DEF Plans
    <2> QED
      BY <2>1, <2>5, <2>9, CarefulThen
  <1> QED
    BY <1>2, <1>3

LEMMA CarefulUnion ==
  ASSUME NEW m, Guarded(m), This.kind = "union"
  PROVE  Careful(m, Stored(m))
  <1> DEFINE reused == Old(m).tag = Count
             v == IF reused THEN Old(m).obj ELSE m.next
             assignment == Member(Rest(m), Place(m), Ref(v, 0, 0, 0, Count))
             c == IF reused THEN m ELSE Alloc(m, 1)
             b == Await(c, <<assignment>>)
  <1>1. m.next \in Int /\ m.next > 1 /\ Count \in Nat
    BY DEF Guarded, Storing, MemoryOK, Decodable, Prefixed
  <1>2. CASE Count = 0
    <2>1. Stored(m) = Point(m, Nil, << >>)
      BY <1>2 DEF Stored, StoreUnion
    <2>2. Len(Parts) = 0
      BY <1>2 DEF Parts
    <2> QED
      BY <2>1, <2>2, WrittenSelf, PlansNothing, CarefulThen
  <1>3. CASE Count # 0
    <2>1. Stored(m) = Then(b, << <<v>> >>)
      BY <1>3 DEF Stored, StoreUnion
    <2>2. RefOK(safe, Place(m), Old(m)) /\ Old(m) \in Header
          /\ Schema[Place(m)[1]].kind = "union"
      BY PlaceType, ThisType DEF RefOK, Guarded, Storing
    <2>3. reused => Old(m) # Nil
      BY <1>3 DEF Nil, Ref
    <2>4. reused => Old(m).obj > 0
      BY <2>2, <2>3 DEF RefOK, Header
    <2>5. v \in Int /\ v > 0 /\ (v = Old(m).obj \/ v >= m.next)
      BY <1>1, <2>2, <2>4 DEF Header
    <2>6. Written(m, c)
      BY WrittenSelf, Zenon
    <2> HIDE DEF v, c, reused, assignment
    <2>7. DOMAIN b = MemoryFields /\ b.dest = c.dest /\ b.raw = c.raw
      BY <2>6 DEF Await, Written, MemoryFields
    <2> HIDE DEF b
    <2>8. Written(m, b)
      BY <2>6, <2>7 DEF Written, KeepsMarks, Marks
    <2>9. v # 1 /\ v \notin Behind(m)
      BY <2>5, OwnObject
    <2> DEFINE l == <<v>>
    <2>10. l \in Location
      BY <2>5 DEF Location, Path
    <2>11. \A t : Clear(m, t, l)
      BY <2>9, ClearObject
    <2>12. Len(Parts) = 1
      BY <1>3 DEF Parts
    <2>13. Stored(m) = Then(b, <<l>>)
      BY <2>1
    <2> HIDE DEF l
    <2>14. Plans(m, <<l>>)
      BY <2>10, <2>11, <2>12 DEF Plans
    <2> QED
      BY <2>8, <2>13, <2>14, CarefulThen
  <1> QED
    BY <1>2, <1>3

LEMMA CarefulStored ==
  ASSUME NEW m, Guarded(m)
  PROVE  Careful(m, Stored(m))
  <1>1. This.kind \in DecSafe!Kind
    BY ThisType DEF Guarded, Storing
  <1> QED
    BY <1>1, CarefulLeaf, CarefulBlock, CarefulArray, CarefulSlice, CarefulPointer,
       CarefulMap, CarefulUnion DEF DecSafe!Kind


-----------------------------------------------------------------------------
(***************************************************************************)
(* The invariant.                                                          *)
(***************************************************************************)
LEMMA BehindRange ==
  ASSUME NEW s, NEW m, MemoryOK(s, m), MarksOK(m)
  PROVE  \A o \in Behind(m) : o \in Int /\ 1 < o /\ o < m.next
  <1> SUFFICES ASSUME NEW l \in Marks(m), Len(l) = 3
               PROVE  l[1] \in Int /\ 1 < l[1] /\ l[1] < m.next
    BY DEF Behind
  <1>1. l[1] \in Int
    BY PathType DEF Marks, MemoryOK
  <1>2. Len(<<1, -1>>) = 2
    OBVIOUS
  <1> QED
    BY <1>1, <1>2 DEF MarksOK

\* Where no mark is made, the marks are in order as long as claims are.
LEMMA StillMarked ==
  ASSUME NEW s, NEW m, MemoryOK(s, m), MarksOK(m), OnlySlices(m), m.next > 1,
         NEW n, MemoryOK(s, n), KeepsMarks(m, n), m.next <= n.next,
         \A c \in Claims(n) : c \in Claims(m) \/ c[2] <= 0 \/ c[2] = m.next
  PROVE  n.next > 1 /\ MarksOK(n) /\ OnlySlices(n)
  <1>1. m.next \in Int /\ n.next \in Int
    BY DEF MemoryOK
  <1>2. Behind(n) = Behind(m) /\ Marks(n) = Marks(m)
    BY KeptMarks DEF KeepsMarks
  <1>3. \A l \in Marks(m) : l[1] \in Int
    BY PathType DEF Marks, MemoryOK
  <1>4. MarksOK(n)
    BY <1>1, <1>2, <1>3 DEF MarksOK
  <1>5. ASSUME NEW c \in Claims(n)
        PROVE  /\ c[2] # 1
               /\ c[2] \in Behind(n) => /\ Schema[c[1][1]].kind = "slice"
                                        /\ Schema[c[1][1]].elems[1] \in Excluded
    <2>1. c[2] \in Int
      BY ClaimsType
    <2>2. \A o \in Behind(m) : o \in Int /\ 1 < o /\ o < m.next
      BY BehindRange
    <2>3. CASE c \in Claims(m)
      BY <1>2, <2>3 DEF OnlySlices
    <2>4. CASE c[2] <= 0 \/ c[2] = m.next
      BY <1>1, <1>2, <2>1, <2>2, <2>4
    <2> QED
      BY <2>3, <2>4
  <1>6. OnlySlices(n)
    BY <1>5 DEF OnlySlices
  <1> QED
    BY <1>1, <1>4, <1>6

LEMMA PlannedNext ==
  ASSUME NEW n, n = mem'["used"], root' = root,
         \A k \in 1 .. Len(todo') : Clear(n, todo'[k], n.dest[k]),
         \A j \in 1 .. Len(callers') : \A k \in 1 .. Len(callers'[j].todo) :
           Clear(n, callers'[j].todo[k], n.waiting[j].dest[k])
  PROVE  Planned(mem["used"])'
  BY DEF Planned, Clear

LEMMA ExcludedNext ==
  ASSUME NEW n, n = mem'["used"], root' = root,
         n.next > 1, MarksOK(n), OnlySlices(n),
         phase' \in { "run", "failed" } => Planned(mem["used"])'
  PROVE  ExcludedInv'
  BY DEF ExcludedInv, MarksOK

\* The expression at hand is planned.
LEMMA ClearHere ==
  ASSUME NEW s, NEW m, MemoryOK(s, m), Aligned(m), Planned(m), DecSafe!TypeOK, todo # << >>
  PROVE  /\ m.dest # << >> /\ At(m) \in Location /\ Clear(m, Head(todo), At(m))
         /\ Len(Tail(todo)) = Len(todo) - 1
         /\ \A k \in 1 .. Len(Tail(todo)) : Clear(m, Tail(todo)[k], Tail(m.dest)[k])
  <1>1. /\ m.dest \in Seq(Location) /\ todo \in Seq(Type) /\ Len(m.dest) = Len(todo)
        /\ Len(todo) \in Nat \ { 0 }
    BY EmptySeq DEF MemoryOK, Aligned, DecSafe!TypeOK
  <1>2. m.dest # << >>
    BY <1>1
  <1>3. /\ Head(todo) = todo[1] /\ Len(Tail(todo)) = Len(todo) - 1
        /\ \A k \in 1 .. Len(todo) - 1 : Tail(todo)[k] = todo[k + 1]
    BY <1>1
  <1>4. /\ Head(m.dest) = m.dest[1] /\ Head(m.dest) \in Location
        /\ \A k \in 1 .. Len(todo) - 1 : Tail(m.dest)[k] = m.dest[k + 1]
    BY <1>1, <1>2
  <1>5. \A k \in 1 .. Len(todo) : Clear(m, todo[k], m.dest[k])
    BY DEF Planned
  <1>6. Clear(m, Head(todo), At(m))
    BY <1>1, <1>3, <1>4, <1>5 DEF At
  <1>7. ASSUME NEW k \in 1 .. Len(todo) - 1
        PROVE  Clear(m, Tail(todo)[k], Tail(m.dest)[k])
    <2>1. k + 1 \in 1 .. Len(todo)
      BY <1>1
    <2> QED
      BY <1>3, <1>4, <1>5, <2>1
  <1> QED
    BY <1>2, <1>3, <1>4, <1>6, <1>7 DEF At

LEMMA StoreKeepsExcluded ==
  ASSUME BlocksAreWhole, MemoryInv, ExcludedInv, Store
  PROVE  ExcludedInv' /\ KeepsMarks(mem["used"], mem'["used"])
  <1> DEFINE m == mem["used"]
             n == mem'["used"]
  <1>1. /\ phase = "run" /\ todo # << >> /\ Step /\ phase' = "run" /\ callers' = callers
        /\ n = Stored(m)
    BY DEF Store, World
  <1>2. /\ DecSafe!TypeOK /\ input < 0 /\ input \in Int /\ safe \in BOOLEAN
        /\ Aligned(m) /\ MemoryOK(safe, m) /\ ClaimedOnce(m) /\ root' = root
    BY <1>1, RootStays DEF MemoryInv, CallOK, World
  <1>3. todo' = Parts \o Tail(todo) /\ Decodable
    BY <1>1, <1>2, PartsStep
  <1>4. m.next > 1 /\ MarksOK(m) /\ OnlySlices(m) /\ Planned(m)
    BY <1>1 DEF ExcludedInv
  <1> HIDE DEF m
  <1>5. Storing(m)
    BY <1>1, <1>2, <1>3 DEF Storing, Aligned
  <1>6. /\ m.dest # << >> /\ Clear(m, Head(todo), At(m))
        /\ \A k \in 1 .. Len(Tail(todo)) : Clear(m, Tail(todo)[k], Tail(m.dest)[k])
    BY <1>1, <1>2, <1>4, ClearHere
  <1>7. Guarded(m)
    BY <1>4, <1>5, <1>6 DEF Guarded
  <1>8. Stores(m, Stored(m)) /\ Careful(m, Stored(m))
    BY <1>5, <1>7, StoresStored, CarefulStored
  <1>9. Stores(m, n) /\ Careful(m, n)
    BY <1>1, <1>8
  <1> HIDE DEF n
  <1>10. KeepsMarks(m, n) /\ m.next <= n.next /\ n.waiting = m.waiting
         /\ MemoryOK(safe, n)
    BY <1>2, <1>5, <1>9, StoresMemory DEF Careful, Stores
  <1>11. n.next > 1 /\ MarksOK(n) /\ OnlySlices(n)
    <2>1. \A c \in Claims(n) : c \in Claims(m) \/ c[2] <= 0 \/ c[2] = m.next
      BY <1>5, <1>9, StoresClaims
    <2> QED
      BY <1>2, <1>4, <1>10, <2>1, StillMarked
  <1>12. PICK more \in Seq(Location) : Plans(m, more) /\ n.dest = more \o Tail(m.dest)
    BY <1>9 DEF Careful
  <1>13. \A t, l : Clear(m, t, l) => Clear(n, t, l)
    BY <1>10, KeptMarks
  <1>14. ASSUME NEW k \in 1 .. Len(todo')
         PROVE  Clear(n, todo'[k], n.dest[k])
    <2> DEFINE p == Parts
               t == Tail(todo)
               d == Tail(m.dest)
    <2>1. /\ p \in Seq(Type) /\ t \in Seq(Type) /\ d \in Seq(Location)
          /\ Len(p) \in Nat /\ Len(t) \in Nat /\ Len(d) = Len(t) /\ Len(more) = Len(p)
      <3>1. todo \in Seq(Type) /\ m.dest \in Seq(Location) /\ Len(m.dest) = Len(todo)
        BY <1>2 DEF MemoryOK, Aligned, DecSafe!TypeOK
      <3>2. Len(more) = Len(p)
        BY <1>12 DEF Plans
      <3> QED
        BY <1>1, <1>2, <1>3, <1>6, <3>1, <3>2, PartsType
    <2>2. \A i \in 1 .. Len(p) : Clear(m, p[i], more[i])
      BY <1>12 DEF Plans
    <2>3. \A i \in 1 .. Len(t) : Clear(m, t[i], d[i])
      BY <1>6
    <2>4. todo' = p \o t /\ n.dest = more \o d
      BY <1>3, <1>12
    <2> HIDE DEF p, t, d
    <2>5. /\ Len(todo') = Len(p) + Len(t)
          /\ \A i \in 1 .. Len(p) + Len(t) :
               todo'[i] = IF i <= Len(p) THEN p[i] ELSE t[i - Len(p)]
      BY <2>1, <2>4, ConcatProperties
    <2>6. \A i \in 1 .. Len(p) + Len(t) :
            n.dest[i] = IF i <= Len(p) THEN more[i] ELSE d[i - Len(p)]
      BY <2>1, <2>4, ConcatProperties
    <2>7. k \in 1 .. Len(p) + Len(t) /\ k \in Nat
      BY <2>1, <2>5
    <2>8. CASE k <= Len(p)
      <3>1. k \in 1 .. Len(p)
        BY <2>1, <2>7, <2>8
      <3> QED
        BY <1>13, <2>2, <2>5, <2>6, <2>7, <2>8, <3>1
    <2>9. CASE ~(k <= Len(p))
      <3>1. k - Len(p) \in 1 .. Len(t)
        BY <2>1, <2>7, <2>9
      <3> QED
        BY <1>13, <2>3, <2>5, <2>6, <2>7, <2>9, <3>1
    <2> QED
      BY <2>8, <2>9
  <1>15. Planned(mem["used"])'
    <2>1. \A j \in 1 .. Len(callers') : \A k \in 1 .. Len(callers'[j].todo) :
            Clear(n, callers'[j].todo[k], n.waiting[j].dest[k])
      BY <1>1, <1>4, <1>10, <1>13 DEF Planned
    <2>2. n = mem'["used"]
      BY DEF n
    <2> QED
      BY <1>2, <1>14, <2>1, <2>2, PlannedNext
  <1>16. ExcludedInv'
    <2>1. n = mem'["used"]
      BY DEF n
    <2> QED
      BY <1>2, <1>11, <1>15, <2>1, ExcludedNext
  <1> QED
    BY <1>10, <1>16 DEF m, n

\* No claim is made but by storing.
LEMMA FewerClaims ==
  ASSUME NEW m, NEW n, n.refs = m.refs, Pending(n) \subseteq Pending(m)
  PROVE  Claims(n) \subseteq Claims(m)
  BY DEF Claims

LEMMA AssignedClaims ==
  ASSUME NEW s, NEW m, MemoryOK(s, m), m.after # << >>
  PROVE  Assigned(m).next = m.next /\ Claims(Assigned(m)) \subseteq Claims(m)
  <1> DEFINE a == Head(m.after)
             n == Assigned(m)
  <1>1. m.after \in Seq(Assignment(s))
    BY DEF MemoryOK
  <1>2. /\ a \in Assignment(s) /\ 1 \in DOMAIN m.after /\ a = m.after[1]
        /\ \A k \in DOMAIN Tail(m.after) :
             k + 1 \in DOMAIN m.after /\ Tail(m.after)[k] = m.after[k + 1]
    BY <1>1
  <1>3. /\ n.waiting = m.waiting /\ n.after = Tail(m.after) /\ n.next = m.next
        /\ n.refs = IF a.is = "entry" THEN m.refs ELSE With(m.refs, a.at, a.ref)
    BY DEF Assigned, MemoryOK, MemoryFields
  <1>4. a.is # "entry" => a.is = "member"
    BY <1>2 DEF Assignment, EntryAssignment, MemberAssignment
  <1> HIDE DEF a, n
  <1>5. Pending(n) \subseteq Pending(m)
    BY <1>2, <1>3 DEF Pending
  <1>6. \A p \in DOMAIN n.refs : <<p, n.refs[p].obj>> \in Claims(m)
    <2>1. CASE a.is = "entry"
      BY <1>3, <2>1 DEF Claims
    <2>2. CASE a.is # "entry"
      <3>1. DOMAIN n.refs = DOMAIN m.refs \cup { a.at }
        BY <1>3, <2>2 DEF With, Updated
      <3>2. \A p \in DOMAIN n.refs : n.refs[p] = IF p = a.at THEN a.ref ELSE m.refs[p]
        BY <1>3, <2>2 DEF With, Updated
      <3>3. a \in Pending(m)
        BY <1>2 DEF Pending
      <3>4. <<a.at, a.ref.obj>> \in Claims(m)
        BY <1>4, <2>2, <3>3 DEF Claims
      <3> QED
        BY <3>1, <3>2, <3>4 DEF Claims
    <2> QED
      BY <2>1, <2>2
  <1>7. Claims(n) \subseteq Claims(m)
    BY <1>5, <1>6 DEF Claims
  <1> QED
    BY <1>3, <1>7 DEF n

LEMMA EnteredClaims ==
  ASSUME NEW s, NEW m, MemoryOK(s, m), ClaimedOnce(m), m.dest # << >>,
         This.elems \in Seq(Type)
  PROVE  Claims(Entered(m)) \subseteq Claims(m)
  <1> DEFINE n == Entered(m)
  <1>1. n.refs = m.refs
    BY DEF Entered, MemoryOK, MemoryFields
  <1>2. Enters(m, n)
    BY EnteredEnters
  <1>3. DOMAIN n.waiting = 1 .. Len(n.waiting) /\ DOMAIN m.waiting = 1 .. Len(m.waiting)
    <2>1. MemoryOK(s, n)
      BY EnteredEnters
    <2> HIDE DEF n
    <2> QED
      BY <2>1, LenProperties DEF MemoryOK
  <1> HIDE DEF n
  <1>4. Pending(n) \subseteq Pending(m)
    <2>1. DOMAIN n.after = {}
      BY <1>2 DEF Enters
    <2> SUFFICES ASSUME NEW j \in DOMAIN n.waiting, NEW k \in DOMAIN n.waiting[j].after
                 PROVE  n.waiting[j].after[k] \in Pending(m)
      BY <2>1 DEF Pending
    <2>2. CASE j = 1
      <3>1. n.waiting[1].after = m.after
        BY <1>2 DEF Enters
      <3> QED
        BY <2>2, <3>1 DEF Pending
    <2>3. CASE j # 1
      <3>1. j \in 2 .. Len(m.waiting) + 1
        BY <1>2, <1>3, <2>3 DEF Enters
      <3>2. j - 1 \in DOMAIN m.waiting /\ n.waiting[j] = m.waiting[j - 1]
        BY <1>2, <1>3, <3>1 DEF Enters
      <3> QED
        BY <3>2 DEF Pending
    <2> QED
      BY <2>2, <2>3
  <1> QED
    BY <1>1, <1>4, FewerClaims DEF n

LEMMA LeftClaims ==
  ASSUME NEW s, NEW m, MemoryOK(s, m), m.waiting # << >>
  PROVE  Claims(Left(m)) \subseteq Claims(m)
  <1> DEFINE n == Left(m)
  <1>1. m.waiting \in Seq(Frames(s))
    BY DEF MemoryOK, Frames
  <1>2. n.refs = m.refs /\ n.after = m.waiting[1].after /\ n.waiting = Tail(m.waiting)
    BY <1>1 DEF Left, MemoryOK, MemoryFields
  <1>3. /\ 1 \in DOMAIN m.waiting
        /\ \A k \in DOMAIN Tail(m.waiting) :
             k + 1 \in DOMAIN m.waiting /\ Tail(m.waiting)[k] = m.waiting[k + 1]
    BY <1>1
  <1> HIDE DEF n
  <1>4. \A k \in DOMAIN n.after : n.after[k] \in Pending(m)
    BY <1>2, <1>3 DEF Pending
  <1>5. ASSUME NEW j \in DOMAIN n.waiting, NEW k \in DOMAIN n.waiting[j].after
        PROVE  n.waiting[j].after[k] \in Pending(m)
    <2>1. j + 1 \in DOMAIN m.waiting /\ n.waiting[j] = m.waiting[j + 1]
      BY <1>2, <1>3
    <2> QED
      BY <2>1 DEF Pending
  <1>6. Pending(n) \subseteq Pending(m)
    BY <1>4, <1>5 DEF Pending
  <1> QED
    BY <1>2, <1>6, FewerClaims DEF n

LEMMA AgainMarks ==
  ASSUME NEW s, NEW m, MemoryOK(s, m), NEW o \in Int, NEW data
  PROVE  /\ Again(m, o, data).next = m.next
         /\ KeepsMarks(m, Again(m, o, data))
         /\ Claims(Again(m, o, data)) \subseteq Claims(m)
  <1> DEFINE n == Again(m, o, data)
             b == Put(m, <<o>>, data)
  <1>1. DOMAIN m = MemoryFields
    BY DEF MemoryOK
  <1>2. /\ n.raw = b.raw /\ n.refs = m.refs /\ n.next = m.next
        /\ n.after = << >> /\ n.waiting = << >>
    BY <1>1 DEF Again, Put, MemoryFields
  <1>3. KeepsMarks(m, b)
    BY <1>1, PutKeepsMarks DEF IsMark
  <1> HIDE DEF n, b
  <1>4. KeepsMarks(m, n)
    BY <1>2, <1>3 DEF KeepsMarks, Marks
  <1>5. Pending(n) = {}
    <2>1. DOMAIN n.after = {} /\ DOMAIN n.waiting = {}
      BY <1>2
    <2> QED
      BY <2>1 DEF Pending
  <1>6. Claims(n) \subseteq Claims(m)
    BY <1>2, <1>5, FewerClaims
  <1> QED
    BY <1>2, <1>4, <1>6 DEF n

LEMMA AssignKeepsExcluded ==
  ASSUME MemoryInv, ExcludedInv, Assign
  PROVE  ExcludedInv' /\ KeepsMarks(mem["used"], mem'["used"])
  <1> DEFINE m == mem["used"]
             n == mem'["used"]
  <1>1. /\ phase = "run" /\ m.after # << >> /\ n = Assigned(m)
        /\ UNCHANGED <<root, todo, callers, phase, safe>>
    BY DEF Assign, Due, decoder, user, World
  <1>2. MemoryOK(safe, m) /\ ClaimedOnce(m)
    BY DEF MemoryInv, World
  <1>3. m.next > 1 /\ MarksOK(m) /\ OnlySlices(m) /\ Planned(m)
    BY <1>1 DEF ExcludedInv
  <1> HIDE DEF m
  <1>4. /\ MemoryOK(safe, Assigned(m)) /\ Assigned(m).raw = m.raw
        /\ Assigned(m).dest = m.dest /\ Assigned(m).waiting = m.waiting
    BY <1>1, <1>2, AssignedMemory
  <1>5. Assigned(m).next = m.next /\ Claims(Assigned(m)) \subseteq Claims(m)
    BY <1>1, <1>2, AssignedClaims
  <1>6. /\ MemoryOK(safe, n) /\ n.raw = m.raw /\ n.dest = m.dest /\ n.waiting = m.waiting
        /\ n.next = m.next /\ Claims(n) \subseteq Claims(m)
    BY <1>1, <1>4, <1>5
  <1> HIDE DEF n
  <1>7. KeepsMarks(m, n)
    BY <1>6, SameRaw
  <1>8. n.next > 1 /\ MarksOK(n) /\ OnlySlices(n)
    <2>1. m.next <= n.next
      BY <1>2, <1>6 DEF MemoryOK
    <2> QED
      BY <1>2, <1>3, <1>6, <1>7, <2>1, StillMarked
  <1>9. n = mem'["used"]
    BY DEF n
  <1>10. Planned(mem["used"])'
    <2>1. \A t, l : Clear(m, t, l) => Clear(n, t, l)
      BY <1>7, KeptMarks
    <2> QED
      BY <1>1, <1>3, <1>6, <1>9, <2>1, PlannedNext DEF Planned
  <1>11. ExcludedInv'
    BY <1>1, <1>8, <1>9, <1>10, ExcludedNext
  <1> QED
    BY <1>7, <1>11 DEF m, n

LEMMA EnterKeepsExcluded ==
  ASSUME MemoryInv, ExcludedInv, Enter
  PROVE  ExcludedInv' /\ KeepsMarks(mem["used"], mem'["used"])
  <1> DEFINE m == mem["used"]
             n == mem'["used"]
  <1>1. /\ phase = "run" /\ Step /\ Len(callers') > Len(callers) /\ n = Entered(m)
    BY DEF Enter, World
  <1>2. /\ DecSafe!TypeOK /\ Aligned(m) /\ MemoryOK(safe, m) /\ ClaimedOnce(m)
        /\ root' = root
    BY <1>1, RootStays DEF MemoryInv, CallOK, World
  <1>3. /\ todo # << >> /\ todo' = This.elems
        /\ callers' = <<[base |-> base, todo |-> Tail(todo)]>> \o callers
    BY <1>1, <1>2, CallStep
  <1>4. m.next > 1 /\ MarksOK(m) /\ OnlySlices(m) /\ Planned(m)
    BY <1>1 DEF ExcludedInv
  <1>5. This.elems \in Seq(Type) /\ Len(This.elems) \in Nat
    BY <1>2, <1>3, ThisType
  <1> HIDE DEF m
  <1>6. /\ m.dest # << >> /\ At(m) \in Location /\ Clear(m, Head(todo), At(m))
        /\ \A k \in 1 .. Len(Tail(todo)) : Clear(m, Tail(todo)[k], Tail(m.dest)[k])
    BY <1>2, <1>3, <1>4, ClearHere
  <1>7. MemoryOK(safe, Entered(m)) /\ Enters(m, Entered(m))
    BY <1>2, <1>5, <1>6, EnteredEnters
  <1>8. /\ Entered(m).next = m.next /\ Claims(Entered(m)) \subseteq Claims(m)
        /\ Entered(m).dest = [k \in 1 .. Len(This.elems) |-> At(m) \o <<k>>]
    <2>1. Claims(Entered(m)) \subseteq Claims(m)
      BY <1>2, <1>5, <1>6, EnteredClaims
    <2>2. DOMAIN m = MemoryFields
      BY <1>2 DEF MemoryOK
    <2> QED
      BY <2>1, <2>2 DEF Entered, MemoryFields
  <1>9. /\ MemoryOK(safe, n) /\ Enters(m, n) /\ n.next = m.next
        /\ Claims(n) \subseteq Claims(m)
        /\ \A k \in 1 .. Len(This.elems) : n.dest[k] = At(m) \o <<k>>
    BY <1>1, <1>7, <1>8
  <1> HIDE DEF n
  <1>10. KeepsMarks(m, n)
    BY <1>9, SameRaw DEF Enters
  <1>11. n.next > 1 /\ MarksOK(n) /\ OnlySlices(n)
    <2>1. m.next <= n.next
      BY <1>2, <1>9 DEF MemoryOK
    <2> QED
      BY <1>2, <1>4, <1>9, <1>10, <2>1, StillMarked
  <1>12. n = mem'["used"]
    BY DEF n
  <1>13. \A t, l : Clear(m, t, l) => Clear(n, t, l)
    BY <1>10, KeptMarks
  <1>14. ASSUME NEW k \in 1 .. Len(todo')
         PROVE  Clear(n, todo'[k], n.dest[k])
    <2>1. k \in Nat /\ n.dest[k] = At(m) \o <<k>>
      BY <1>3, <1>5, <1>9
    <2>2. \A t : Clear(m, t, At(m) \o <<k>>)
      BY <1>6, <2>1, ClearPart
    <2> QED
      BY <1>13, <2>1, <2>2
  <1>15. ASSUME NEW j \in 1 .. Len(callers'), NEW k \in 1 .. Len(callers'[j].todo)
         PROVE  Clear(n, callers'[j].todo[k], n.waiting[j].dest[k])
    <2> DEFINE frame == [base |-> base, todo |-> Tail(todo)]
    <2>1. /\ callers \in Seq(DecSafe!Frame) /\ Len(callers) \in Nat
          /\ frame \in DecSafe!Frame /\ frame.todo = Tail(todo)
      BY <1>2, <1>3 DEF DecSafe!TypeOK, DecSafe!Frame
    <2> HIDE DEF frame
    <2>2. /\ Len(callers') = Len(callers) + 1 /\ callers'[1] = frame
          /\ \A i \in 2 .. Len(callers) + 1 :
               i - 1 \in 1 .. Len(callers) /\ callers'[i] = callers[i - 1]
      BY <1>3, <2>1, FrontOf DEF frame
    <2>3. CASE j = 1
      <3>1. n.waiting[1].dest = Tail(m.dest)
        BY <1>9 DEF Enters
      <3> QED
        BY <1>6, <1>13, <2>1, <2>2, <2>3, <3>1
    <2>4. CASE j # 1
      <3>1. j \in 2 .. Len(callers) + 1
        BY <2>1, <2>2, <2>4
      <3>2. Len(m.waiting) = Len(callers)
        BY <1>2 DEF Aligned
      <3>3. n.waiting[j] = m.waiting[j - 1]
        BY <1>9, <3>1, <3>2 DEF Enters
      <3>4. j - 1 \in 1 .. Len(callers) /\ callers'[j] = callers[j - 1]
        BY <2>2, <3>1
      <3>5. Clear(m, callers[j - 1].todo[k], m.waiting[j - 1].dest[k])
        BY <1>4, <3>4 DEF Planned
      <3> QED
        BY <1>13, <3>3, <3>4, <3>5
    <2> QED
      BY <2>3, <2>4
  <1>16. Planned(mem["used"])'
    BY <1>2, <1>12, <1>14, <1>15, PlannedNext
  <1>17. ExcludedInv'
    BY <1>2, <1>11, <1>12, <1>16, ExcludedNext
  <1> QED
    BY <1>10, <1>17 DEF m, n

LEMMA LeaveKeepsExcluded ==
  ASSUME MemoryInv, ExcludedInv, Leave
  PROVE  ExcludedInv' /\ KeepsMarks(mem["used"], mem'["used"])
  <1> DEFINE m == mem["used"]
             n == mem'["used"]
  <1>1. /\ phase \in { "run", "failed" } /\ phase # "idle" /\ Step
        /\ Len(callers') < Len(callers) /\ n = Left(m)
    BY DEF Leave, World
  <1>2. /\ DecSafe!TypeOK /\ Aligned(m) /\ MemoryOK(safe, m) /\ ClaimedOnce(m)
        /\ root' = root
    BY <1>1, RootStays DEF MemoryInv, CallOK, World
  <1>3. callers # << >> /\ callers' = Tail(callers) /\ todo' = Head(callers).todo
    BY <1>1, <1>2, ReturnStep
  <1>4. m.next > 1 /\ MarksOK(m) /\ OnlySlices(m) /\ Planned(m)
    BY <1>1 DEF ExcludedInv
  <1> HIDE DEF m
  <1>5. /\ Len(callers) \in Nat \ { 0 } /\ Head(callers) = callers[1]
        /\ Len(callers') = Len(callers) - 1
        /\ \A k \in 1 .. Len(callers) - 1 : callers'[k] = callers[k + 1]
    BY <1>2, <1>3, HeadTailProperties, EmptySeq DEF DecSafe!TypeOK
  <1>6. Len(m.waiting) = Len(callers) /\ m.waiting # << >>
    BY <1>2, <1>5, EmptySeq DEF Aligned
  <1>7. MemoryOK(safe, n) /\ Leaves(m, n)
    BY <1>1, <1>2, <1>6, LeftLeaves
  <1>8. n.next = m.next /\ Claims(n) \subseteq Claims(m)
    <2>1. Claims(Left(m)) \subseteq Claims(m)
      BY <1>2, <1>6, LeftClaims
    <2>2. DOMAIN m = MemoryFields
      BY <1>2 DEF MemoryOK
    <2>3. Left(m).next = m.next
      BY <2>2 DEF Left, MemoryFields
    <2> QED
      BY <1>1, <2>1, <2>3
  <1> HIDE DEF n
  <1>9. KeepsMarks(m, n)
    BY <1>7, SameRaw DEF Leaves
  <1>10. n.next > 1 /\ MarksOK(n) /\ OnlySlices(n)
    <2>1. m.next <= n.next
      BY <1>2, <1>8 DEF MemoryOK
    <2> QED
      BY <1>2, <1>4, <1>7, <1>8, <1>9, <2>1, StillMarked
  <1>11. n = mem'["used"]
    BY DEF n
  <1>12. \A t, l : Clear(m, t, l) => Clear(n, t, l)
    BY <1>9, KeptMarks
  <1>13. \A j \in 1 .. Len(callers) : \A k \in 1 .. Len(callers[j].todo) :
           Clear(n, callers[j].todo[k], m.waiting[j].dest[k])
    BY <1>4, <1>12 DEF Planned
  <1>14. \A k \in 1 .. Len(todo') : Clear(n, todo'[k], n.dest[k])
    <2>1. 1 \in 1 .. Len(callers) /\ todo' = callers[1].todo /\ n.dest = m.waiting[1].dest
      BY <1>3, <1>5, <1>7 DEF Leaves
    <2> QED
      BY <1>13, <2>1
  <1>15. ASSUME NEW j \in 1 .. Len(callers'), NEW k \in 1 .. Len(callers'[j].todo)
         PROVE  Clear(n, callers'[j].todo[k], n.waiting[j].dest[k])
    <2>1. j \in 1 .. Len(callers) - 1 /\ j + 1 \in 1 .. Len(callers)
      BY <1>5
    <2>2. callers'[j] = callers[j + 1] /\ n.waiting[j] = m.waiting[j + 1]
      BY <1>5, <1>6, <1>7, <2>1 DEF Leaves
    <2> QED
      BY <1>13, <2>1, <2>2
  <1>16. Planned(mem["used"])'
    BY <1>2, <1>11, <1>14, <1>15, PlannedNext
  <1>17. ExcludedInv'
    BY <1>2, <1>10, <1>11, <1>16, ExcludedNext
  <1> QED
    BY <1>9, <1>17 DEF m, n

LEMMA StopKeepsExcluded ==
  ASSUME MemoryInv, ExcludedInv, Stop
  PROVE  ExcludedInv' /\ KeepsMarks(mem["used"], mem'["used"])
  <1> DEFINE m == mem["used"]
  <1>1. /\ phase \in { "run", "failed" } /\ phase # "idle" /\ Step
        /\ phase' # "run" /\ callers' = callers /\ mem' = mem
    BY DEF Stop
  <1>2. DecSafe!TypeOK /\ root' = root
    BY <1>1, RootStays DEF MemoryInv, CallOK
  <1>3. todo' = todo
    BY <1>1, <1>2, StopStep
  <1>4. m.next > 1 /\ MarksOK(m) /\ OnlySlices(m) /\ Planned(m)
    BY <1>1 DEF ExcludedInv
  <1>5. m = mem'["used"]
    BY <1>1
  <1> HIDE DEF m
  <1>6. KeepsMarks(m, m)
    BY SameRaw
  <1>7. Planned(mem["used"])'
    BY <1>1, <1>2, <1>3, <1>4, <1>5, PlannedNext DEF Planned
  <1>8. ExcludedInv'
    BY <1>2, <1>4, <1>5, <1>7, ExcludedNext
  <1> QED
    BY <1>5, <1>6, <1>8 DEF m

LEMMA DecodeKeepsExcluded ==
  ASSUME MemoryInv, ExcludedInv, NEW o \in Int, o < 0, NEW data, NEW k, Decode(o, data, k)
  PROVE  ExcludedInv'
  <1> DEFINE m == mem["used"]
             n == mem'["used"]
  <1>1. /\ todo' = <<root>> /\ callers' = << >> /\ phase' = "run"
        /\ root' = root /\ n = Again(m, o, data)
    BY DEF Decode, Again
  <1>2. MemoryOK(safe, m) /\ ClaimedOnce(m)
    BY DEF MemoryInv, World
  <1>3. m.next > 1 /\ MarksOK(m) /\ OnlySlices(m)
    BY DEF ExcludedInv
  <1> HIDE DEF m
  <1>4. MemoryOK(safe, Again(m, o, data)) /\ Again(m, o, data).dest = <<Variable>>
    <2> DEFINE x == Again(m, o, data)
    <2>1. /\ MemoryOK(safe, x) /\ ClaimedOnce(x)
          /\ <<o>> \in DOMAIN x.raw /\ x.raw[<<o>>] = data
          /\ x.dest = <<Variable>> /\ x.after = << >> /\ x.waiting = << >>
      BY <1>2, AgainMemory
    <2> HIDE DEF x
    <2> QED
      BY <2>1 DEF x
  <1>5. /\ Again(m, o, data).next = m.next
        /\ KeepsMarks(m, Again(m, o, data))
        /\ Claims(Again(m, o, data)) \subseteq Claims(m)
    BY <1>2, AgainMarks
  <1>6. /\ MemoryOK(safe, n) /\ n.dest = <<Variable>> /\ n.next = m.next
        /\ KeepsMarks(m, n) /\ Claims(n) \subseteq Claims(m)
    BY <1>1, <1>4, <1>5
  <1>7. n = mem'["used"]
    OBVIOUS
  <1> HIDE DEF n
  <1>8. n.next > 1 /\ MarksOK(n) /\ OnlySlices(n)
    <2>1. m.next <= n.next
      BY <1>2, <1>6 DEF MemoryOK
    <2> QED
      BY <1>2, <1>3, <1>6, <2>1, StillMarked
  <1>9. Clear(n, root, Variable)
    <2>1. \A x \in Behind(n) : x # 1
      BY <1>6, <1>8, BehindRange
    <2> QED
      BY <2>1 DEF Clear, Variable
  <1>10. Planned(mem["used"])'
    <2>1. \A i \in 1 .. Len(todo') : Clear(n, todo'[i], n.dest[i])
      BY <1>1, <1>6, <1>9
    <2>2. 1 .. Len(callers') = {}
      BY <1>1
    <2> QED
      BY <1>1, <1>7, <2>1, <2>2, PlannedNext
  <1> QED
    BY <1>1, <1>7, <1>8, <1>10, ExcludedNext

\* Between two calls nothing is planned.
LEMMA EditKeepsExcluded ==
  ASSUME MemoryInv, NEW n, Edit(n), n.next > 1, MarksOK(n), OnlySlices(n)
  PROVE  ExcludedInv'
  <1>1. /\ mem' = [mem EXCEPT !["used"] = n] /\ root' = root
        /\ phase' = phase /\ (phase = "idle" \/ phase = "done")
    BY DEF Edit, Idle, decoder
  <1>2. n = mem'["used"]
    <2>1. "used" \in DOMAIN mem
      BY DEF MemoryInv, World
    <2> QED
      BY <1>1, <2>1
  <1>3. phase' \notin { "run", "failed" }
    BY <1>1
  <1> QED
    BY <1>1, <1>2, <1>3, ExcludedNext

LEMMA ReslicedKeepsExcluded ==
  ASSUME MemoryInv, ExcludedInv, NEW k \in Slices, NEW r, r.obj = FieldRef(k).obj,
         Edit(Resliced(k, r))
  PROVE  ExcludedInv'
  <1> DEFINE p == <<Fields[k], <<1, k>>>>
             m == mem["used"]
             n == Resliced(k, r)
  <1>1. DOMAIN m = MemoryFields
    BY DEF MemoryInv, MemoryOK, World
  <1>2. p \in DOMAIN m.refs /\ FieldRef(k) = m.refs[p]
    BY SliceHeader
  <1>3. /\ n.raw = m.raw /\ n.next = m.next /\ n.after = m.after /\ n.waiting = m.waiting
        /\ n.refs = [m.refs EXCEPT ![p] = r]
    BY <1>1 DEF Resliced, MemoryFields
  <1>4. m.next > 1 /\ MarksOK(m) /\ OnlySlices(m)
    BY DEF ExcludedInv
  <1> HIDE DEF p, m, n
  <1>5. /\ DOMAIN n.refs = DOMAIN m.refs
        /\ \A q \in DOMAIN m.refs : n.refs[q].obj = m.refs[q].obj
    BY <1>2, <1>3
  <1>6. Pending(n) = Pending(m)
    BY <1>3 DEF Pending
  <1>7. Claims(n) \subseteq Claims(m)
    BY <1>5, <1>6 DEF Claims
  <1>8. Marks(n) = Marks(m) /\ Behind(n) = Behind(m)
    BY <1>3 DEF Marks, Behind
  <1>9. n.next > 1 /\ MarksOK(n) /\ OnlySlices(n)
    BY <1>3, <1>4, <1>7, <1>8 DEF MarksOK, OnlySlices
  <1> QED
    BY <1>9, EditKeepsExcluded DEF n

LEMMA ShortenKeepsExcluded == MemoryInv /\ ExcludedInv /\ Shorten => ExcludedInv'
  <1> SUFFICES ASSUME MemoryInv, ExcludedInv, Shorten
               PROVE  ExcludedInv'
    OBVIOUS
  <1>1. PICK k \in Slices : Edit(Resliced(k, [FieldRef(k) EXCEPT !.n = @ - 1]))
    BY DEF Shorten
  <1> DEFINE r == [FieldRef(k) EXCEPT !.n = @ - 1]
  <1>2. r.obj = FieldRef(k).obj
    BY SliceHeader DEF Header
  <1> HIDE DEF r
  <1> QED
    BY <1>1, <1>2, ReslicedKeepsExcluded DEF r

LEMMA BeheadKeepsExcluded == MemoryInv /\ ExcludedInv /\ Behead => ExcludedInv'
  <1> SUFFICES ASSUME MemoryInv, ExcludedInv, Behead
               PROVE  ExcludedInv'
    OBVIOUS
  <1>1. PICK k \in Slices :
          Edit(Resliced(k, [FieldRef(k) EXCEPT !.lo = @ + 1, !.n = @ - 1, !.cap = @ - 1]))
    BY DEF Behead
  <1> DEFINE r == [FieldRef(k) EXCEPT !.lo = @ + 1, !.n = @ - 1, !.cap = @ - 1]
  <1>2. r.obj = FieldRef(k).obj
    BY SliceHeader DEF Header
  <1> HIDE DEF r
  <1> QED
    BY <1>1, <1>2, ReslicedKeepsExcluded DEF r

\* The slice of the variable that a struct with an excluded field is an element of.
LEMMA SliceWithExcluded ==
  ASSUME MemoryInv, ExcludedInv, NEW x \in WithExcluded
  PROVE  \/ x = Variable /\ root \in Excluded
         \/ \E k \in Slices : \E i \in Int :
              /\ x = <<FieldRef(k).obj, i>>
              /\ 1 < FieldRef(k).obj /\ FieldRef(k).obj < mem["used"].next
              /\ \A c \in Claims(mem["used"]) : c[2] = FieldRef(k).obj =>
                   /\ Schema[c[1][1]].kind = "slice"
                   /\ Schema[c[1][1]].elems[1] \in Excluded
  <1>1. CASE x \in { l \in { Variable } : root \in Excluded }
    BY <1>1
  <1>2. CASE x \notin { l \in { Variable } : root \in Excluded }
    <2>1. PICK k \in { j \in Slices : Schema[Fields[j]].elems[1] \in Excluded } :
            \E j \in 0 .. FieldRef(k).n - 1 : x = <<FieldRef(k).obj, FieldRef(k).lo + j>>
      BY <1>2 DEF WithExcluded
    <2>2. PICK j \in 0 .. FieldRef(k).n - 1 : x = <<FieldRef(k).obj, FieldRef(k).lo + j>>
      BY <2>1
    <2> DEFINE m == mem["used"]
               o == FieldRef(k).obj
               p == <<Fields[k], <<1, k>>>>
    <2>3. k \in Slices /\ Schema[Fields[k]].elems[1] \in Excluded
      OBVIOUS
    <2>4. /\ p \in DOMAIN m.refs /\ m.refs[p].obj = o
          /\ o \in Int /\ o > 0 /\ FieldRef(k).lo + j \in Int
          /\ Schema[Fields[k]].kind = "slice"
      BY <2>3, SliceHeader DEF Header
    <2>5. <<p, o>> \in Claims(m)
      BY <2>4 DEF Claims
    <2>6. p[1] = Fields[k] /\ <<p, o>>[1] = p /\ <<p, o>>[2] = o
      OBVIOUS
    <2>7. ClaimedOnce(m) /\ OnlySlices(m)
      BY DEF MemoryInv, ExcludedInv, World
    <2> HIDE DEF p, m
    <2>8. o # 1 /\ o < m.next /\ \A c \in Claims(m) : c[2] = o => c[1] = p
      BY <2>4, <2>5, <2>6, <2>7 DEF ClaimedOnce, OnlySlices
    <2>9. \A c \in Claims(m) : c[2] = o => /\ Schema[c[1][1]].kind = "slice"
                                           /\ Schema[c[1][1]].elems[1] \in Excluded
      BY <2>3, <2>4, <2>6, <2>8
    <2>10. 1 < o
      BY <2>4, <2>8
    <2> QED
      BY <2>2, <2>3, <2>4, <2>8, <2>9, <2>10 DEF m
  <1> QED
    BY <1>1, <1>2

LEMMA SetExcludedKeepsExcluded == MemoryInv /\ ExcludedInv /\ SetExcluded => ExcludedInv'
  <1> SUFFICES ASSUME MemoryInv, ExcludedInv, SetExcluded
               PROVE  ExcludedInv'
    OBVIOUS
  <1> DEFINE m == mem["used"]
             set == [l \in { x \o <<-1>> : x \in WithExcluded } |-> <<1>>]
             n == [m EXCEPT !.raw = Updated(@, set)]
  <1>1. DOMAIN m = MemoryFields
    BY DEF MemoryInv, MemoryOK, World
  <1>2. /\ n.raw = Updated(m.raw, set) /\ n.next = m.next /\ n.refs = m.refs
        /\ n.after = m.after /\ n.waiting = m.waiting
    BY <1>1 DEF MemoryFields
  <1>3. m.next > 1 /\ MarksOK(m) /\ OnlySlices(m)
    BY DEF ExcludedInv
  <1>4. Edit(n)
    BY DEF SetExcluded
  <1>5. ASSUME NEW l \in DOMAIN set
        PROVE  \/ l = <<1, -1>> /\ root \in Excluded
               \/ /\ Len(l) = 3 /\ 1 < l[1] /\ l[1] < m.next
                  /\ \A c \in Claims(m) : c[2] = l[1] =>
                       Schema[c[1][1]].kind = "slice" /\ Schema[c[1][1]].elems[1] \in Excluded
    <2>1. PICK x \in WithExcluded : l = x \o <<-1>>
      OBVIOUS
    <2>2. CASE x = Variable /\ root \in Excluded
      <3>1. <<1>> \o <<-1>> = <<1, -1>>
        <4> DEFINE a == <<1>> \o <<-1>>
                   b == <<1, -1>>
        <4>1. a \in Seq(Int) /\ Len(a) = 2 /\ a[1] = 1 /\ a[2] = -1
          OBVIOUS
        <4>2. b \in Seq(Int) /\ Len(b) = 2 /\ b[1] = 1 /\ b[2] = -1
          OBVIOUS
        <4>3. \A j \in 1 .. 2 : j = 1 \/ j = 2
          OBVIOUS
        <4> HIDE DEF a, b
        <4>4. a = b
          BY <4>1, <4>2, <4>3, SeqEqual
        <4> QED
          BY <4>4 DEF a, b
      <3>2. l = <<1, -1>>
        BY <2>1, <2>2, <3>1 DEF Variable
      <3> QED
        BY <2>2, <3>2
    <2>3. CASE ~(x = Variable /\ root \in Excluded)
      <3>1. PICK k \in Slices : \E i \in Int :
              /\ x = <<FieldRef(k).obj, i>>
              /\ 1 < FieldRef(k).obj /\ FieldRef(k).obj < m.next
              /\ \A c \in Claims(m) : c[2] = FieldRef(k).obj =>
                   Schema[c[1][1]].kind = "slice" /\ Schema[c[1][1]].elems[1] \in Excluded
        BY <2>3, SliceWithExcluded
      <3>2. PICK i \in Int : x = <<FieldRef(k).obj, i>>
        BY <3>1
      <3> DEFINE o == FieldRef(k).obj
      <3> HIDE DEF o
      <3>3. Len(<<o, i>> \o <<-1>>) = 3 /\ (<<o, i>> \o <<-1>>)[1] = o
        OBVIOUS
      <3>4. Len(l) = 3 /\ l[1] = o
        BY <2>1, <3>2, <3>3 DEF o
      <3> QED
        BY <3>1, <3>4 DEF o
    <2> QED
      BY <2>2, <2>3
  <1> HIDE DEF m, set, n
  <1>6. Marks(n) \subseteq Marks(m) \cup DOMAIN set
    BY <1>2 DEF Marks, Updated
  <1>7. MarksOK(n)
    <2> SUFFICES ASSUME NEW l \in Marks(n)
                 PROVE  \/ l = <<1, -1>> /\ root \in Excluded
                        \/ Len(l) = 3 /\ 1 < l[1] /\ l[1] < n.next
      BY DEF MarksOK
    <2> QED
      BY <1>2, <1>3, <1>5, <1>6 DEF MarksOK
  <1>8. Claims(n) = Claims(m)
    BY <1>2 DEF Claims, Pending
  <1>9. OnlySlices(n)
    <2> SUFFICES ASSUME NEW c \in Claims(m)
                 PROVE  /\ c[2] # 1
                        /\ c[2] \in Behind(n) => /\ Schema[c[1][1]].kind = "slice"
                                                 /\ Schema[c[1][1]].elems[1] \in Excluded
      BY <1>8 DEF OnlySlices
    <2>1. c[2] # 1
      BY <1>3 DEF OnlySlices
    <2>2. ASSUME NEW l \in Marks(n), Len(l) = 3, c[2] = l[1]
          PROVE  Schema[c[1][1]].kind = "slice" /\ Schema[c[1][1]].elems[1] \in Excluded
      <3>1. CASE l \in Marks(m)
        <4>1. c[2] \in Behind(m)
          BY <2>2, <3>1 DEF Behind
        <4> QED
          BY <1>3, <4>1 DEF OnlySlices
      <3>2. CASE l \in DOMAIN set
        <4>1. Len(<<1, -1>>) = 2
          OBVIOUS
        <4>2. l # <<1, -1>>
          BY <2>2, <4>1
        <4> QED
          BY <1>5, <2>2, <3>2, <4>2
      <3> QED
        BY <1>6, <3>1, <3>2
    <2> QED
      BY <2>1, <2>2 DEF Behind
  <1> QED
    BY <1>2, <1>3, <1>4, <1>7, <1>9, EditKeepsExcluded

LEMMA CallsKeepExcluded ==
  MemoryInv /\ ExcludedInv /\ (CallOnNew \/ CallOnRefilled) => ExcludedInv'
  <1> SUFFICES ASSUME MemoryInv, ExcludedInv
               PROVE  CallOnNew \/ CallOnRefilled => ExcludedInv'
    OBVIOUS
  <1>1. input \in Int /\ (input = 0 \/ input < 0)
    BY DEF MemoryInv, CallOK
  <1>2. ASSUME CallOnNew PROVE ExcludedInv'
    <2>1. PICK msg \in Messages[safe][root] : Decode(input - 1, msg, Len(msg))
      BY <1>2 DEF CallOnNew
    <2>2. input - 1 \in Int /\ input - 1 < 0
      BY <1>1
    <2> QED
      BY <2>1, <2>2, DecodeKeepsExcluded
  <1>3. ASSUME CallOnRefilled PROVE ExcludedInv'
    <2>1. calls > 0 /\ \E msg \in Messages[safe][root] :
                         Decode(input, Over(msg, mem["used"].raw[<<input>>]), Len(msg))
      BY <1>3 DEF CallOnRefilled
    <2>2. input < 0
      BY <2>1 DEF MemoryInv, CallOK
    <2> QED
      BY <1>1, <2>1, <2>2, DecodeKeepsExcluded
  <1> QED
    BY <1>2, <1>3

-----------------------------------------------------------------------------
(***************************************************************************)
(* The results.                                                            *)
(***************************************************************************)

LEMMA InitKeepsExcluded == Init => ExcludedInv
  <1> SUFFICES ASSUME Init
               PROVE  ExcludedInv
    OBVIOUS
  <1> DEFINE m == mem["used"]
  <1>1. phase = "idle" /\ m = Zeroed(0, << >>)
    BY DEF Init, World
  <1>2. phase \notin { "run", "failed" }
    BY <1>1
  <1>3. /\ m.raw = [l \in { <<0>> } |-> << >>] /\ m.refs = << >> /\ m.next = 2
        /\ m.after = << >> /\ m.waiting = << >>
    BY <1>1 DEF Zeroed
  <1> HIDE DEF m
  <1>4. Marks(m) = {}
    <2>1. DOMAIN m.raw = { <<0>> } /\ Len(<<0>>) = 1
      BY <1>3
    <2> QED
      BY <2>1 DEF Marks, IsMark
  <1>5. Claims(m) = {}
    <2>1. DOMAIN m.refs = {} /\ DOMAIN m.after = {} /\ DOMAIN m.waiting = {}
      BY <1>3
    <2> QED
      BY <2>1 DEF Claims, Pending
  <1>6. m.next > 1 /\ MarksOK(m) /\ OnlySlices(m)
    BY <1>3, <1>4, <1>5 DEF MarksOK, OnlySlices
  <1> QED
    BY <1>2, <1>6 DEF ExcludedInv, m

LEMMA NextKeepsExcluded ==
  BlocksAreWhole /\ MemoryInv /\ ExcludedInv /\ [Next]_vars => ExcludedInv'
  <1> SUFFICES ASSUME BlocksAreWhole, MemoryInv, ExcludedInv, [Next]_vars
               PROVE  ExcludedInv'
    OBVIOUS
  <1>1. CASE UNCHANGED vars
    BY <1>1 DEF ExcludedInv, MarksOK, Planned, Clear, vars, decoder
  <1>2. CASE Unmarshal
    BY <1>2, AssignKeepsExcluded, StoreKeepsExcluded, EnterKeepsExcluded,
       LeaveKeepsExcluded, StopKeepsExcluded DEF Unmarshal
  <1>3. CASE User
    BY <1>3, CallsKeepExcluded, ShortenKeepsExcluded, BeheadKeepsExcluded,
       SetExcludedKeepsExcluded DEF User
  <1> QED
    BY <1>1, <1>2, <1>3 DEF Next

LEMMA StepKeepsMarks ==
  BlocksAreWhole /\ MemoryInv /\ ExcludedInv /\ [Next]_vars /\ phase = "run" =>
    KeepsMarks(mem["used"], mem'["used"])
  <1> SUFFICES ASSUME BlocksAreWhole, MemoryInv, ExcludedInv, [Next]_vars, phase = "run"
               PROVE  KeepsMarks(mem["used"], mem'["used"])
    OBVIOUS
  <1>1. CASE UNCHANGED vars
    BY <1>1, SameRaw DEF vars
  <1>2. CASE Unmarshal
    BY <1>2, AssignKeepsExcluded, StoreKeepsExcluded, EnterKeepsExcluded,
       LeaveKeepsExcluded, StopKeepsExcluded DEF Unmarshal
  <1>3. ~User
    BY DEF User, CallOnNew, CallOnRefilled, Shorten, Behead, SetExcluded, Edit, Idle
  <1> QED
    BY <1>1, <1>2, <1>3 DEF Next

\* Where no struct that fast mode copies whole has an excluded field, nothing is
\* planned that would write over such a field: an array with one in its elements
\* is referred to by slices of such structs only, and decoded into by element.
THEOREM ExcludedInvariant == BlocksAreWhole => (Spec => []ExcludedInv)
  <1> SUFFICES ASSUME BlocksAreWhole
               PROVE  Spec => []ExcludedInv
    OBVIOUS
  <1>1. Init => MemoryInv /\ ExcludedInv
    BY InitKeepsInv, InitKeepsExcluded
  <1>2. MemoryInv /\ ExcludedInv /\ [Next]_vars => MemoryInv' /\ ExcludedInv'
    BY NextKeepsInv, NextKeepsExcluded
  <1> QED
    BY <1>1, <1>2, PTL DEF Spec

\* A field tagged goserde:"-" keeps its value through every call of Unmarshal, in
\* the variable and in the elements of slices, however often they are reused.
THEOREM ExcludedFieldsKept == BlocksAreWhole => (Spec => ExcludedKept)
  <1> SUFFICES ASSUME BlocksAreWhole
               PROVE  Spec => ExcludedKept
    OBVIOUS
  <1>1. MemoryInv /\ ExcludedInv /\ [Next]_vars =>
          [ phase = "run" =>
              \A l \in DOMAIN mem["used"].raw :
                Len(l) > 1 /\ l[Len(l)] = -1 => l \in DOMAIN mem'["used"].raw
                                  /\ mem'["used"].raw[l] = mem["used"].raw[l] ]_vars
    BY StepKeepsMarks DEF KeepsMarks, Marks, IsMark
  <1>2. Spec => []ExcludedInv
    BY ExcludedInvariant
  <1> QED
    BY <1>1, <1>2, MemoryInvariant, PTL DEF Spec, ExcludedKept

=============================================================================
