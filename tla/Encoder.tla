------------------------------ MODULE Encoder ------------------------------
(***************************************************************************)
(* The Size, Marshal and Append methods goserdegen emits, walking the same *)
(* value one after the other.  Each method has its own rules: what Size    *)
(* adds up by multiplication Marshal may write in one copy and Append      *)
(* element by element, and a map is ranged over in another order each      *)
(* time.                                                                   *)
(*                                                                         *)
(* A value is given by its shape: the bytes of a basic, a string or a      *)
(* []byte; the sequence of the elements or fields; <<>> or <<v>> for a     *)
(* pointer; a set of pairs for a map; <<tag, v>> for a union, where tag 0  *)
(* is nil and a tag beyond the members a type that was never declared.     *)
(***************************************************************************)
EXTENDS Integers, Sequences, FiniteSets, SequencesExt

CONSTANTS
  Type, Schema,    \* as in Decoder
  Roots,           \* the types of the values encoded
  Values,          \* for each root a set of values
  Safe,            \* TRUE for goserdegen -safe
  PutUvarint(_),  \* the bytes PutUvarint and AppendUvarint write
  SizeUvarint(_), \* what codec.UvarintSize returns
  TagLen(_),      \* what the generator takes for the width of a tag
  Fill,            \* what the buffer given to Marshal holds
  Spare,           \* how far that buffer may be longer, or shorter, than Size
  Before           \* the contents Append may be given to append to

VARIABLES
  root, val,  \* the value and its type
  pass,       \* "size", "marshal", "append", "done", "panic"
  todo,       \* what the running method still has to visit, in order
  size,       \* s of Size
  buf,        \* b of Marshal
  i,          \* i of Marshal
  out,        \* b of Append
  before      \* what out held at the start

vars == <<root, val, pass, todo, size, buf, i, out, before>>

-----------------------------------------------------------------------------
Item(t, v) == [t |-> t, v |-> v]

Visit(p) == pass = p /\ todo # <<>>

This == Schema[Head(todo).t]

Val == Head(todo).v

Elem == Schema[This.elems[1]]

\* The elements of a slice or array, the fields of a struct.
Elements == [k \in 1 .. Len(Val) |-> Item(This.elems[1], Val[k])]
Fields == [k \in 1 .. Len(Val) |-> Item(This.elems[k], Val[k])]

Bulk == ~Safe /\ This.bulk

\* fixedSize: a basic, a [n]byte or an array of them has one, -1 stands for false.
FixedSize(t) ==
  LET width[u \in Type] ==
        IF Schema[u].kind \in { "fixed", "block" } THEN Schema[u].size
        ELSE IF Schema[u].kind = "array" /\ width[Schema[u].elems[1]] >= 0
          THEN Schema[u].size * width[Schema[u].elems[1]]
        ELSE -1
  IN  width[t]

ElemSize == FixedSize(This.elems[1])

FixedElem == ElemSize >= 0

\* The entries of a map in one of the orders range may choose.
Orders == SetToSeqs(Val)

Entries(s) ==
  [k \in 1 .. (2 * Len(s)) |->
     Item(This.elems[2 - (k % 2)], s[(k + 1) \div 2][2 - (k % 2)])]

\* Raw memory: the bytes of the elements, or of the fields, in a row, through
\* all dimensions of an array.
Dimensions(t) ==
  LET dims[u \in Type] ==
        IF Schema[u].kind = "array" THEN 1 + dims[Schema[u].elems[1]] ELSE 0
  IN  dims[t]

Flat(n, v) ==
  LET flat[k \in 0 .. n] == IF k = 0 THEN v ELSE FlattenSeq(flat[k - 1])
  IN  flat[n]

StructMemory(t, v) ==
  FlattenSeq([k \in 1 .. Len(v) |-> Flat(Dimensions(Schema[t].elems[k]), v[k])])

Memory ==
  IF This.kind = "struct" THEN StructMemory(Head(todo).t, Val)
  ELSE IF Elem.kind = "struct"
    THEN FlattenSeq([k \in 1 .. Len(Val) |-> StructMemory(This.elems[1], Val[k])])
  ELSE Flat(Dimensions(This.elems[1]) + 1, Val)

Tag == Val[1]
Member == <<Item(This.elems[Tag], Val[2])>>
Declared == Tag <= Len(This.elems)

\* The default case of the switch over the members.
NotAMember ==
  /\ pass # "panic" /\ todo # <<>> /\ This.kind = "union" /\ ~Declared
  /\ pass' = "panic"
  /\ UNCHANGED <<root, val, todo, size, buf, i, out, before>>

-----------------------------------------------------------------------------
(***************************************************************************)
(* Size.                                                                   *)
(***************************************************************************)
Add(n, more) ==
  /\ size' = size + n
  /\ todo' = more \o Tail(todo)
  /\ UNCHANGED <<root, val, pass, buf, i, out, before>>

\* Mutant: the prefix of a slice of fixed-width elements is one byte.
SizeSliceShort ==
  /\ Visit("size") /\ This.kind = "slice"
  /\ \/ FixedElem /\ Add(1 + ElemSize * Len(Val), <<>>)
     \/ ~FixedElem /\ Bulk /\ Add(SizeUvarint(Len(Val)) + This.raw * Len(Val), <<>>)
     \/ ~FixedElem /\ ~Bulk /\ Add(SizeUvarint(Len(Val)), Elements)

SizeSlice ==
  /\ Visit("size") /\ This.kind = "slice"
  /\ \/ FixedElem /\ Add(SizeUvarint(Len(Val)) + ElemSize * Len(Val), <<>>)
     \/ ~FixedElem /\ Bulk /\ Add(SizeUvarint(Len(Val)) + This.raw * Len(Val), <<>>)
     \/ ~FixedElem /\ ~Bulk /\ Add(SizeUvarint(Len(Val)), Elements)

SizeArray ==
  /\ Visit("size") /\ This.kind = "array"
  /\ \/ FixedElem /\ Add(ElemSize * This.size, <<>>)
     \/ ~FixedElem /\ Bulk /\ Add(This.raw * This.size, <<>>)
     \/ ~FixedElem /\ ~Bulk /\ Add(0, Elements)

SizeMap ==
  /\ Visit("size") /\ This.kind = "map"
  /\ \E s \in Orders : Add(SizeUvarint(Cardinality(Val)), Entries(s))

\* Mutant: every tag is sized as one byte.
SizeUnionOneByte ==
  /\ Visit("size") /\ This.kind = "union" /\ Declared
  /\ \/ Tag = 0 /\ Add(1, <<>>)
     \/ Tag # 0 /\ Add(1, Member)

SizeUnion ==
  /\ Visit("size") /\ This.kind = "union" /\ Declared
  /\ \/ Tag = 0 /\ Add(TagLen(0), <<>>)
     \/ Tag # 0 /\ Add(TagLen(Tag), Member)

SizeOther ==
  /\ Visit("size")
  /\ \/ This.kind \in { "fixed", "block" } /\ Add(This.size, <<>>)
     \/ /\ This.kind \in { "string", "bytes" }
        /\ Add(SizeUvarint(Len(Val)) + Len(Val), <<>>)
     \/ This.kind = "pointer" /\ Add(1, Elements)
     \/ This.kind = "struct" /\ Bulk /\ Add(This.raw, <<>>)
     \/ This.kind = "struct" /\ ~Bulk /\ Add(0, Fields)

-----------------------------------------------------------------------------
(***************************************************************************)
(* Marshal.  Bytes are put at b[i:] by index, which panics when there is   *)
(* no room, and then by copy, which stops where the buffer ends.           *)
(***************************************************************************)
Room == Len(buf) - i

Fits(bytes) == IF Len(bytes) <= Room THEN Len(bytes) ELSE Room

Over(b, o, bytes) ==
  [k \in 1 .. Len(b) |-> IF k \in (o + 1) .. (o + Len(bytes)) THEN bytes[k - o] ELSE b[k]]

Write(bytes, copied, more) ==
  \/ /\ Len(bytes) <= Room
     /\ LET n == IF Len(copied) <= Room - Len(bytes) THEN Len(copied) ELSE Room - Len(bytes)
        IN  /\ buf' = Over(buf, i, bytes \o SubSeq(copied, 1, n))
            /\ i' = i + Len(bytes) + n
     /\ todo' = more \o Tail(todo)
     /\ UNCHANGED <<root, val, pass, size, out, before>>
  \/ /\ Len(bytes) > Room
     /\ pass' = "panic"
     /\ UNCHANGED <<root, val, todo, size, buf, i, out, before>>

\* The running method visits the parts of the value and writes nothing.
Descend(parts) ==
  /\ todo' = parts \o Tail(todo)
  /\ UNCHANGED <<root, val, pass, size, buf, i, out, before>>

MarshalSlice ==
  /\ Visit("marshal") /\ This.kind = "slice"
  /\ \/ Bulk /\ Write(PutUvarint(Len(Val)), Memory, <<>>)
     \/ ~Bulk /\ Write(PutUvarint(Len(Val)), <<>>, Elements)

MarshalArray ==
  /\ Visit("marshal") /\ This.kind = "array"
  /\ \/ Bulk /\ This.size > 0 /\ Write(<<>>, Memory, <<>>)
     \/ ~(Bulk /\ This.size > 0) /\ Descend(Elements)

MarshalMap ==
  /\ Visit("marshal") /\ This.kind = "map"
  /\ \E s \in Orders : Write(PutUvarint(Cardinality(Val)), <<>>, Entries(s))

MarshalUnion ==
  /\ Visit("marshal") /\ This.kind = "union" /\ Declared
  /\ \/ Tag = 0 /\ Write(PutUvarint(0), <<>>, <<>>)
     \/ Tag # 0 /\ Write(PutUvarint(Tag), <<>>, Member)

\* A blittable struct copies what fits and counts all of its bytes.
MarshalStruct ==
  /\ Visit("marshal") /\ This.kind = "struct"
  /\ \/ ~Bulk /\ Room >= 0 /\ Descend(Fields)
     \/ /\ Bulk /\ Room >= 0
        /\ buf' = Over(buf, i, SubSeq(Memory, 1, Fits(Memory)))
        /\ i' = i + This.raw
        /\ todo' = Tail(todo)
        /\ UNCHANGED <<root, val, pass, size, out, before>>
     \/ /\ Room < 0
        /\ pass' = "panic"
        /\ UNCHANGED <<root, val, todo, size, buf, i, out, before>>

MarshalOther ==
  /\ Visit("marshal")
  /\ \/ This.kind = "fixed" /\ Write(Val, <<>>, <<>>)
     \/ This.kind = "block" /\ Write(<<>>, Val, <<>>)
     \/ This.kind \in { "string", "bytes" } /\ Write(PutUvarint(Len(Val)), Val, <<>>)
     \/ This.kind = "pointer" /\ Val = <<>> /\ Write(<<0>>, <<>>, <<>>)
     \/ This.kind = "pointer" /\ Val # <<>> /\ Write(<<1>>, <<>>, Elements)

-----------------------------------------------------------------------------
(***************************************************************************)
(* Append.                                                                 *)
(***************************************************************************)
Push(bytes, more) ==
  /\ out' = out \o bytes
  /\ todo' = more \o Tail(todo)
  /\ UNCHANGED <<root, val, pass, size, buf, i, before>>

\* Mutant: the memory of the elements is appended without the prefix.
AppendSliceBare ==
  /\ Visit("append") /\ This.kind = "slice"
  /\ \/ Bulk /\ Push(Memory, <<>>)
     \/ ~Bulk /\ Push(PutUvarint(Len(Val)), Elements)

AppendSlice ==
  /\ Visit("append") /\ This.kind = "slice"
  /\ \/ Bulk /\ Push(PutUvarint(Len(Val)) \o Memory, <<>>)
     \/ ~Bulk /\ Push(PutUvarint(Len(Val)), Elements)

AppendArray ==
  /\ Visit("append") /\ This.kind = "array"
  /\ \/ Bulk /\ This.size > 0 /\ Push(Memory, <<>>)
     \/ ~(Bulk /\ This.size > 0) /\ Push(<<>>, Elements)

AppendMap ==
  /\ Visit("append") /\ This.kind = "map"
  /\ \E s \in Orders : Push(PutUvarint(Cardinality(Val)), Entries(s))

AppendUnion ==
  /\ Visit("append") /\ This.kind = "union" /\ Declared
  /\ \/ Tag = 0 /\ Push(PutUvarint(0), <<>>)
     \/ Tag # 0 /\ Push(PutUvarint(Tag), Member)

AppendOther ==
  /\ Visit("append")
  /\ \/ This.kind \in { "fixed", "block" } /\ Push(Val, <<>>)
     \/ This.kind \in { "string", "bytes" } /\ Push(PutUvarint(Len(Val)) \o Val, <<>>)
     \/ This.kind = "pointer" /\ Val = <<>> /\ Push(<<0>>, <<>>)
     \/ This.kind = "pointer" /\ Val # <<>> /\ Push(<<1>>, Elements)
     \/ This.kind = "struct" /\ Bulk /\ Push(Memory, <<>>)
     \/ This.kind = "struct" /\ ~Bulk /\ Push(<<>>, Fields)

-----------------------------------------------------------------------------
(***************************************************************************)
(* The calls: Bytes makes a buffer of Size bytes, a caller of Marshal may  *)
(* bring a longer one, and by mistake a shorter one.                       *)
(***************************************************************************)
CallMarshal ==
  /\ pass = "size" /\ todo = <<>>
  /\ pass' = "marshal"
  /\ todo' = <<Item(root, val)>>
  /\ \E n \in (size - Spare) .. (size + Spare) :
       n >= 0 /\ buf' = [k \in 1 .. n |-> Fill]
  /\ UNCHANGED <<root, val, size, i, out, before>>

CallAppend ==
  /\ pass = "marshal" /\ todo = <<>>
  /\ pass' = "append"
  /\ todo' = <<Item(root, val)>>
  /\ before' \in Before
  /\ out' = before'
  /\ UNCHANGED <<root, val, size, buf, i>>

Finish ==
  /\ pass = "append" /\ todo = <<>>
  /\ pass' = "done"
  /\ UNCHANGED <<root, val, todo, size, buf, i, out, before>>

Init ==
  /\ root \in Roots
  /\ val \in Values[root]
  /\ pass = "size"
  /\ todo = <<Item(root, val)>>
  /\ size = 0
  /\ buf = <<>> /\ i = 0
  /\ out = <<>> /\ before = <<>>

Next ==
  \/ SizeSlice \/ SizeArray \/ SizeMap \/ SizeUnion \/ SizeOther
  \/ MarshalSlice \/ MarshalArray \/ MarshalMap \/ MarshalUnion
  \/ MarshalStruct \/ MarshalOther
  \/ AppendSlice \/ AppendArray \/ AppendMap \/ AppendUnion \/ AppendOther
  \/ NotAMember \/ CallMarshal \/ CallAppend \/ Finish

Spec == Init /\ [][Next]_vars

-----------------------------------------------------------------------------
(***************************************************************************)
(* Properties.                                                             *)
(***************************************************************************)
Marshalled == pass = "append" \/ pass = "done"

\* Marshal of a buffer of at least Size bytes returns Size, in every order
\* the maps of the value are visited in.
SizeExact == Marshalled /\ Len(buf) >= size => i = size

\* With Size bytes Marshal does not panic, unless the value has a union of an
\* undeclared type, which Size has panicked on before.
NoPanicInSize == pass = "panic" /\ buf # <<>> => Len(buf) < size

\* Marshal writes nothing behind the Size bytes it returns, and Append
\* nothing before the end of what it is given.
WritesInPlace ==
  /\ \A k \in (size + 1) .. Len(buf) : buf[k] = Fill
  /\ SubSeq(out, 1, Len(before)) = before

\* Append appends as many bytes as Size says.
AppendsSize == pass = "done" => Len(out) = Len(before) + size

\* Append writes the same bytes as Marshal.
AppendMatchesMarshal ==
  pass = "done" /\ Len(buf) >= size =>
    SubSeq(out, Len(before) + 1, Len(out)) = SubSeq(buf, 1, size)

-----------------------------------------------------------------------------
(***************************************************************************)
(* The terms of what EncoderProofs says of every package and every value.  *)
(***************************************************************************)
\* A schema as TypeClass makes one.
Schemas ==
  \A t \in Type :
    LET s == Schema[t]
    IN  /\ s.kind \in { "fixed", "block", "string", "bytes", "slice", "array",
                        "pointer", "map", "struct", "union", "owned" }
        /\ s.size \in Nat /\ s.raw \in Nat /\ s.elems \in Seq(Type) /\ s.bulk \in BOOLEAN
        /\ s.kind \in { "slice", "array", "pointer" } => Len(s.elems) = 1
        /\ s.kind = "map" => Len(s.elems) = 2

\* An array is of a type of a lower rank: none contains itself.
ArraysEnd(rank) ==
  /\ rank \in [Type -> Nat]
  /\ \A t \in Type : Schema[t].kind = "array" => rank[Schema[t].elems[1]] < rank[t]

Total(q) ==
  LET upTo[k \in 0 .. Len(q)] == IF k = 0 THEN 0 ELSE upTo[k - 1] + q[k]
  IN  upTo[Len(q)]

\* A struct of r bytes, all of fields that have a fixed size.
FlatStruct(t, r) ==
  LET sizes == [k \in 1 .. Len(Schema[t].elems) |-> FixedSize(Schema[t].elems[k])]
  IN  /\ Schema[t].kind = "struct"
      /\ sizes \in Seq(Nat) /\ Total(sizes) = r

\* What is copied as a block has as many bytes in memory as on the wire.
BlocksAreFlat ==
  \A t \in Type : Schema[t].bulk =>
    /\ Schema[t].kind = "struct" => FlatStruct(t, Schema[t].raw)
    /\ Schema[t].kind \in { "slice", "array" } =>
         LET e == Schema[t].elems[1]
         IN  FixedSize(e) = Schema[t].raw \/ FlatStruct(e, Schema[t].raw)

IsSeq(v) == Len(v) \in Nat /\ v = [k \in 1 .. Len(v) |-> v[k]]

\* x has the shape of its type.
WellFormed(x) ==
  LET s == Schema[x.t]
      v == x.v
  IN  CASE s.kind \in { "fixed", "block" } -> v \in Seq(Nat) /\ Len(v) = s.size
        [] s.kind \in { "string", "bytes" } -> v \in Seq(Nat)
        [] s.kind = "slice" -> IsSeq(v)
        [] s.kind = "array" -> IsSeq(v) /\ Len(v) = s.size
        [] s.kind = "pointer" -> IsSeq(v) /\ Len(v) <= 1
        [] s.kind = "struct" -> IsSeq(v) /\ Len(v) = Len(s.elems)
        [] s.kind = "map" -> IsFiniteSet(v)
        [] s.kind = "union" -> v[1] \in Nat

\* What x consists of.
Parts(x) ==
  LET s == Schema[x.t]
      v == x.v
  IN  CASE s.kind \in { "slice", "array", "pointer" } -> { Item(s.elems[1], v[k]) : k \in 1 .. Len(v) }
        [] s.kind = "struct" -> { Item(s.elems[k], v[k]) : k \in 1 .. Len(v) }
        [] s.kind = "map" -> UNION { { Item(s.elems[1], p[1]), Item(s.elems[2], p[2]) } : p \in v }
        [] s.kind = "union" /\ v[1] \in DOMAIN s.elems -> { Item(s.elems[v[1]], v[2]) }
        [] OTHER -> {}

\* The values, with all they consist of, are finite trees; none has a part with
\* a hand-written codec.
Trees(Items, depth) ==
  /\ depth \in [Items -> Nat]
  /\ \A t \in Roots : \A v \in Values[t] : Item(t, v) \in Items
  /\ \A x \in Items :
       /\ x = Item(x.t, x.v) /\ x.t \in Type /\ WellFormed(x)
       /\ \A y \in Parts(x) : y \in Items /\ depth[y] < depth[x]

\* The prefix of x: its length, or its tag.
Count(x) ==
  LET s == Schema[x.t]
  IN  CASE s.kind \in { "string", "bytes", "slice" } -> Len(x.v)
        [] s.kind = "map" -> Cardinality(x.v)
        [] s.kind = "union" -> x.v[1]

\* Size counts the bytes of each prefix that is written.
PrefixesFit(Items) ==
  \A x \in Items :
    LET s == Schema[x.t]
        w == PutUvarint(Count(x))
    IN  /\ s.kind \in { "string", "bytes", "slice", "map" } =>
             w \in Seq(Nat) /\ SizeUvarint(Count(x)) = Len(w)
        /\ s.kind = "union" /\ Count(x) <= Len(s.elems) =>
             w \in Seq(Nat) /\ TagLen(Count(x)) = Len(w)

\* The hypotheses of EncoderProofs.
Encodable(Items, depth, rank) ==
  /\ Schemas /\ ArraysEnd(rank) /\ BlocksAreFlat
  /\ Trees(Items, depth) /\ PrefixesFit(Items)
=============================================================================
