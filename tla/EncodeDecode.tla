---------------------------- MODULE EncodeDecode ----------------------------
(***************************************************************************)
(* Size, Marshal and Append of a value, and Unmarshal, in the same mode,   *)
(* of what Marshal wrote, with or without the bytes behind it, or of what  *)
(* Append appended.  Two history variables record what each side says of   *)
(* the value: the bytes of every basic, string and block of memory, and    *)
(* every count, tag and nil flag, in the order they are written and read.  *)
(***************************************************************************)
EXTENDS Integers, Sequences, FiniteSets

CONSTANTS
  Type, Schema, Roots, Values, MaxInt, Fill, Spare, Before,
  PutUvarint(_), SizeUvarint(_), TagLen(_), ReadUvarint(_),
  Sized,     \* the roots whose elements all have a byte: the others are left
             \* out in safe mode, which may refuse them
  Template   \* a root with the fields of codec.Record, uint64 and uint32 of
             \* W64 and W32 bytes

ASSUME FillAssumption == Fill \in Nat
ASSUME SpareAssumption == Spare \in Nat
ASSUME BeforeAssumption == Before \subseteq Seq(Nat)

VARIABLES
  safe,     \* the mode of the package
  root, val, pass, todo, size, buf, i, out, before,
  in, base, off, left, callers, phase, err, made, raised,
  written,     \* history: what Marshal, or Append, last wrote of the value
  marshalled,  \* history: what Marshal wrote, once Append is called
  read         \* history: what Unmarshal read of it

encoder == <<val, pass, todo, size, buf, i, out, before>>
decoder == <<in, base, off, left, callers, phase, err, made, raised>>
vars == <<safe, root, encoder, decoder, written, marshalled, read>>

Enc == INSTANCE Encoder WITH Safe <- TRUE
EncFast == INSTANCE Encoder WITH Safe <- FALSE

Dec == INSTANCE Decoder WITH Safe <- TRUE, todo <- left, Input <- {}
DecFast == INSTANCE Decoder WITH Safe <- FALSE, todo <- left, Input <- {}

\* As in Decoder.
ASSUME DecoderAssumption ==
  Dec!MaxIntAssumption /\ Dec!SchemaAssumption /\ Dec!RootsAssumption

Reference == INSTANCE Record WITH
  W64 <- Schema[Schema[Template].elems[1]].size,
  W32 <- Schema[Schema[Schema[Template].elems[5]].elems[1]].size

Idle ==
  /\ in = [data |-> <<>>, len |-> 0]
  /\ base = 0 /\ off = 0 /\ left = <<>> /\ callers = <<>>
  /\ phase = "idle" /\ err = Dec!NoErr /\ made = 0 /\ raised = Dec!NoErr

Init ==
  /\ Enc!Init
  /\ safe \in BOOLEAN
  /\ safe => root \in Sized
  /\ Idle
  /\ written = <<>> /\ marshalled = <<>> /\ read = <<>>

EncBulk == ~safe /\ Enc!This.bulk
DecBulk == ~safe /\ Dec!This.bulk

\* What the next step of Marshal or Append writes of the value.
Writes ==
  IF todo = <<>> THEN <<>> ELSE
  LET v == Enc!Val
  IN  CASE Enc!This.kind \in { "fixed", "block", "string", "bytes" } -> <<v>>
        [] Enc!This.kind = "slice" ->
             << <<Len(v)>> >> \o (IF EncBulk /\ v # <<>> THEN <<Enc!Memory>> ELSE <<>>)
        [] Enc!This.kind = "array" ->
             IF EncBulk /\ Len(v) > 0 THEN <<Enc!Memory>> ELSE <<>>
        [] Enc!This.kind = "struct" -> IF EncBulk THEN <<Enc!Memory>> ELSE <<>>
        [] Enc!This.kind = "pointer" -> << <<Len(v)>> >>
        [] Enc!This.kind = "map" -> << <<Cardinality(v)>> >>
        [] Enc!This.kind = "union" -> << <<v[1]>> >>

\* What a step of Unmarshal that leaves i at j reads of it.
Reads(j) ==
  IF left = <<>> THEN <<>> ELSE
  LET Between(a) == SubSeq(in.data, a + 1, j)
      kind == Dec!This.kind
  IN  CASE kind \in { "fixed", "block" } -> <<Between(off)>>
        [] kind \in { "string", "bytes" } -> <<Between(Dec!AfterPrefix)>>
        [] kind = "slice" ->
             << <<Dec!Prefix.n>> >> \o
             (IF DecBulk /\ Dec!Prefix.n > 0 THEN <<Between(Dec!AfterPrefix)>> ELSE <<>>)
        [] kind = "array" -> IF DecBulk /\ Dec!This.size > 0 THEN <<Between(off)>> ELSE <<>>
        [] kind = "struct" -> IF DecBulk THEN <<Between(off)>> ELSE <<>>
        [] kind = "pointer" -> << <<IF in.data[off + 1] # 0 THEN 1 ELSE 0>> >>
        [] kind \in { "map", "union" } -> << <<Dec!Prefix.n>> >>

Encode ==
  /\ phase = "idle"
  /\ \/ safe /\ Enc!Next
     \/ ~safe /\ EncFast!Next
  /\ written' = CASE pass = "size" -> <<>>
                  [] pass = "marshal" /\ pass' = "append" -> <<>>
                  [] OTHER -> written \o Writes
  /\ marshalled' = IF pass = "marshal" /\ pass' = "append" THEN written ELSE marshalled
  /\ UNCHANGED <<safe, decoder, read>>

Give(bytes, len) ==
  /\ phase = "idle"
  /\ in' = [data |-> bytes, len |-> len]
  /\ left' = <<root>>
  /\ phase' = "run"
  /\ UNCHANGED <<safe, root, encoder, base, off, callers, err, made, raised,
                 written, marshalled, read>>

\* Unmarshal is given a slice of Marshal's buffer, the whole of it or not.
DeliverMarshalled ==
  /\ pass = "marshal" /\ todo = <<>> /\ Len(buf) >= size
  /\ \E n \in size .. Len(buf) : Give(buf, n)

\* Unmarshal is given what Append has appended.
DeliverAppended ==
  /\ pass = "done"
  /\ LET appended == SubSeq(out, Len(before) + 1, Len(out))
     IN  Give(appended, Len(appended))

Decode ==
  /\ phase \in { "run", "failed" }
  /\ \/ safe /\ Dec!Next
     \/ ~safe /\ DecFast!Next
  /\ read' = IF phase = "run" /\ phase' = "run" THEN read \o Reads(off') ELSE read
  /\ UNCHANGED <<safe, encoder, written, marshalled>>

Next == Encode \/ DeliverMarshalled \/ DeliverAppended \/ Decode

Spec == Init /\ [][Next]_vars

-----------------------------------------------------------------------------
\* Every value of a supported type survives the round trip: Unmarshal of what
\* Marshal or Append wrote returns no error and Size bytes, and reads, part by
\* part, the value that was written (a nil slice or map for an empty one).
RoundTrip ==
  /\ phase # "panic"
  /\ phase = "done" => err = Dec!NoErr /\ off = size /\ read = written

\* The properties of Encoder.
SizeExact == Enc!SizeExact
NoPanicInSize == Enc!NoPanicInSize
WritesInPlace == Enc!WritesInPlace
AppendsSize == Enc!AppendsSize

\* Append writes the same bytes as Marshal whenever it happens to visit the
\* maps of the value in the same order.
SameOrderSameBytes == written = marshalled => Enc!AppendMatchesMarshal

\* "goserdegen emits a codec shaped exactly like" that of codec.Record: for a
\* struct with its fields, fast mode's methods return what Record's return,
\* with every buffer given to Marshal.
LikeTheTemplate ==
  root = Template /\ ~safe =>
    LET marshal == Reference!Marshal(val, [k \in DOMAIN buf |-> Fill])
        unmarshal == Reference!Unmarshal(in.data)
    IN  /\ pass # "size" => size = Reference!Size(val)
        /\ pass = "panic" => marshal.panic
        /\ Enc!Marshalled => ~marshal.panic /\ i = marshal.i /\ buf = marshal.b
        /\ pass = "done" => out = Reference!AppendTo(val, before)
        /\ phase = "done" => off = unmarshal.count /\ read = unmarshal.parts

-----------------------------------------------------------------------------
(***************************************************************************)
(* The terms of what RoundTripProofs says.                                 *)
(***************************************************************************)
\* Every prefix that is written reads back as the count it was written for, a
\* length of a Go value, from exactly its bytes, whichever of Tails follow them.
PrefixesRead(Items, Tails) ==
  \A x \in Items :
    LET s == Schema[x.t]
        n == Enc!Count(x)
        w == PutUvarint(n)
    IN  s.kind \in { "string", "bytes", "slice", "map" } \/ (s.kind = "union" /\ n <= Len(s.elems)) =>
          /\ n <= MaxInt /\ w # <<>>
          /\ \A more \in Tails : ReadUvarint(w \o more) = [n |-> n, c |-> Len(w)]

\* A value of a type in B takes a byte at least.
TakesByte(B) ==
  \A t \in B :
    LET s == Schema[t]
    IN  /\ s.kind # "owned"
        /\ s.kind \in { "fixed", "block" } => s.size > 0
        /\ s.kind = "array" => s.size > 0 /\ s.elems[1] \in B
        /\ s.kind = "struct" => \E k \in DOMAIN s.elems : s.elems[k] \in B

\* The roots of safe mode are of types in R: each element of a slice and each key
\* of a map takes a byte, so that no length goes beyond the bytes that follow.
LengthsFit(R, B) ==
  /\ Sized \subseteq R /\ R \subseteq Type /\ TakesByte(B)
  /\ \A t \in R :
       /\ \A k \in DOMAIN Schema[t].elems : Schema[t].elems[k] \in R
       /\ Schema[t].kind \in { "slice", "map" } => Schema[t].elems[1] \in B
=============================================================================
