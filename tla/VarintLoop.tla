----------------------------- MODULE VarintLoop -----------------------------
(***************************************************************************)
(* PutUvarint and Uvarint one loop iteration at a time, in the arithmetic  *)
(* of an unsigned word.  A behaviour either writes a word into a buffer of *)
(* UvarintSize bytes and reads it back, followed by bytes of another       *)
(* value, or reads a buffer of arbitrary bytes.  The word may be the       *)
(* zigzag of a signed integer, and the same buffer takes fixed-width words *)
(* behind what it holds.                                                   *)
(***************************************************************************)
EXTENDS Varint, Words

CONSTANT MaxLen   \* longest buffer of arbitrary bytes

ASSUME MaxLenAssumption == MaxLen \in Nat

ASSUME SameWord == WordSize = 2 * Half

VARIABLES
  v0,   \* the word given to PutUvarint, or -1 when none was
  v,    \* what PutUvarint has left of it
  buf,  \* b
  i,    \* the loop index of the running function
  x,    \* the word Uvarint collects
  put,  \* the count PutUvarint returned
  ret,  \* what Uvarint returned: n, the value, and c, the count
  pc    \* "put", "get", "done", "panic"

vars == <<v0, v, buf, i, x, put, ret, pc>>

Fill == 0   \* what make and earlier encodings leave in a buffer

Buffers == UNION { [1 .. n -> Byte] : n \in 0 .. MaxLen }

Init ==
  /\ \/ /\ v0 \in Word /\ v = v0
        /\ buf \in { [k \in 1 .. (UvarintSize(v0) + n) |-> Fill] : n \in 0 .. 1 }
        /\ pc = "put"
     \/ v0 = -1 /\ v = 0 /\ buf \in Buffers /\ pc = "get"
  /\ i = 0
  /\ x = 0
  /\ put = 0
  /\ ret = [n |-> 0, c |-> 0]

\* byte(v) | 0x80, and v >>= 7
PutMore ==
  /\ pc = "put" /\ v >= Cont
  /\ IF i >= Len(buf)
       THEN pc' = "panic" /\ UNCHANGED <<v, buf, i>>
       ELSE /\ buf' = [buf EXCEPT ![i + 1] = (v % Cont) + Cont]
            /\ v' = v \div Cont
            /\ i' = i + 1
            /\ UNCHANGED pc
  /\ UNCHANGED <<v0, x, put, ret>>

\* Mutant: a word that is exactly one group more is taken for the last group.
PutLastEarly ==
  /\ pc = "put" /\ v <= Cont
  /\ buf' = [buf EXCEPT ![i + 1] = v]
  /\ i' = 0
  /\ put' = i + 1
  /\ pc' = "get"
  /\ UNCHANGED <<v0, v, x, ret>>

PutLast ==
  /\ pc = "put" /\ v < Cont
  /\ IF i >= Len(buf)
       THEN pc' = "panic" /\ UNCHANGED <<buf, i, put>>
       ELSE /\ buf' = [buf EXCEPT ![i + 1] = v]
            /\ i' = 0
            /\ put' = i + 1
            /\ pc' = "get"
  /\ UNCHANGED <<v0, v, x, ret>>

\* x | uint64(c) << s: a shift drops what leaves the word, and the bits of c
\* are above those x has.
OrShifted(c) == (x + c * Power(Cont, i)) % WordSize

\* Mutant: the last byte of a full word may carry any payload.
OverflowsUnchecked(c) == i > LastIdx

Overflows(c) == i > LastIdx \/ (i = LastIdx /\ c > LastMax)

GetMore ==
  /\ pc = "get" /\ i < Len(buf) /\ buf[i + 1] >= Cont
  /\ x' = OrShifted(buf[i + 1] % Cont)
  /\ i' = i + 1
  /\ UNCHANGED <<v0, v, buf, put, ret, pc>>

GetLast ==
  /\ pc = "get" /\ i < Len(buf) /\ buf[i + 1] < Cont
  /\ ret' = IF Overflows(buf[i + 1])
              THEN [n |-> 0, c |-> -(i + 1)]
              ELSE [n |-> OrShifted(buf[i + 1]), c |-> i + 1]
  /\ pc' = "done"
  /\ UNCHANGED <<v0, v, buf, i, x, put>>

GetTruncated ==
  /\ pc = "get" /\ i = Len(buf)
  /\ ret' = [n |-> 0, c |-> 0]
  /\ pc' = "done"
  /\ UNCHANGED <<v0, v, buf, i, x, put>>

Next == PutMore \/ PutLast \/ GetMore \/ GetLast \/ GetTruncated

Spec == Init /\ [][Next]_vars

-----------------------------------------------------------------------------
\* UvarintSize bytes are enough for PutUvarint, which returns that count, and
\* what it wrote reads back as the same word from exactly those bytes, whatever
\* follows them.
RoundTrip ==
  /\ pc # "panic"
  /\ pc = "done" /\ v0 # -1 =>
       put = UvarintSize(v0) /\ ret = [n |-> v0, c |-> put]

\* Uvarint accepts exactly the byte sequences that are a word in base Cont,
\* and tells a truncated one from one that is too large.
ReadsAsDefined == pc = "done" => ret = Uvarint(buf)

\* The bytes are those AppendUvarint appends for the same word.
WritesAsAppend ==
  pc = "get" /\ v0 # -1 =>
    SubSeq(buf, 1, UvarintSize(v0)) = UvarintBytes(v0)

\* A signed integer comes back from the bytes of its zigzag as itself, the
\* smallest one included, whose zigzag is the largest word and whose negation
\* is no integer of the width.
SignedRoundTrip ==
  pc = "done" /\ v0 # -1 =>
    \E z \in Int64 : Zig(z) = v0 /\ Zag(ret.n) = z

\* Behind the bytes of buf, and at the front of a buffer with room for them.
ReadsBack(n, Add(_, _), Put(_, _), Read(_, _)) ==
  LET behind == Add(buf, v0)
      front == Put([j \in 1 .. n |-> Fill] \o buf, v0)
  IN  /\ v0 < Power(Base, n) => Read(behind, Len(buf)) = v0 /\ Read(front, 0) = v0
      /\ SubSeq(behind, 1, Len(buf)) = buf
      /\ SubSeq(front, n + 1, Len(front)) = buf

\* A word of two, four or eight bytes reads back as itself wherever it stands,
\* and neither appending it nor putting it changes the bytes around it.
LittleEndian ==
  pc = "done" /\ v0 # -1 =>
    /\ ReadsBack(2, AppendU16, PutU16, U16)
    /\ ReadsBack(4, AppendU32, PutU32, U32)
    /\ ReadsBack(8, AppendU64, PutU64, U64)
=============================================================================
