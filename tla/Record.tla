------------------------------- MODULE Record -------------------------------
(***************************************************************************)
(* The hand-written codec of codec.Record, the template of the generator:  *)
(* what its four methods return.  A record is given as in Encoder, by its  *)
(* fields in order: ID, Score and Active as bytes, Name as bytes, Tags as  *)
(* the bytes of each element, Blob as bytes.                               *)
(***************************************************************************)
EXTENDS Integers, Sequences, SequencesExt

CONSTANTS
  W64, W32,        \* bytes of a uint64 or float64, and of a uint32
  PutUvarint(_), SizeUvarint(_), ReadUvarint(_)  \* as in Encoder and Decoder

Name(r) == r[4]
Tags(r) == r[5]
Blob(r) == r[6]

\* ID, Score and Active
Fixed == W64 + W64 + 1

\* Mutant: the tags are counted, their bytes are not.
SizeOfCounts(r) ==
  Fixed + SizeUvarint(Len(Name(r))) + Len(Name(r))
        + SizeUvarint(Len(Tags(r))) + Len(Tags(r))
        + SizeUvarint(Len(Blob(r))) + Len(Blob(r))

Size(r) ==
  Fixed + SizeUvarint(Len(Name(r))) + Len(Name(r))
        + SizeUvarint(Len(Tags(r))) + W32 * Len(Tags(r))
        + SizeUvarint(Len(Blob(r))) + Len(Blob(r))

\* b[i:] takes bytes by index or PutU64 or PutUvarint, and panics without room,
\* or by copy, which stops where b ends.
Start(b) == [b |-> b, i |-> 0, panic |-> FALSE]

Over(b, o, bytes) ==
  [k \in DOMAIN b |-> IF k \in (o + 1) .. (o + Len(bytes)) THEN bytes[k - o] ELSE b[k]]

Put(s, bytes) ==
  IF s.panic \/ s.i + Len(bytes) > Len(s.b) THEN [s EXCEPT !.panic = TRUE]
  ELSE [s EXCEPT !.b = Over(@, s.i, bytes), !.i = @ + Len(bytes)]

CopyIn(s, bytes) ==
  LET room == Len(s.b) - s.i
      n == IF Len(bytes) <= room THEN Len(bytes) ELSE room
  IN  IF s.panic THEN s ELSE Put(s, SubSeq(bytes, 1, n))

Prefixed(s, n, bytes) == CopyIn(Put(s, PutUvarint(n)), bytes)

Marshal(r, b) ==
  LET fixed == Put(Put(Put(Start(b), r[1]), r[2]), r[3])
      name == Prefixed(fixed, Len(Name(r)), Name(r))
      tags == Prefixed(name, Len(Tags(r)), FlattenSeq(Tags(r)))
  IN  Prefixed(tags, Len(Blob(r)), Blob(r))

AppendTo(r, b) ==
  b \o r[1] \o r[2] \o r[3]
    \o PutUvarint(Len(Name(r))) \o Name(r)
    \o PutUvarint(Len(Tags(r))) \o FlattenSeq(Tags(r))
    \o PutUvarint(Len(Blob(r))) \o Blob(r)

\* What is read of a complete encoding, part by part, and the count returned.
Unmarshal(b) ==
  LET At(o, n) == SubSeq(b, o + 1, o + n)
      Prefix(o) == ReadUvarint(SubSeq(b, o + 1, Len(b)))
      name == Prefix(Fixed)
      nameAt == Fixed + name.c
      tags == Prefix(nameAt + name.n)
      tagsAt == nameAt + name.n + tags.c
      blob == Prefix(tagsAt + W32 * tags.n)
      blobAt == tagsAt + W32 * tags.n + blob.c
  IN  [parts |-> <<At(0, W64), At(W64, W64), At(2 * W64, 1),
                   At(nameAt, name.n), <<tags.n>>>>
                 \o (IF tags.n = 0 THEN <<>> ELSE <<At(tagsAt, W32 * tags.n)>>)
                 \o <<At(blobAt, blob.n)>>,
       count |-> blobAt + blob.n]
=============================================================================
