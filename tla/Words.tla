------------------------------- MODULE Words -------------------------------
(***************************************************************************)
(* The primitives of codec/primitives.go besides the varint: the zigzag    *)
(* transform of signed integers, and words as little-endian bytes.         *)
(***************************************************************************)
EXTENDS Integers, Sequences

CONSTANTS
  Half,  \* 2^63, the size of the half of a uint64 that an int64 has too
  Base   \* 256, the values of a byte

ASSUME WordsParameters ==
  /\ Half \in Nat \ { 0 }
  /\ Base \in Nat \ { 0 }

Int64 == -Half .. (Half - 1)

Uint64 == 0 .. (2 * Half - 1)

ToUint64(n) == IF n < 0 THEN n + 2 * Half ELSE n

ToInt64(n) == IF n >= Half THEN n - 2 * Half ELSE n

\* v << 1 drops the bit that leaves the word.
ShiftLeft(v) == ToInt64((2 * ToUint64(v)) % (2 * Half))

\* x ^ -1, which is x ^ (v >> 63) for a negative v and x ^ -int64(1)
Complement(x) == -1 - x

Zig(v) == ToUint64(IF v < 0 THEN Complement(ShiftLeft(v)) ELSE ShiftLeft(v))

\* Mutant: the shift is that of a signed integer.
ZagSigned(v) ==
  LET half == ToInt64(v) \div 2
  IN  IF v % 2 = 1 THEN Complement(half) ELSE half

Zag(v) ==
  LET half == ToInt64(v \div 2)
  IN  IF v % 2 = 1 THEN Complement(half) ELSE half

-----------------------------------------------------------------------------
(***************************************************************************)
(* Words as little-endian bytes.  A shift by 8 * n bits divides or         *)
(* multiplies by Bn; each function writes its own shifts out.              *)
(***************************************************************************)
B1 == Base
B2 == Base * B1
B3 == Base * B2
B4 == Base * B3
B5 == Base * B4
B6 == Base * B5
B7 == Base * B6

\* byte(v)
Low(v) == v % Base

\* At b[0:], which has room for them.
PutU16(b, v) == [b EXCEPT ![1] = Low(v), ![2] = Low(v \div B1)]

PutU32(b, v) ==
  [b EXCEPT ![1] = Low(v), ![2] = Low(v \div B1),
            ![3] = Low(v \div B2), ![4] = Low(v \div B3)]

PutU64(b, v) ==
  [b EXCEPT ![1] = Low(v), ![2] = Low(v \div B1),
            ![3] = Low(v \div B2), ![4] = Low(v \div B3),
            ![5] = Low(v \div B4), ![6] = Low(v \div B5),
            ![7] = Low(v \div B6), ![8] = Low(v \div B7)]

AppendU16(b, v) == b \o <<Low(v), Low(v \div B1)>>

\* Mutant: one shift is 24 where it should be 16.
AppendU32Shifted(b, v) ==
  b \o <<Low(v), Low(v \div B1), Low(v \div B3), Low(v \div B3)>>

AppendU32(b, v) ==
  b \o <<Low(v), Low(v \div B1), Low(v \div B2), Low(v \div B3)>>

AppendU64(b, v) ==
  b \o <<Low(v), Low(v \div B1), Low(v \div B2), Low(v \div B3),
         Low(v \div B4), Low(v \div B5), Low(v \div B6), Low(v \div B7)>>

\* What U16, U32 and U64 read of the bytes from o on.
U16(b, o) == b[o + 1] + B1 * b[o + 2]

U32(b, o) == b[o + 1] + B1 * b[o + 2] + B2 * b[o + 3] + B3 * b[o + 4]

U64(b, o) ==
  b[o + 1] + B1 * b[o + 2] + B2 * b[o + 3] + B3 * b[o + 4]
    + B4 * b[o + 5] + B5 * b[o + 6] + B6 * b[o + 7] + B7 * b[o + 8]
=============================================================================
