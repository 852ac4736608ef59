------------------------------- MODULE Varint -------------------------------
(***************************************************************************)
(* The unsigned LEB128 varint of codec/primitives.go as pure functions:    *)
(* what PutUvarint writes, what Uvarint reads back, and how many bytes     *)
(* UvarintSize reserves.  The decoder and encoder models take them from    *)
(* here; VarintLoop models the same functions one loop iteration at a time *)
(* and is checked against these definitions.                               *)
(*                                                                         *)
(* The code's constants are parameters, so that a whole word type can be   *)
(* enumerated: 0x80 is Cont, the index 9 of the last byte a 64-bit word    *)
(* may need is LastIdx, and the largest payload 1 of that byte is LastMax. *)
(***************************************************************************)
EXTENDS Integers, Sequences

CONSTANTS
  Cont,     \* the continuation bit of a byte as a number; 0x80 in the code
  LastIdx,  \* index of the last byte of a full word; 9 in the code
  LastMax   \* largest payload of that last byte; 1 in the code

\* b^n; a shift by n bits multiplies or divides by Power(2, n).
Power(b, n) ==
  LET p[k \in Nat] == IF k = 0 THEN 1 ELSE b * p[k - 1]
  IN  p[n]

ASSUME VarintParameters ==
  /\ Cont \in Nat /\ \E bits \in 1 .. Cont : Cont = Power(2, bits)
  /\ LastIdx \in Nat \ { 0 }
  /\ LastMax \in 0 .. (Cont - 1)

WordSize == Power(Cont, LastIdx) * (LastMax + 1)    \* 2^64 in the code

Word == 0 .. (WordSize - 1)

Byte == 0 .. (2 * Cont - 1)

\* A byte without the continuation bit ends a varint.
Ends(s) == { k \in 1 .. Len(s) : s[k] < Cont }

FirstEnd(s) == CHOOSE k \in Ends(s) : \A j \in Ends(s) : k <= j

\* Little-endian groups: byte j of the varint carries digit j - 1 in base Cont.
Payload(s, k) ==
  LET sum[j \in 0 .. k] ==
        IF j = 0 THEN 0 ELSE sum[j - 1] + (s[j] % Cont) * Power(Cont, j - 1)
  IN  sum[k]

\* The value and the byte count Uvarint returns for the slice s.  The count
\* is 0 when s ends inside the varint and negative when the value overflows.
Uvarint(s) ==
  IF Ends(s) = {}
    THEN [n |-> 0, c |-> 0]
    ELSE LET k == FirstEnd(s)
         IN  IF k - 1 > LastIdx \/ (k - 1 = LastIdx /\ s[k] > LastMax)
               THEN [n |-> 0, c |-> -k]
               ELSE [n |-> Payload(s, k), c |-> k]

\* Bits needed for v, as math/bits.Len64 counts them.
BitLen(v) == CHOOSE n \in 0 .. WordSize : Power(2, n) > v /\ (n > 0 => Power(2, n - 1) <= v)

\* bits.Len64(v|1) rounded up to whole groups; GroupBits is 7 in the code.
GroupBits == BitLen(Cont - 1)

UvarintSize(v) ==
  (BitLen(IF v % 2 = 0 THEN v + 1 ELSE v) + GroupBits - 1) \div GroupBits

\* The width the generator computes for a constant tag by counting its groups.
UvarintLen(v) ==
  LET width[n \in Nat] == IF n >= Cont THEN 1 + width[n \div Cont] ELSE 1
  IN  width[v]

\* The bytes PutUvarint and AppendUvarint produce: UvarintSize(v) groups, all
\* but the last with the continuation bit.
UvarintBytes(v) ==
  LET groups == { k \in 1 .. (LastIdx + 1) : Power(Cont, k) > v }
      n      == CHOOSE k \in groups : \A j \in groups : k <= j
  IN  [j \in 1 .. n |-> ((v \div Power(Cont, j - 1)) % Cont) + (IF j < n THEN Cont ELSE 0)]
=============================================================================
