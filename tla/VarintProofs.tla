---------------------------- MODULE VarintProofs ----------------------------
(***************************************************************************)
(* The varint, the zigzag transform and the little-endian words are        *)
(* lossless, and the varint's reader and writer are the functions Varint   *)
(* defines, for every size of a byte and of a word.                        *)
(***************************************************************************)
EXTENDS VarintLoop, WellFoundedInduction, SequenceTheorems, TLAPS

-----------------------------------------------------------------------------
(***************************************************************************)
(* The zigzag transform and the little-endian words.                       *)
(***************************************************************************)

LEMMA ShiftLeftIs ==
  ASSUME NEW u \in Int64
  PROVE  /\ u >= 0 /\ 2 * u < Half => ShiftLeft(u) = 2 * u
         /\ u >= 0 /\ 2 * u >= Half => ShiftLeft(u) = 2 * u - 2 * Half
         /\ u < 0 /\ 2 * u >= -Half => ShiftLeft(u) = 2 * u
         /\ u < 0 /\ 2 * u < -Half => ShiftLeft(u) = 2 * u + 2 * Half
  <1> DEFINE w == 2 * Half
  <1>1. Half \in Nat /\ Half > 0 /\ u \in Int /\ -Half <= u /\ u < Half
    BY WordsParameters DEF Int64
  <1>2. CASE u >= 0
    <2>1. (2 * u) % w = 2 * u
      BY <1>1, <1>2
    <2> QED
      BY <1>1, <1>2, <2>1 DEF ShiftLeft, ToUint64, ToInt64
  <1>3. CASE u < 0
    <2>1. (2 * (u + w)) % w = 2 * u + w
      BY <1>1, <1>3
    <2> QED
      BY <1>1, <1>3, <2>1 DEF ShiftLeft, ToUint64, ToInt64
  <1> QED
    BY <1>1, <1>2, <1>3

\* What Zig comes to without the shifts: 0, -1, 1, -2, ... are numbered from 0.
LEMMA ZigIs ==
  ASSUME NEW u \in Int64
  PROVE  Zig(u) = IF u < 0 THEN -2 * u - 1 ELSE 2 * u
  BY ShiftLeftIs, WordsParameters DEF Zig, Complement, ToUint64, Int64

\* "It is the inverse of Zag", for every int64, the smallest one included,
\* and the larger the magnitude the larger the word.
THEOREM ZigZagInverse ==
  ASSUME NEW u \in Int64
  PROVE  /\ Zig(u) \in Uint64
         /\ Zag(Zig(u)) = u
  <1>1. Half \in Nat /\ Half > 0 /\ u \in Int /\ -Half <= u /\ u < Half
    BY WordsParameters DEF Int64
  <1>2. CASE u >= 0
    <2>1. Zig(u) = 2 * u
      BY <1>1, <1>2, ZigIs
    <2> QED
      BY <1>1, <1>2, <2>1 DEF Zag, ToInt64, Uint64
  <1>3. CASE u < 0
    <2>1. Zig(u) = -2 * u - 1
      BY <1>1, <1>3, ZigIs
    <2>2. Zig(u) \div 2 = -u - 1 /\ Zig(u) % 2 = 1
      BY <1>1, <1>3, <2>1
    <2> QED
      BY <1>1, <1>3, <2>1, <2>2 DEF Zag, ToInt64, Uint64, Complement
  <1> QED
    BY <1>1, <1>2, <1>3

-----------------------------------------------------------------------------
(***************************************************************************)
(* A word of four or eight bytes is two words of half as many: its bytes   *)
(* are theirs, and what is read of it is read of them.                     *)
(***************************************************************************)
Rest(w) == w \div Base

Bytes16(w) == <<Low(w), Low(Rest(w))>>
Bytes32(w) == Bytes16(w) \o Bytes16(Rest(Rest(w)))
Bytes64(w) == Bytes32(w) \o Bytes32(Rest(Rest(Rest(Rest(w)))))

PutAt(b, bytes) == bytes \o SubSeq(b, Len(bytes) + 1, Len(b))
AppendTo(b, bytes) == b \o bytes

LEMMA LowAndRest ==
  ASSUME NEW u \in Nat
  PROVE  /\ Low(u) \in Nat /\ Rest(u) \in Nat
         /\ u = Low(u) + Base * Rest(u)
  BY WordsParameters DEF Low, Rest

LEMMA DivUnique ==
  ASSUME NEW a \in Nat, NEW g \in Nat, g > 0, NEW q \in Nat,
         g * q <= a, a < g * q + g
  PROVE  a \div g = q
  OBVIOUS

LEMMA RestOf ==
  ASSUME NEW u \in Nat, NEW m \in Nat, m > 0
  PROVE  u \div (Base * m) = Rest(u \div m)
  <1> DEFINE q == u \div m
             t == Rest(q)
             l == Low(q)
             k == u % m
  <1>0. Base \in Nat /\ Base > 0
    BY WordsParameters
  <1>1. q \in Nat /\ k \in Nat /\ k < m /\ u = m * q + k
    OBVIOUS
  <1>2. t \in Nat /\ l \in Nat /\ l < Base /\ q = l + Base * t
    <2> HIDE DEF q
    <2>1. t \in Nat /\ l \in Nat /\ q = l + Base * t
      BY <1>1, LowAndRest
    <2>2. l < Base
      BY <1>0, <1>1 DEF Low
    <2> QED
      BY <2>1, <2>2
  <1> HIDE DEF q, t, l, k
  <1>3. Base * m \in Nat /\ Base * m > 0
    BY <1>0
  <1>4. u = (Base * m) * t + (m * l + k)
    <2>1. m * (l + Base * t) = m * l + (Base * m) * t
      BY <1>0, <1>2
    <2>2. m * q = m * l + (Base * m) * t
      BY <1>2, <2>1, Zenon
    <2> DEFINE z == m * l
               y == (Base * m) * t
    <2>3. z \in Nat /\ y \in Nat /\ u = (z + y) + k
      BY <1>0, <1>1, <1>2, <2>2
    <2> HIDE DEF z, y
    <2>4. u = y + (z + k)
      BY <1>1, <2>3
    <2> QED
      BY <2>4 DEF z, y
  <1>5. 0 <= m * l + k /\ m * l + k < Base * m
    <2>1. l + 1 <= Base
      BY <1>0, <1>2
    <2>2. m * (l + 1) <= m * Base
      BY <1>0, <1>2, <2>1
    <2>3. m * (l + 1) = m * l + m /\ m * Base = Base * m
      BY <1>0, <1>2
    <2> DEFINE z == m * l
               y == Base * m
    <2>4. z \in Nat /\ y \in Nat /\ z + m <= y
      BY <1>0, <1>2, <2>2, <2>3
    <2> HIDE DEF z, y
    <2>5. 0 <= z + k /\ z + k < y
      BY <1>1, <2>4
    <2> QED
      BY <2>5 DEF z, y
  <1>6. u \div (Base * m) = t
    <2> DEFINE g == Base * m
               d == m * l + k
    <2>1. g \in Nat /\ g > 0 /\ d \in Nat /\ d < g /\ u = g * t + d
      BY <1>1, <1>2, <1>3, <1>4, <1>5
    <2> HIDE DEF g, d
    <2>2. g * t <= u /\ u < g * t + g
      BY <1>2, <2>1
    <2>3. u \div g = t
      BY <1>2, <2>1, <2>2, DivUnique
    <2> QED
      BY <2>3 DEF g
  <1> QED
    BY <1>6 DEF q, t

\* The shifts the functions write out, byte after byte.
LEMMA ShiftsAre ==
  ASSUME NEW u \in Nat
  PROVE  /\ u \div B1 = Rest(u)
         /\ u \div B2 = Rest(Rest(u))
         /\ u \div B3 = Rest(Rest(Rest(u)))
         /\ u \div B4 = Rest(Rest(Rest(Rest(u))))
         /\ u \div B5 = Rest(Rest(Rest(Rest(Rest(u)))))
         /\ u \div B6 = Rest(Rest(Rest(Rest(Rest(Rest(u))))))
         /\ u \div B7 = Rest(Rest(Rest(Rest(Rest(Rest(Rest(u)))))))
  <1>1. B1 \in Nat /\ B1 > 0 /\ u \div B1 = Rest(u)
    BY WordsParameters DEF B1, Rest
  <1>2. ASSUME NEW m \in Nat, m > 0
        PROVE  /\ Base * m \in Nat /\ Base * m > 0
               /\ u \div (Base * m) = Rest(u \div m)
    <2>1. u \div (Base * m) = Rest(u \div m)
      BY <1>2, RestOf
    <2>2. Base * m \in Nat /\ Base * m > 0
      BY <1>2, WordsParameters
    <2> QED
      BY <2>1, <2>2
  <1>3. B2 \in Nat /\ B2 > 0 /\ u \div B2 = Rest(u \div B1)
    BY <1>1, <1>2, Zenon DEF B2
  <1>4. B3 \in Nat /\ B3 > 0 /\ u \div B3 = Rest(u \div B2)
    BY <1>2, <1>3, Zenon DEF B3
  <1>5. B4 \in Nat /\ B4 > 0 /\ u \div B4 = Rest(u \div B3)
    BY <1>2, <1>4, Zenon DEF B4
  <1>6. B5 \in Nat /\ B5 > 0 /\ u \div B5 = Rest(u \div B4)
    BY <1>2, <1>5, Zenon DEF B5
  <1>7. B6 \in Nat /\ B6 > 0 /\ u \div B6 = Rest(u \div B5)
    BY <1>2, <1>6, Zenon DEF B6
  <1>8. u \div B7 = Rest(u \div B6)
    BY <1>2, <1>7, Zenon DEF B7
  <1> QED
    BY <1>1, <1>3, <1>4, <1>5, <1>6, <1>7, <1>8, Zenon

\* A word of one byte less is left.
LEMMA RestBelow ==
  ASSUME NEW u \in Nat, NEW m \in Nat, u < Base * m
  PROVE  Rest(u) < m
  <1>1. Base * Rest(u) < Base * m
    BY LowAndRest, WordsParameters
  <1> QED
    BY <1>1, LowAndRest, WordsParameters

LEMMA Joined ==
  ASSUME NEW z \in Seq(Nat), NEW y \in Seq(Nat)
  PROVE  /\ z \o y \in Seq(Nat) /\ Len(z \o y) = Len(z) + Len(y)
         /\ \A k \in 1 .. Len(z) : k \in 1 .. Len(z \o y) /\ (z \o y)[k] = z[k]
         /\ \A k \in 1 .. Len(y) : /\ Len(z) + k \in 1 .. Len(z \o y)
                                   /\ (z \o y)[Len(z) + k] = y[k]
  OBVIOUS

LEMMA BytesAre ==
  ASSUME NEW u \in Nat
  PROVE  /\ Bytes16(u) \in Seq(Nat) /\ Len(Bytes16(u)) = 2
         /\ Bytes16(u)[1] = Low(u) /\ Bytes16(u)[2] = Low(Rest(u))
         /\ Bytes32(u) \in Seq(Nat) /\ Len(Bytes32(u)) = 4
         /\ Bytes64(u) \in Seq(Nat) /\ Len(Bytes64(u)) = 8
  <1>1. \A w \in Nat : Low(w) \in Nat /\ Rest(w) \in Nat
    BY LowAndRest
  <1>2. \A w \in Nat : /\ Bytes16(w) \in Seq(Nat) /\ Len(Bytes16(w)) = 2
                       /\ Bytes16(w)[1] = Low(w) /\ Bytes16(w)[2] = Low(Rest(w))
    BY <1>1 DEF Bytes16
  <1>3. \A w \in Nat : Bytes32(w) \in Seq(Nat) /\ Len(Bytes32(w)) = 4
    <2>1. TAKE w \in Nat
    <2>2. Rest(Rest(w)) \in Nat
      BY <1>1
    <2>3. /\ Bytes16(w) \in Seq(Nat) /\ Len(Bytes16(w)) = 2
          /\ Bytes16(Rest(Rest(w))) \in Seq(Nat)
          /\ Len(Bytes16(Rest(Rest(w)))) = 2
      BY <1>2, <2>2
    <2> QED
      <3> DEFINE z == Bytes16(w)
                 y == Bytes16(Rest(Rest(w)))
      <3> HIDE DEF z, y
      <3>1. z \in Seq(Nat) /\ Len(z) = 2 /\ y \in Seq(Nat) /\ Len(y) = 2
        BY <2>3 DEF z, y
      <3>2. z \o y \in Seq(Nat) /\ Len(z \o y) = 4
        <4>1. \A p, q \in Seq(Nat) :
                p \o q \in Seq(Nat) /\ Len(p \o q) = Len(p) + Len(q)
          BY Joined
        <4>2. z \o y \in Seq(Nat) /\ Len(z \o y) = Len(z) + Len(y)
          BY <3>1, <4>1, Zenon
        <4> QED
          BY <3>1, <4>2
      <3> QED
        BY <3>2 DEF Bytes32, z, y
  <1>4. Rest(Rest(Rest(Rest(u)))) \in Nat
    BY <1>1
  <1>5. Bytes64(u) \in Seq(Nat) /\ Len(Bytes64(u)) = 8
    <2>1. /\ Bytes32(u) \in Seq(Nat) /\ Len(Bytes32(u)) = 4
          /\ Bytes32(Rest(Rest(Rest(Rest(u))))) \in Seq(Nat)
          /\ Len(Bytes32(Rest(Rest(Rest(Rest(u)))))) = 4
      BY <1>3, <1>4
    <2> QED
      <3> DEFINE z == Bytes32(u)
                 y == Bytes32(Rest(Rest(Rest(Rest(u)))))
      <3> HIDE DEF z, y
      <3>1. z \in Seq(Nat) /\ Len(z) = 4 /\ y \in Seq(Nat) /\ Len(y) = 4
        BY <2>1 DEF z, y
      <3>2. z \o y \in Seq(Nat) /\ Len(z \o y) = 8
        <4>1. \A p, q \in Seq(Nat) :
                p \o q \in Seq(Nat) /\ Len(p \o q) = Len(p) + Len(q)
          BY Joined
        <4>2. z \o y \in Seq(Nat) /\ Len(z \o y) = Len(z) + Len(y)
          BY <3>1, <4>1, Zenon
        <4> QED
          BY <3>1, <4>2
      <3> QED
        BY <3>2 DEF Bytes64, z, y
  <1> QED
    BY <1>2, <1>3, <1>5

LEMMA JoinedFour ==
  ASSUME NEW a \in Nat, NEW b \in Nat, NEW c \in Nat, NEW d \in Nat
  PROVE  <<a, b>> \o <<c, d>> = <<a, b, c, d>>
  <1> DEFINE z == <<a, b>>
             y == <<c, d>>
             s == z \o y
             t == <<a, b, c, d>>
  <1>1. /\ z \in Seq(Nat) /\ Len(z) = 2 /\ z[1] = a /\ z[2] = b
        /\ y \in Seq(Nat) /\ Len(y) = 2 /\ y[1] = c /\ y[2] = d
        /\ t \in Seq(Nat) /\ Len(t) = 4
        /\ t[1] = a /\ t[2] = b /\ t[3] = c /\ t[4] = d
    OBVIOUS
  <1> HIDE DEF z, y, t
  <1>2. /\ s \in Seq(Nat) /\ Len(s) = Len(z) + Len(y)
        /\ \A k \in 1 .. Len(z) : s[k] = z[k]
        /\ \A k \in 1 .. Len(y) : s[Len(z) + k] = y[k]
    BY <1>1, Joined
  <1> HIDE DEF s
  <1>3. Len(s) = 4 /\ s[1] = a /\ s[2] = b /\ s[3] = c /\ s[4] = d
    <2>1. s[2 + 1] = c /\ s[2 + 2] = d
      BY <1>1, <1>2
    <2> QED
      BY <1>1, <1>2, <2>1
  <1>4. \A k \in 1 .. Len(s) : s[k] = t[k]
    BY <1>1, <1>3
  <1>5. s = t
    BY <1>1, <1>2, <1>3, <1>4, SeqEqual
  <1> QED
    BY <1>5 DEF s, z, y, t

LEMMA JoinedEight ==
  ASSUME NEW z \in Seq(Nat), NEW y \in Seq(Nat), Len(z) = 4, Len(y) = 4
  PROVE  z \o y = <<z[1], z[2], z[3], z[4], y[1], y[2], y[3], y[4]>>
  <1> DEFINE s == z \o y
             t == <<z[1], z[2], z[3], z[4], y[1], y[2], y[3], y[4]>>
  <1>0. /\ z[1] \in Nat /\ z[2] \in Nat /\ z[3] \in Nat /\ z[4] \in Nat
        /\ y[1] \in Nat /\ y[2] \in Nat /\ y[3] \in Nat /\ y[4] \in Nat
    <2>1. \A e \in Seq(Nat) : \A k \in 1 .. Len(e) : e[k] \in Nat
      OBVIOUS
    <2>2. 1 \in 1 .. 4 /\ 2 \in 1 .. 4 /\ 3 \in 1 .. 4 /\ 4 \in 1 .. 4
      OBVIOUS
    <2>3. \A k \in 1 .. 4 : z[k] \in Nat /\ y[k] \in Nat
      BY <2>1
    <2> QED
      BY <2>2, <2>3
  <1>1. /\ t \in Seq(Nat) /\ Len(t) = 8
        /\ t[1] = z[1] /\ t[2] = z[2] /\ t[3] = z[3] /\ t[4] = z[4]
        /\ t[5] = y[1] /\ t[6] = y[2] /\ t[7] = y[3] /\ t[8] = y[4]
    <2> DEFINE a == z[1]
               b == z[2]
               c == z[3]
               d == z[4]
               e == y[1]
               f == y[2]
               g == y[3]
               h == y[4]
    <2> HIDE DEF a, b, c, d, e, f, g, h
    <2>1. /\ a \in Nat /\ b \in Nat /\ c \in Nat /\ d \in Nat
          /\ e \in Nat /\ f \in Nat /\ g \in Nat /\ h \in Nat
      BY <1>0 DEF a, b, c, d, e, f, g, h
    <2>2. <<a, b, c, d, e, f, g, h>> \in Seq(Nat)
      BY <2>1
    <2> QED
      BY <2>2 DEF a, b, c, d, e, f, g, h
  <1> HIDE DEF t
  <1>2. /\ s \in Seq(Nat) /\ Len(s) = Len(z) + Len(y)
        /\ \A k \in 1 .. Len(z) : s[k] = z[k]
        /\ \A k \in 1 .. Len(y) : s[Len(z) + k] = y[k]
    BY Joined
  <1> HIDE DEF s
  <1>3. Len(s) = 8 /\ s[1] = z[1] /\ s[2] = z[2] /\ s[3] = z[3] /\ s[4] = z[4]
    BY <1>2
  <1>4. s[5] = y[1] /\ s[6] = y[2] /\ s[7] = y[3] /\ s[8] = y[4]
    <2>1. s[4 + 1] = y[1] /\ s[4 + 2] = y[2] /\ s[4 + 3] = y[3] /\ s[4 + 4] = y[4]
      BY <1>2
    <2> QED
      BY <2>1
  <1>5. \A k \in 1 .. 8 : s[k] = t[k]
    BY <1>1, <1>3, <1>4
  <1>6. s = t
    BY <1>1, <1>2, <1>3, <1>5, SeqEqual
  <1> QED
    BY <1>6 DEF s, t

LEMMA BytesListed ==
  ASSUME NEW u \in Nat
  PROVE  /\ Bytes16(u) = <<Low(u), Low(u \div B1)>>
         /\ Bytes32(u) = <<Low(u), Low(u \div B1), Low(u \div B2), Low(u \div B3)>>
         /\ Bytes64(u) = <<Low(u), Low(u \div B1), Low(u \div B2), Low(u \div B3),
                          Low(u \div B4), Low(u \div B5), Low(u \div B6), Low(u \div B7)>>
  <1>1. \A a, b, c, d \in Nat : <<a, b>> \o <<c, d>> = <<a, b, c, d>>
    BY JoinedFour
  <1>2. \A w \in Nat : Low(w) \in Nat /\ Rest(w) \in Nat
    BY LowAndRest
  <1>3. \A w \in Nat :
          Bytes32(w) = <<Low(w), Low(Rest(w)), Low(Rest(Rest(w))), Low(Rest(Rest(Rest(w))))>>
    <2> TAKE w \in Nat
    <2>1. /\ Low(w) \in Nat /\ Low(Rest(w)) \in Nat /\ Low(Rest(Rest(w))) \in Nat
          /\ Low(Rest(Rest(Rest(w)))) \in Nat
      BY <1>2
    <2> QED
      BY <1>1, <2>1, Zenon DEF Bytes32, Bytes16
  <1> DEFINE r4 == Rest(Rest(Rest(Rest(u))))
  <1>4. r4 \in Nat
    BY <1>2
  <1>5. Bytes64(u) = <<Low(u), Low(Rest(u)), Low(Rest(Rest(u))), Low(Rest(Rest(Rest(u)))),
                       Low(r4), Low(Rest(r4)), Low(Rest(Rest(r4))), Low(Rest(Rest(Rest(r4))))>>
    <2>1. Bytes64(u) = Bytes32(u) \o Bytes32(r4)
      BY Zenon DEF Bytes64
    <2> HIDE DEF r4
    <2>2. /\ Low(u) \in Nat /\ Low(Rest(u)) \in Nat /\ Low(Rest(Rest(u))) \in Nat
          /\ Low(Rest(Rest(Rest(u)))) \in Nat
          /\ Low(r4) \in Nat /\ Low(Rest(r4)) \in Nat /\ Low(Rest(Rest(r4))) \in Nat
          /\ Low(Rest(Rest(Rest(r4)))) \in Nat
      BY <1>2, <1>4
    <2>3. Bytes32(u) = <<Low(u), Low(Rest(u)), Low(Rest(Rest(u))), Low(Rest(Rest(Rest(u))))>>
      BY <1>3
    <2>4. Bytes32(r4) = <<Low(r4), Low(Rest(r4)), Low(Rest(Rest(r4))), Low(Rest(Rest(Rest(r4))))>>
      BY <1>3, <1>4
    <2> DEFINE z == Bytes32(u)
               y == Bytes32(r4)
    <2>5. /\ z \in Seq(Nat) /\ Len(z) = 4 /\ y \in Seq(Nat) /\ Len(y) = 4
      BY <1>4, BytesAre
    <2>6. z \o y = <<z[1], z[2], z[3], z[4], y[1], y[2], y[3], y[4]>>
      <3> HIDE DEF z, y
      <3> QED
        BY <2>5, JoinedEight
    <2>7. /\ z[1] = Low(u) /\ z[2] = Low(Rest(u)) /\ z[3] = Low(Rest(Rest(u)))
          /\ z[4] = Low(Rest(Rest(Rest(u))))
      BY <2>3
    <2>8. /\ y[1] = Low(r4) /\ y[2] = Low(Rest(r4)) /\ y[3] = Low(Rest(Rest(r4)))
          /\ y[4] = Low(Rest(Rest(Rest(r4))))
      BY <2>4
    <2>9. Bytes64(u) = z \o y
      BY <2>1
    <2> HIDE DEF z, y
    <2> QED
      BY <2>6, <2>7, <2>8, <2>9, Zenon
  <1>6. Bytes16(u) = <<Low(u), Low(Rest(u))>>
    BY Zenon DEF Bytes16
  <1>7. /\ u \div B1 = Rest(u) /\ u \div B2 = Rest(Rest(u))
        /\ u \div B3 = Rest(Rest(Rest(u))) /\ u \div B4 = r4
        /\ u \div B5 = Rest(r4) /\ u \div B6 = Rest(Rest(r4))
        /\ u \div B7 = Rest(Rest(Rest(r4)))
    BY ShiftsAre
  <1> HIDE DEF r4
  <1> QED
    BY <1>3, <1>5, <1>6, <1>7, Zenon

\* What the append and the put functions leave, in terms of these bytes.
LEMMA AppendsAre ==
  ASSUME NEW b, NEW u \in Nat
  PROVE  /\ AppendU16(b, u) = AppendTo(b, Bytes16(u))
         /\ AppendU32(b, u) = AppendTo(b, Bytes32(u))
         /\ AppendU64(b, u) = AppendTo(b, Bytes64(u))
  BY BytesListed, Zenon DEF AppendU16, AppendU32, AppendU64, AppendTo

\* Stores at the front of a buffer.
LEMMA PutFront ==
  ASSUME NEW b \in Seq(Nat), NEW e \in Seq(Nat), NEW f \in Seq(Nat),
         Len(e) <= Len(b), Len(f) = Len(b),
         \A k \in 1 .. Len(e) : f[k] = e[k],
         \A k \in (Len(e) + 1) .. Len(b) : f[k] = b[k]
  PROVE  f = PutAt(b, e)
  <1> DEFINE n == Len(e)
             l == Len(b)
             m == n + 1
             t == SubSeq(b, m, l)
             g == e \o t
  <1>1. n \in Nat /\ l \in Nat /\ n <= l /\ m \in Nat /\ Len(f) = l
    OBVIOUS
  <1>2. /\ t \in Seq(Nat) /\ Len(t) = l - n
        /\ \A k \in 1 .. (l - n) : t[k] = b[n + k]
    <2>1. t \in Seq(Nat) /\ Len(t) = l - n
      BY <1>1
    <2>2. ASSUME NEW k \in 1 .. (l - n)
          PROVE  t[k] = b[n + k]
      <3>1. k + m - 1 = n + k /\ k \in 1 .. (l - m + 1)
        BY <1>1
      <3>2. t[k] = b[k + m - 1]
        BY <1>1, <3>1
      <3> QED
        BY <3>1, <3>2
    <2> QED
      BY <2>1, <2>2
  <1> HIDE DEF t
  <1>3. /\ g \in Seq(Nat) /\ Len(g) = n + Len(t)
        /\ \A k \in 1 .. n : g[k] = e[k]
        /\ \A k \in 1 .. Len(t) : g[n + k] = t[k]
    BY <1>2, Joined
  <1> HIDE DEF g
  <1>4. Len(g) = l
    BY <1>1, <1>2, <1>3
  <1>5. ASSUME NEW k \in 1 .. l
        PROVE  f[k] = g[k]
    <2>1. CASE k <= n
      <3>1. k \in 1 .. n
        BY <1>1, <2>1
      <3> QED
        BY <1>3, <3>1
    <2>2. CASE ~ (k <= n)
      <3> DEFINE j == k - n
      <3>0. k \in m .. l
        <4> HIDE DEF n, l
        <4> QED
          BY <1>1, <2>2
      <3>1. j \in 1 .. (l - n) /\ n + j = k /\ k \in m .. l
        <4> HIDE DEF n, l
        <4> QED
          BY <1>1, <2>2, <3>0
      <3> HIDE DEF j
      <3>2. g[n + j] = t[j] /\ t[j] = b[n + j]
        BY <1>2, <1>3, <3>1
      <3>3. f[k] = b[k]
        BY <3>1
      <3> QED
        BY <3>1, <3>2, <3>3
    <2> QED
      BY <2>1, <2>2
  <1>6. f = g
    BY <1>1, <1>3, <1>4, <1>5, SeqEqual
  <1> QED
    BY <1>6 DEF PutAt, g, t

LEMMA Stored ==
  ASSUME NEW n \in Nat, NEW b \in [1 .. n -> Nat], NEW j \in 1 .. n, NEW c \in Nat
  PROVE  /\ [b EXCEPT ![j] = c] \in [1 .. n -> Nat]
         /\ [b EXCEPT ![j] = c][j] = c
         /\ \A k \in 1 .. n : k # j => [b EXCEPT ![j] = c][k] = b[k]
  OBVIOUS

LEMMA PutsAre ==
  ASSUME NEW b \in Seq(Nat), NEW u \in Nat
  PROVE  /\ Len(b) >= 2 => PutU16(b, u) = PutAt(b, Bytes16(u))
         /\ Len(b) >= 4 => PutU32(b, u) = PutAt(b, Bytes32(u))
         /\ Len(b) >= 8 => PutU64(b, u) = PutAt(b, Bytes64(u))
  <1> DEFINE c0 == Low(u)
             c1 == Low(u \div B1)
             c2 == Low(u \div B2)
             c3 == Low(u \div B3)
             c4 == Low(u \div B4)
             c5 == Low(u \div B5)
             c6 == Low(u \div B6)
             c7 == Low(u \div B7)
  <1>1. /\ c0 \in Nat /\ c1 \in Nat /\ c2 \in Nat /\ c3 \in Nat
        /\ c4 \in Nat /\ c5 \in Nat /\ c6 \in Nat /\ c7 \in Nat
    <2>1. \A w \in Nat : Low(w) \in Nat /\ Rest(w) \in Nat
      BY LowAndRest
    <2>2. /\ Rest(u) \in Nat
          /\ Rest(Rest(u)) \in Nat
          /\ Rest(Rest(Rest(u))) \in Nat
          /\ Rest(Rest(Rest(Rest(u)))) \in Nat
          /\ Rest(Rest(Rest(Rest(Rest(u))))) \in Nat
          /\ Rest(Rest(Rest(Rest(Rest(Rest(u)))))) \in Nat
          /\ Rest(Rest(Rest(Rest(Rest(Rest(Rest(u))))))) \in Nat
      BY <2>1, Zenon
    <2>3. /\ u \div B1 \in Nat /\ u \div B2 \in Nat /\ u \div B3 \in Nat
          /\ u \div B4 \in Nat /\ u \div B5 \in Nat /\ u \div B6 \in Nat
          /\ u \div B7 \in Nat
      BY <2>2, ShiftsAre, Zenon
    <2> QED
      BY <2>1, <2>3, Zenon
  <1>2. /\ PutU16(b, u) = [b EXCEPT ![1] = c0, ![2] = c1]
        /\ PutU32(b, u) = [b EXCEPT ![1] = c0, ![2] = c1, ![3] = c2, ![4] = c3]
        /\ PutU64(b, u) = [b EXCEPT ![1] = c0, ![2] = c1, ![3] = c2, ![4] = c3,
                                   ![5] = c4, ![6] = c5, ![7] = c6, ![8] = c7]
    BY DEF PutU16, PutU32, PutU64
  <1>3. /\ Bytes16(u) = <<c0, c1>>
        /\ Bytes32(u) = <<c0, c1, c2, c3>>
        /\ Bytes64(u) = <<c0, c1, c2, c3, c4, c5, c6, c7>>
    BY BytesListed
  <1> HIDE DEF c0, c1, c2, c3, c4, c5, c6, c7
  <1>4. ASSUME Len(b) >= 2
        PROVE  PutU16(b, u) = PutAt(b, Bytes16(u))
    <2> DEFINE f == [b EXCEPT ![1] = c0, ![2] = c1]
               e == <<c0, c1>>
    <2>1. e \in Seq(Nat) /\ Len(e) = 2
      BY <1>1
    <2>2. f \in Seq(Nat) /\ Len(f) = Len(b)
      <3>1. b \in [1 .. Len(b) -> Nat]
        OBVIOUS
      <3>2. \A t \in [1 .. Len(b) -> Nat] : t \in Seq(Nat) /\ Len(t) = Len(b)
        OBVIOUS
      <3>3. f \in [1 .. Len(b) -> Nat]
        BY <1>1, <3>1
      <3> QED
        BY <3>2, <3>3
    <2>3. \A k \in 1 .. 2 : f[k] = e[k]
      BY <1>1, <1>4
    <2>4. \A k \in (2 + 1) .. Len(b) : f[k] = b[k]
      BY <1>4
    <2> HIDE DEF f, e
    <2>5. f = PutAt(b, e)
      BY <1>4, <2>1, <2>2, <2>3, <2>4, PutFront
    <2> QED
      BY <1>2, <1>3, <2>5 DEF f, e
  <1>5. ASSUME Len(b) >= 4
        PROVE  PutU32(b, u) = PutAt(b, Bytes32(u))
    <2> DEFINE f == [b EXCEPT ![1] = c0, ![2] = c1, ![3] = c2, ![4] = c3]
               e == <<c0, c1, c2, c3>>
    <2>1. e \in Seq(Nat) /\ Len(e) = 4
      BY <1>1
    <2>2. f \in Seq(Nat) /\ Len(f) = Len(b)
      <3>1. b \in [1 .. Len(b) -> Nat]
        OBVIOUS
      <3>2. \A t \in [1 .. Len(b) -> Nat] : t \in Seq(Nat) /\ Len(t) = Len(b)
        OBVIOUS
      <3>3. f \in [1 .. Len(b) -> Nat]
        BY <1>1, <3>1
      <3> QED
        BY <3>2, <3>3
    <2>3. \A k \in 1 .. 4 : f[k] = e[k]
      BY <1>1, <1>5
    <2>4. \A k \in (4 + 1) .. Len(b) : f[k] = b[k]
      BY <1>5
    <2> HIDE DEF f, e
    <2>5. f = PutAt(b, e)
      BY <1>5, <2>1, <2>2, <2>3, <2>4, PutFront
    <2> QED
      BY <1>2, <1>3, <2>5 DEF f, e
  <1>6. ASSUME Len(b) >= 8
        PROVE  PutU64(b, u) = PutAt(b, Bytes64(u))
    <2> DEFINE n == Len(b)
               e == <<c0, c1, c2, c3, c4, c5, c6, c7>>
               g1 == [b EXCEPT ![1] = c0]
               g2 == [g1 EXCEPT ![2] = c1]
               g3 == [g2 EXCEPT ![3] = c2]
               g4 == [g3 EXCEPT ![4] = c3]
               g5 == [g4 EXCEPT ![5] = c4]
               g6 == [g5 EXCEPT ![6] = c5]
               g7 == [g6 EXCEPT ![7] = c6]
               g8 == [g7 EXCEPT ![8] = c7]
    <2>1. g8 = PutU64(b, u)
      BY <1>2
    <2>2. /\ e \in Seq(Nat) /\ Len(e) = 8
          /\ e[1] = c0 /\ e[2] = c1 /\ e[3] = c2 /\ e[4] = c3
          /\ e[5] = c4 /\ e[6] = c5 /\ e[7] = c6 /\ e[8] = c7
      BY <1>1
    <2>3. n \in Nat /\ 8 <= n /\ b \in [1 .. n -> Nat]
      BY <1>6
    <2> HIDE DEF n, e
    <2>4. /\ 1 \in 1 .. n /\ 2 \in 1 .. n /\ 3 \in 1 .. n /\ 4 \in 1 .. n
          /\ 5 \in 1 .. n /\ 6 \in 1 .. n /\ 7 \in 1 .. n /\ 8 \in 1 .. n
      BY <2>3
    <2>5. \A t \in [1 .. n -> Nat] : t \in Seq(Nat) /\ Len(t) = n
      BY <2>3
    <2>6. /\ g1 \in [1 .. n -> Nat] /\ g1[1] = c0
          /\ \A k \in 1 .. n : k # 1 => g1[k] = b[k]
      BY <1>1, <2>3, <2>4, Stored
    <2> HIDE DEF g1
    <2>7. /\ g2 \in [1 .. n -> Nat] /\ g2[2] = c1
          /\ \A k \in 1 .. n : k # 2 => g2[k] = g1[k]
      BY <1>1, <2>3, <2>4, <2>6, Stored
    <2> HIDE DEF g2
    <2>8. /\ g3 \in [1 .. n -> Nat] /\ g3[3] = c2
          /\ \A k \in 1 .. n : k # 3 => g3[k] = g2[k]
      BY <1>1, <2>3, <2>4, <2>7, Stored
    <2> HIDE DEF g3
    <2>9. /\ g4 \in [1 .. n -> Nat] /\ g4[4] = c3
          /\ \A k \in 1 .. n : k # 4 => g4[k] = g3[k]
      BY <1>1, <2>3, <2>4, <2>8, Stored
    <2> HIDE DEF g4
    <2>10. /\ g5 \in [1 .. n -> Nat] /\ g5[5] = c4
          /\ \A k \in 1 .. n : k # 5 => g5[k] = g4[k]
      BY <1>1, <2>3, <2>4, <2>9, Stored
    <2> HIDE DEF g5
    <2>11. /\ g6 \in [1 .. n -> Nat] /\ g6[6] = c5
          /\ \A k \in 1 .. n : k # 6 => g6[k] = g5[k]
      BY <1>1, <2>3, <2>4, <2>10, Stored
    <2> HIDE DEF g6
    <2>12. /\ g7 \in [1 .. n -> Nat] /\ g7[7] = c6
          /\ \A k \in 1 .. n : k # 7 => g7[k] = g6[k]
      BY <1>1, <2>3, <2>4, <2>11, Stored
    <2> HIDE DEF g7
    <2>13. /\ g8 \in [1 .. n -> Nat] /\ g8[8] = c7
          /\ \A k \in 1 .. n : k # 8 => g8[k] = g7[k]
      BY <1>1, <2>3, <2>4, <2>12, Stored
    <2> HIDE DEF g8
    <2>14. /\ g8[1] = c0 /\ g8[2] = c1 /\ g8[3] = c2 /\ g8[4] = c3
           /\ g8[5] = c4 /\ g8[6] = c5 /\ g8[7] = c6 /\ g8[8] = c7
      BY <2>4, <2>6, <2>7, <2>8, <2>9, <2>10, <2>11, <2>12, <2>13
    <2>15. \A k \in 1 .. 8 : g8[k] = e[k]
      BY <2>2, <2>14
    <2>16. \A k \in (8 + 1) .. n : g8[k] = b[k]
      BY <2>3, <2>6, <2>7, <2>8, <2>9, <2>10, <2>11, <2>12, <2>13
    <2>17. g8 \in Seq(Nat) /\ Len(g8) = n
      BY <2>5, <2>13
    <2>18. g8 = PutAt(b, e)
      BY <1>6, <2>2, <2>15, <2>16, <2>17, PutFront DEF n
    <2> QED
      BY <1>3, <2>1, <2>18 DEF e
  <1> QED
    BY <1>4, <1>5, <1>6

\* What the read functions read, in terms of what they read of the halves.
LEMMA ReadsAre ==
  ASSUME NEW s, NEW o \in Nat,
         \A k \in 1 .. 4 : s[o + k] \in Nat
  PROVE  /\ U16(s, o) = s[o + 1] + Base * s[o + 2]
         /\ U32(s, o) = U16(s, o) + Base * Base * U16(s, o + 2)
         /\ (\A k \in 1 .. 8 : s[o + k] \in Nat) =>
              U64(s, o) = U32(s, o) + Base * Base * Base * Base * U32(s, o + 4)
  <1>1. Base \in Nat
    BY WordsParameters
  <1>2. /\ B1 = Base /\ B2 = Base * B1 /\ B3 = Base * B2 /\ B4 = Base * B3
        /\ B5 = Base * B4 /\ B6 = Base * B5 /\ B7 = Base * B6
    BY DEF B1, B2, B3, B4, B5, B6, B7
  <1>3. \A p : U16(s, p) = s[p + 1] + Base * s[p + 2]
    BY <1>2 DEF U16
  <1>4. \A p : U32(s, p) = s[p + 1] + B1 * s[p + 2] + B2 * s[p + 3] + B3 * s[p + 4]
    BY DEF U32
  <1>5. U32(s, o) = U16(s, o) + Base * Base * U16(s, o + 2)
    <2>1. /\ (o + 2) + 1 = o + 3 /\ (o + 2) + 2 = o + 4
          /\ s[o + 1] \in Nat /\ s[o + 2] \in Nat /\ s[o + 3] \in Nat /\ s[o + 4] \in Nat
      OBVIOUS
    <2> DEFINE a == s[o + 3]
               d == s[o + 4]
    <2>2. U16(s, o + 2) = a + Base * d
      BY <1>3, <2>1
    <2>3. B2 * a + B3 * d = Base * Base * (a + Base * d)
      BY <1>1, <1>2, <2>1
    <2>4. B2 * a \in Nat /\ B3 * d \in Nat /\ Base * s[o + 2] \in Nat
      BY <1>1, <1>2, <2>1
    <2> QED
      BY <1>2, <1>3, <1>4, <2>1, <2>2, <2>3, <2>4
  <1>6. ASSUME \A k \in 1 .. 8 : s[o + k] \in Nat
        PROVE  U64(s, o) = U32(s, o) + Base * Base * Base * Base * U32(s, o + 4)
    <2> DEFINE a == s[o + 5]
               d == s[o + 6]
               e == s[o + 7]
               f == s[o + 8]
               q == Base * Base * Base * Base
    <2>1. /\ (o + 4) + 1 = o + 5 /\ (o + 4) + 2 = o + 6
          /\ (o + 4) + 3 = o + 7 /\ (o + 4) + 4 = o + 8
          /\ a \in Nat /\ d \in Nat /\ e \in Nat /\ f \in Nat
      BY <1>6
    <2>2. U32(s, o + 4) = a + B1 * d + B2 * e + B3 * f
      BY <1>4, <2>1
    <2>3. U64(s, o) = U32(s, o) + B4 * a + B5 * d + B6 * e + B7 * f
      BY <1>4 DEF U64
    <2> HIDE DEF a, d, e, f, q
    <2>4. B4 = q /\ B5 = q * B1 /\ B6 = q * B2 /\ B7 = q * B3
      BY <1>1, <1>2 DEF q
    <2>5. B1 * d \in Nat /\ B2 * e \in Nat /\ B3 * f \in Nat /\ q \in Nat
      BY <1>1, <1>2, <2>1 DEF q
    <2>6. /\ (q * B1) * d = q * (B1 * d) /\ (q * B2) * e = q * (B2 * e)
          /\ (q * B3) * f = q * (B3 * f)
      BY <1>1, <1>2, <2>1, <2>5
    <2>7. q * (a + B1 * d + B2 * e + B3 * f)
            = q * a + q * (B1 * d) + q * (B2 * e) + q * (B3 * f)
      <3> DEFINE d2 == B1 * d
                 e2 == B2 * e
                 f2 == B3 * f
      <3>1. d2 \in Nat /\ e2 \in Nat /\ f2 \in Nat
        BY <2>5
      <3> HIDE DEF d2, e2, f2
      <3>2. q * (a + d2 + e2 + f2) = q * a + q * d2 + q * e2 + q * f2
        BY <2>1, <2>5, <3>1
      <3> QED
        BY <3>2 DEF d2, e2, f2
    <2>8. U32(s, o) \in Nat
      <3>1. s[o + 1] \in Nat /\ s[o + 2] \in Nat /\ s[o + 3] \in Nat /\ s[o + 4] \in Nat
        OBVIOUS
      <3>2. B1 \in Nat /\ B2 \in Nat /\ B3 \in Nat
        BY <1>1, <1>2
      <3>3. /\ B1 * s[o + 2] \in Nat /\ B2 * s[o + 3] \in Nat /\ B3 * s[o + 4] \in Nat
        BY <3>1, <3>2
      <3> QED
        BY <1>4, <3>1, <3>3
    <2>9. q * a \in Nat /\ q * (B1 * d) \in Nat /\ q * (B2 * e) \in Nat /\ q * (B3 * f) \in Nat
      BY <2>1, <2>5
    <2>10. U64(s, o) = U32(s, o) + q * U32(s, o + 4)
      BY <2>2, <2>3, <2>4, <2>6, <2>7, <2>8, <2>9
    <2> QED
      BY <2>10 DEF q
  <1> QED
    BY <1>3, <1>5, <1>6

\* s has these bytes at the offset o.
Holds(s, o, bytes) == \A k \in 1 .. Len(bytes) : s[o + k] = bytes[k]

LEMMA HeldAreNaturals ==
  ASSUME NEW s, NEW o \in Nat, NEW u \in Nat
  PROVE  /\ Holds(s, o, Bytes32(u)) => \A k \in 1 .. 4 : s[o + k] \in Nat
         /\ Holds(s, o, Bytes64(u)) => \A k \in 1 .. 8 : s[o + k] \in Nat
  <1>1. /\ Bytes32(u) \in Seq(Nat) /\ Len(Bytes32(u)) = 4
        /\ Bytes64(u) \in Seq(Nat) /\ Len(Bytes64(u)) = 8
    BY BytesAre
  <1>2. ASSUME NEW e \in Seq(Nat), Holds(s, o, e)
        PROVE  \A k \in 1 .. Len(e) : s[o + k] \in Nat
    <2>1. \A k \in 1 .. Len(e) : e[k] \in Nat
      OBVIOUS
    <2> QED
      BY <1>2, <2>1 DEF Holds
  <1> QED
    BY <1>1, <1>2

LEMMA HoldsBoth ==
  ASSUME NEW s, NEW o \in Nat, NEW z \in Seq(Nat), NEW y \in Seq(Nat),
         Holds(s, o, z \o y)
  PROVE  Holds(s, o, z) /\ Holds(s, o + Len(z), y)
  <1>1. \A k \in 1 .. Len(z) : s[o + k] = z[k]
    BY Joined DEF Holds
  <1>2. ASSUME NEW k \in 1 .. Len(y)
        PROVE  s[(o + Len(z)) + k] = y[k]
    <2>1. Len(z) + k \in 1 .. Len(z \o y) /\ (z \o y)[Len(z) + k] = y[k]
      BY Joined
    <2>2. s[o + (Len(z) + k)] = y[k]
      BY <2>1 DEF Holds
    <2>3. o + (Len(z) + k) = (o + Len(z)) + k
      OBVIOUS
    <2> QED
      BY <2>2, <2>3
  <1> QED
    BY <1>1, <1>2 DEF Holds

LEMMA HoldsAppended ==
  ASSUME NEW b \in Seq(Nat), NEW bytes \in Seq(Nat)
  PROVE  Holds(AppendTo(b, bytes), Len(b), bytes)
  BY DEF Holds, AppendTo

\* The word a function reads is the one whose bytes are there, but for what
\* of the word is above the function's width.
LEMMA Read16 ==
  ASSUME NEW s, NEW o \in Nat, NEW u \in Nat, Holds(s, o, Bytes16(u))
  PROVE  /\ Rest(Rest(u)) \in Nat
         /\ U16(s, o) \in Nat
         /\ U16(s, o) + (Base * Base) * Rest(Rest(u)) = u
  <1>1. U16(s, o) = Low(u) + Base * Low(Rest(u))
    <2>1. 1 \in 1 .. Len(Bytes16(u)) /\ 2 \in 1 .. Len(Bytes16(u))
      <3>1. Len(Bytes16(u)) = 2
        BY BytesAre
      <3> QED
        BY <3>1
    <2>2. s[o + 1] = Bytes16(u)[1] /\ s[o + 2] = Bytes16(u)[2]
      BY <2>1, Zenon DEF Holds
    <2> QED
      BY <2>2, BytesAre DEF U16, B1
  <1>2. /\ Low(u) \in Nat /\ Rest(u) \in Nat /\ u = Low(u) + Base * Rest(u)
        /\ Low(Rest(u)) \in Nat /\ Rest(Rest(u)) \in Nat
        /\ Rest(u) = Low(Rest(u)) + Base * Rest(Rest(u))
    BY LowAndRest
  <1> QED
    BY <1>1, <1>2, WordsParameters

LEMMA Read32 ==
  ASSUME NEW s, NEW o \in Nat, NEW u \in Nat, Holds(s, o, Bytes32(u))
  PROVE  /\ Rest(Rest(Rest(Rest(u)))) \in Nat
         /\ U32(s, o) \in Nat
         /\ U32(s, o) + (Base * Base * Base * Base) * Rest(Rest(Rest(Rest(u)))) = u
  <1> DEFINE h == Rest(Rest(u))
  <1>1. h \in Nat
    BY LowAndRest
  <1>2. Holds(s, o, Bytes16(u)) /\ Holds(s, o + 2, Bytes16(h))
    BY <1>1, BytesAre, HoldsBoth DEF Bytes32
  <1>3. /\ U16(s, o) \in Nat /\ U16(s, o) + (Base * Base) * h = u
        /\ U16(s, o + 2) \in Nat /\ Rest(Rest(h)) \in Nat
        /\ U16(s, o + 2) + (Base * Base) * Rest(Rest(h)) = h
    BY <1>1, <1>2, Read16
  <1> HIDE DEF h
  <1>4. U32(s, o) = U16(s, o) + Base * Base * U16(s, o + 2)
    BY HeldAreNaturals, ReadsAre
  <1>5. U32(s, o) \in Nat
        /\ U32(s, o) + (Base * Base * Base * Base) * Rest(Rest(h)) = u
    BY <1>1, <1>3, <1>4, WordsParameters
  <1> QED
    BY <1>3, <1>5 DEF h

LEMMA BelowModulus ==
  ASSUME NEW n \in Nat, NEW r \in Nat, NEW m \in Nat, NEW u \in Nat,
         n + m * r = u, u < m
  PROVE  n = u
  <1>1. r = 0
    <2>1. SUFFICES ASSUME r >= 1 PROVE FALSE
      OBVIOUS
    <2>2. m * r >= m
      BY <2>1
    <2> QED
      BY <2>2
  <1> QED
    BY <1>1

LEMMA Read64 ==
  ASSUME NEW s, NEW o \in Nat, NEW u \in Nat, Holds(s, o, Bytes64(u)),
         u < Base * Base * Base * Base * Base * Base * Base * Base
  PROVE  U64(s, o) = u
  <1> DEFINE h == Rest(Rest(Rest(Rest(u))))
             e == Rest(Rest(Rest(Rest(h))))
             q == Base * Base * Base * Base
  <1>1. h \in Nat /\ e \in Nat /\ q \in Nat
    BY LowAndRest, WordsParameters
  <1>2. Holds(s, o, Bytes32(u)) /\ Holds(s, o + 4, Bytes32(h))
    BY <1>1, BytesAre, HoldsBoth DEF Bytes64
  <1>3. /\ U32(s, o) \in Nat /\ U32(s, o) + q * h = u
        /\ U32(s, o + 4) \in Nat /\ U32(s, o + 4) + q * e = h
    BY <1>1, <1>2, Read32
  <1>4. u < q * q
    BY WordsParameters
  <1>5. U64(s, o) = U32(s, o) + q * U32(s, o + 4)
    <2>1. \A k \in 1 .. 8 : s[o + k] \in Nat
      BY HeldAreNaturals
    <2>2. \A k \in 1 .. 4 : s[o + k] \in Nat
      BY <2>1
    <2> QED
      BY <2>1, <2>2, ReadsAre
  <1> HIDE DEF h, e, q
  <1>6. u = U64(s, o) + (q * q) * e
    <2>1. /\ q * (U32(s, o + 4) + q * e) = q * U32(s, o + 4) + q * (q * e)
          /\ q * (q * e) = (q * q) * e
      BY <1>1, <1>3
    <2> QED
      BY <1>1, <1>3, <1>5, <2>1
  <1>7. U64(s, o) >= 0 /\ U64(s, o) \in Nat
    BY <1>1, <1>3, <1>5
  <1>8. q * q \in Nat
    BY <1>1
  <1> QED
    BY <1>1, <1>4, <1>6, <1>7, <1>8, BelowModulus

\* "U16 reads a little-endian uint16", and so on: at the end of what a buffer
\* held, each of them reads back the word its Append function put there, for
\* every word of its width, whatever the size of a byte.
THEOREM LittleEndianInverse ==
  ASSUME NEW b \in Seq(Nat), NEW u \in Nat
  PROVE  /\ u < Base * Base => U16(AppendU16(b, u), Len(b)) = u
         /\ u < Base * Base * Base * Base => U32(AppendU32(b, u), Len(b)) = u
         /\ u < Base * Base * Base * Base * Base * Base * Base * Base =>
              U64(AppendU64(b, u), Len(b)) = u
  <1> DEFINE s16 == AppendTo(b, Bytes16(u))
             s32 == AppendTo(b, Bytes32(u))
             s64 == AppendTo(b, Bytes64(u))
  <1>1. /\ Len(b) \in Nat
        /\ Holds(s16, Len(b), Bytes16(u))
        /\ Holds(s32, Len(b), Bytes32(u))
        /\ Holds(s64, Len(b), Bytes64(u))
    <2>1. /\ Bytes16(u) \in Seq(Nat) /\ Bytes32(u) \in Seq(Nat)
          /\ Bytes64(u) \in Seq(Nat)
      BY BytesAre
    <2> HIDE DEF s16, s32, s64
    <2>2. Holds(s16, Len(b), Bytes16(u))
      BY <2>1, HoldsAppended DEF s16
    <2>3. Holds(s32, Len(b), Bytes32(u))
      BY <2>1, HoldsAppended DEF s32
    <2>4. Holds(s64, Len(b), Bytes64(u))
      BY <2>1, HoldsAppended DEF s64
    <2> QED
      BY <2>2, <2>3, <2>4
  <1> HIDE DEF s16, s32, s64
  <1>3. ASSUME u < Base * Base PROVE U16(s16, Len(b)) = u
    <2>1. Base * Base \in Nat
      BY WordsParameters
    <2>2. /\ Rest(Rest(u)) \in Nat /\ U16(s16, Len(b)) \in Nat
          /\ U16(s16, Len(b)) + (Base * Base) * Rest(Rest(u)) = u
      BY <1>1, Read16
    <2> QED
      BY <1>3, <2>1, <2>2, BelowModulus
  <1>4. ASSUME u < Base * Base * Base * Base PROVE U32(s32, Len(b)) = u
    <2>1. Base * Base * Base * Base \in Nat
      BY WordsParameters
    <2>2. /\ Rest(Rest(Rest(Rest(u)))) \in Nat /\ U32(s32, Len(b)) \in Nat
          /\ U32(s32, Len(b))
               + (Base * Base * Base * Base) * Rest(Rest(Rest(Rest(u)))) = u
      BY <1>1, Read32
    <2> QED
      BY <1>4, <2>1, <2>2, BelowModulus
  <1>5. u < Base * Base * Base * Base * Base * Base * Base * Base
          => U64(s64, Len(b)) = u
    BY <1>1, Read64
  <1> QED
    BY <1>3, <1>4, <1>5, AppendsAre DEF s16, s32, s64

-----------------------------------------------------------------------------
(***************************************************************************)
(* Induction over sets of natural numbers, and functions defined by it.    *)
(***************************************************************************)

LEMMA Least ==
  ASSUME NEW T \in SUBSET Nat, T # {}
  PROVE  \E m \in T : \A n \in T : m <= n
  <1> DEFINE R == OpToRel(<, Nat)
  <1>1. IsWellFoundedOn(R, Nat)
    BY NatLessThanWellFounded
  <1>2. \A m, n \in Nat : m < n => <<m, n>> \in R
    BY DEF OpToRel
  <1> HIDE DEF R
  <1>3. \E m \in T : \A n \in T : ~ (<<n, m>> \in R)
    BY <1>1, WFMin
  <1>4. PICK m \in T : \A n \in T : ~ (<<n, m>> \in R)
    BY <1>3
  <1>5. ASSUME NEW n \in T
        PROVE  m <= n
    <2>1. m \in Nat /\ n \in Nat
      OBVIOUS
    <2>2. ~ (n < m)
      BY <1>2, <1>4, <2>1
    <2> QED
      BY <2>1, <2>2
  <1> QED
    BY <1>5

LEMMA SetInduction ==
  ASSUME NEW T \in SUBSET Nat, 0 \in T, \A n \in T : n + 1 \in T
  PROVE  T = Nat
  <1> SUFFICES ASSUME Nat \ T # {} PROVE FALSE
    OBVIOUS
  <1>1. PICK m \in Nat \ T : \A n \in Nat \ T : m <= n
    BY Least
  <1>2. m # 0 /\ m - 1 \in Nat /\ m - 1 \in T
    BY <1>1
  <1> QED
    BY <1>1, <1>2

\* The first values of the function that starts at c and goes on by h.
Upto(n, S, c, h) ==
  { g \in [0 .. n -> S] : g[0] = c /\ \A k \in 0 .. n - 1 : g[k + 1] = h[<<k, g[k]>>] }

LEMMA UptoExists ==
  ASSUME NEW S, NEW c \in S, NEW h \in [Nat \X S -> S]
  PROVE  \A n \in Nat : Upto(n, S, c, h) # {}
  <1> DEFINE T == { n \in Nat : Upto(n, S, c, h) # {} }
  <1>1. 0 \in T
    <2>1. [k \in 0 .. 0 |-> c] \in Upto(0, S, c, h)
      BY DEF Upto
    <2> QED
      BY <2>1
  <1>2. ASSUME NEW n \in T
        PROVE  n + 1 \in T
    <2>1. n \in Nat /\ n + 1 \in Nat
      OBVIOUS
    <2>2. PICK g \in Upto(n, S, c, h) : TRUE
      OBVIOUS
    <2>3. /\ g \in [0 .. n -> S] /\ g[0] = c
          /\ \A k \in 0 .. n - 1 : g[k + 1] = h[<<k, g[k]>>]
      BY DEF Upto
    <2> DEFINE e == [k \in 0 .. n + 1 |-> IF k <= n THEN g[k] ELSE h[<<n, g[n]>>]]
    <2>4. e \in [0 .. n + 1 -> S]
      BY <2>1, <2>3
    <2>5. /\ e[0] = c
          /\ \A k \in 0 .. n : e[k] = g[k]
          /\ e[n + 1] = h[<<n, g[n]>>]
      BY <2>1, <2>3
    <2> HIDE DEF e
    <2>6. \A k \in 0 .. (n + 1) - 1 : e[k + 1] = h[<<k, e[k]>>]
      BY <2>1, <2>3, <2>5
    <2>7. e \in Upto(n + 1, S, c, h)
      BY <2>4, <2>5, <2>6 DEF Upto
    <2> QED
      BY <2>1, <2>7
  <1> HIDE DEF T
  <1>3. T \in SUBSET Nat
    BY DEF T
  <1>4. T = Nat
    BY <1>1, <1>2, <1>3, SetInduction
  <1> QED
    BY <1>4 DEF T

LEMMA UptoAgree ==
  ASSUME NEW S, NEW c \in S, NEW h \in [Nat \X S -> S],
         NEW m \in Nat, NEW n \in Nat,
         NEW f \in Upto(m, S, c, h), NEW g \in Upto(n, S, c, h),
         NEW k \in Nat, k <= m, k <= n
  PROVE  f[k] = g[k]
  <1> DEFINE T == { j \in Nat : j <= m /\ j <= n => f[j] = g[j] }
  <1>1. 0 \in T
    BY DEF Upto
  <1>2. ASSUME NEW j \in T
        PROVE  j + 1 \in T
    <2>1. j + 1 <= m /\ j + 1 <= n => f[j + 1] = g[j + 1]
      <3> SUFFICES ASSUME j + 1 <= m, j + 1 <= n
                   PROVE  f[j + 1] = g[j + 1]
        OBVIOUS
      <3>1. j \in 0 .. m - 1 /\ j \in 0 .. n - 1 /\ f[j] = g[j]
        OBVIOUS
      <3> QED
        BY <3>1 DEF Upto
    <2> QED
      BY <2>1
  <1> HIDE DEF T
  <1>3. T \in SUBSET Nat
    BY DEF T
  <1>4. T = Nat
    BY <1>1, <1>2, <1>3, SetInduction
  <1> QED
    BY <1>4 DEF T

\* f starts at c and goes on by h.
Recursive(f, S, c, h) ==
  f \in [Nat -> S] /\ f[0] = c /\ \A n \in Nat : f[n + 1] = h[<<n, f[n]>>]

\* A function may be defined by what it is at 0 and how it goes on.
LEMMA PrimitiveRecursion ==
  ASSUME NEW S, NEW c \in S, NEW h \in [Nat \X S -> S]
  PROVE  \E f : Recursive(f, S, c, h)
  <1> DEFINE g == [n \in Nat |-> CHOOSE e \in Upto(n, S, c, h) : TRUE]
             f == [n \in Nat |-> g[n][n]]
  <1>1. \A n \in Nat : g[n] \in Upto(n, S, c, h)
    BY UptoExists
  <1> HIDE DEF g
  <1>0. DOMAIN f = Nat /\ \A n \in Nat : f[n] = g[n][n] /\ f[n + 1] = g[n + 1][n + 1]
    OBVIOUS
  <1>f. f = [n \in Nat |-> f[n]]
    OBVIOUS
  <1> HIDE DEF f
  <1>2. ASSUME NEW n \in Nat
        PROVE  /\ f[n] \in S /\ f[0] = c
               /\ f[n + 1] = h[<<n, f[n]>>]
    <2>1. /\ g[n] \in Upto(n, S, c, h) /\ g[n + 1] \in Upto(n + 1, S, c, h)
          /\ g[0] \in Upto(0, S, c, h)
      BY <1>1
    <2>2. g[n][n] \in S /\ g[0][0] = c /\ g[n + 1][n + 1] = h[<<n, g[n + 1][n]>>]
      BY <2>1 DEF Upto
    <2>3. g[n][n] = g[n + 1][n]
      <3>1. n + 1 \in Nat /\ n <= n /\ n <= n + 1
        OBVIOUS
      <3> DEFINE m == n + 1
                 d == g[n]
                 e == g[m]
      <3>2. d \in Upto(n, S, c, h) /\ e \in Upto(m, S, c, h)
        BY <2>1
      <3> HIDE DEF m, d, e
      <3>3. d[n] = e[n]
        BY <3>1, <3>2, UptoAgree DEF m
      <3> QED
        BY <3>3 DEF m, d, e
    <2> QED
      <3>1. f[n] = g[n][n] /\ f[0] = g[0][0] /\ f[n + 1] = g[n + 1][n + 1]
        BY <1>0
      <3> QED
        BY <2>2, <2>3, <3>1
  <1>3. f \in [Nat -> S]
    BY <1>2, <1>f
  <1> QED
    BY <1>2, <1>3 DEF Recursive

-----------------------------------------------------------------------------
(***************************************************************************)
(* Powers.                                                                 *)
(***************************************************************************)

LEMMA PowerIs ==
  ASSUME NEW b \in Nat
  PROVE  /\ Power(b, 0) = 1
         /\ \A n \in Nat : Power(b, n) \in Nat /\ Power(b, n + 1) = b * Power(b, n)
  <1> DEFINE Is(f) == f = [k \in Nat |-> IF k = 0 THEN 1 ELSE b * f[k - 1]]
             p == CHOOSE f : Is(f)
             h == [q \in Nat \X Nat |-> b * q[2]]
  <1>1. \E f : Is(f)
    <2>1. h \in [Nat \X Nat -> Nat] /\ \A n, m \in Nat : h[<<n, m>>] = b * m
      OBVIOUS
    <2> HIDE DEF h
    <2>2. PICK f \in [Nat -> Nat] : f[0] = 1 /\ \A n \in Nat : f[n + 1] = h[<<n, f[n]>>]
      <3> DEFINE S == Nat
                 c == 1
      <3>1. h \in [Nat \X S -> S] /\ c \in S
        BY <2>1
      <3> HIDE DEF S, c
      <3>2. \E f : Recursive(f, S, c, h)
        BY <3>1, PrimitiveRecursion
      <3> QED
        BY <3>2 DEF S, c, Recursive
    <2>3. \A k \in Nat : f[k] = IF k = 0 THEN 1 ELSE b * f[k - 1]
      <3>1. ASSUME NEW k \in Nat, k # 0
            PROVE  f[k] = b * f[k - 1]
        <4>1. k - 1 \in Nat /\ (k - 1) + 1 = k
          BY <3>1
        <4>2. f[(k - 1) + 1] = h[<<k - 1, f[k - 1]>>] /\ f[k - 1] \in Nat
          BY <2>2, <4>1
        <4> QED
          BY <2>1, <4>1, <4>2
      <3> TAKE k \in Nat
      <3>2. CASE k = 0
        BY <2>2, <3>2
      <3> QED
        BY <3>1, <3>2
    <2>4. Is(f)
      BY <2>2, <2>3
    <2> QED
      BY <2>4
  <1>2. Is(p)
    BY <1>1
  <1>3. \A n : Power(b, n) = p[n]
    BY DEF Power
  <1> HIDE DEF p
  <1>4. p[0] = 1 /\ \A n \in Nat : p[n + 1] = b * p[n]
    BY <1>2
  <1> DEFINE T == { n \in Nat : p[n] \in Nat }
  <1>5. T = Nat
    <2>1. 0 \in T /\ \A n \in T : n + 1 \in T
      BY <1>4
    <2> HIDE DEF T
    <2>2. T \in SUBSET Nat
      BY DEF T
    <2> QED
      BY <2>1, <2>2, SetInduction
  <1> QED
    BY <1>3, <1>4, <1>5

LEMMA Times ==
  ASSUME NEW a \in Int, NEW b \in Int, NEW c \in Int
  PROVE  /\ a * b \in Int /\ a * (b * c) = (a * b) * c /\ a * (b + c) = a * b + a * c
         /\ a * b = b * a /\ a * (b - c) = a * b - a * c
  OBVIOUS

LEMMA TimesGrows ==
  ASSUME NEW a \in Int, NEW b \in Int, NEW c \in Nat, a <= b
  PROVE  c * a <= c * b
  OBVIOUS

LEMMA PowerAdds ==
  ASSUME NEW b \in Nat, NEW m \in Nat
  PROVE  \A n \in Nat : Power(b, m + n) = Power(b, m) * Power(b, n)
  <1> DEFINE T == { n \in Nat : Power(b, m + n) = Power(b, m) * Power(b, n) }
  <1>1. 0 \in T
    <2>1. Power(b, 0) = 1 /\ m + 0 = m /\ Power(b, m) \in Nat
      BY PowerIs
    <2> QED
      BY <2>1
  <1>2. ASSUME NEW n \in T
        PROVE  n + 1 \in T
    <2> DEFINE p == Power(b, m)
               q == Power(b, n)
    <2>1. /\ p \in Nat /\ q \in Nat /\ m + n \in Nat /\ m + (n + 1) = (m + n) + 1
          /\ Power(b, n + 1) = b * q /\ Power(b, (m + n) + 1) = b * Power(b, m + n)
          /\ Power(b, m + n) = p * q
      BY PowerIs
    <2> HIDE DEF p, q
    <2>2. b * (p * q) = p * (b * q)
      BY <2>1
    <2>3. Power(b, m + (n + 1)) = p * Power(b, n + 1)
      BY <2>1, <2>2
    <2> QED
      BY <2>3 DEF p
  <1> HIDE DEF T
  <1>3. T \in SUBSET Nat
    BY DEF T
  <1>4. T = Nat
    BY <1>1, <1>2, <1>3, SetInduction
  <1> QED
    BY <1>4 DEF T

LEMMA PowerPositive ==
  ASSUME NEW b \in Nat, b >= 1
  PROVE  \A n \in Nat : Power(b, n) \in Nat /\ Power(b, n) >= 1
  <1> DEFINE T == { n \in Nat : Power(b, n) >= 1 }
  <1>1. 0 \in T
    BY PowerIs
  <1>2. ASSUME NEW n \in T
        PROVE  n + 1 \in T
    <2>1. Power(b, n) \in Nat /\ Power(b, n) >= 1 /\ Power(b, n + 1) = b * Power(b, n)
      BY PowerIs
    <2>2. \A p \in Nat : p >= 1 => b * p >= 1
      OBVIOUS
    <2> QED
      BY <2>1, <2>2
  <1> HIDE DEF T
  <1>3. T \in SUBSET Nat
    BY DEF T
  <1>4. T = Nat
    BY <1>1, <1>2, <1>3, SetInduction
  <1> QED
    BY <1>4, PowerIs DEF T

LEMMA PowerMonotone ==
  ASSUME NEW b \in Nat, b >= 1, NEW m \in Nat, NEW n \in Nat, m <= n
  PROVE  Power(b, m) <= Power(b, n)
  <1> DEFINE d == n - m
  <1>1. d \in Nat /\ n = m + d
    OBVIOUS
  <1> HIDE DEF d
  <1>2. Power(b, n) = Power(b, m) * Power(b, d)
    BY <1>1, PowerAdds
  <1>3. Power(b, m) \in Nat /\ Power(b, d) \in Nat /\ Power(b, d) >= 1
    BY <1>1, PowerPositive
  <1>4. \A p, q \in Nat : q >= 1 => p <= p * q
    OBVIOUS
  <1> QED
    BY <1>2, <1>3, <1>4

\* The exponents of powers that bound a number from both sides are equal.
LEMMA PowerBounds ==
  ASSUME NEW b \in Nat, b >= 1, NEW m \in Nat, NEW n \in Nat, NEW w \in Nat,
         Power(b, m) <= w, w < Power(b, n)
  PROVE  m < n
  <1>1. n <= m => Power(b, n) <= Power(b, m)
    BY PowerMonotone
  <1>2. Power(b, m) \in Nat /\ Power(b, n) \in Nat
    BY PowerIs
  <1> QED
    BY <1>1, <1>2

LEMMA PowerOfTwo ==
  \A n \in Nat : Power(2, n) \in Nat /\ n < Power(2, n)
  <1> DEFINE T == { n \in Nat : n < Power(2, n) }
  <1>1. 0 \in T
    BY PowerIs
  <1>2. ASSUME NEW n \in T
        PROVE  n + 1 \in T
    <2>1. Power(2, n) \in Nat /\ n < Power(2, n) /\ Power(2, n + 1) = 2 * Power(2, n)
      BY PowerIs
    <2> QED
      BY <2>1
  <1> HIDE DEF T
  <1>3. T \in SUBSET Nat
    BY DEF T
  <1>4. T = Nat
    BY <1>1, <1>2, <1>3, SetInduction
  <1> QED
    BY <1>4, PowerIs DEF T

LEMMA PowerOfPower ==
  ASSUME NEW g \in Nat, NEW b \in Nat, b = Power(2, g)
  PROVE  \A n \in Nat : g * n \in Nat /\ Power(b, n) = Power(2, g * n)
  <1> DEFINE T == { n \in Nat : Power(b, n) = Power(2, g * n) }
  <1>1. 0 \in T
    <2>1. Power(b, 0) = 1 /\ Power(2, 0) = 1 /\ g * 0 = 0
      BY PowerIs
    <2> QED
      BY <2>1
  <1>2. ASSUME NEW n \in T
        PROVE  n + 1 \in T
    <2> DEFINE e == g * n
    <2>1. e \in Nat /\ g * (n + 1) = e + g /\ Power(b, n) = Power(2, e)
      OBVIOUS
    <2> HIDE DEF e
    <2>2. Power(2, e + g) = Power(2, e) * b
      BY <2>1, PowerAdds
    <2>3. Power(b, n + 1) = b * Power(b, n) /\ Power(b, n) \in Nat
      BY PowerIs
    <2>4. b * Power(b, n) = Power(b, n) * b
      BY <2>3
    <2>5. Power(b, n + 1) = Power(2, g * (n + 1))
      BY <2>1, <2>2, <2>3, <2>4, Zenon
    <2> QED
      BY <2>5
  <1> HIDE DEF T
  <1>3. T \in SUBSET Nat
    BY DEF T
  <1>4. T = Nat
    BY <1>1, <1>2, <1>3, SetInduction
  <1> QED
    BY <1>4 DEF T

-----------------------------------------------------------------------------
(***************************************************************************)
(* How many bytes a word takes.                                            *)
(***************************************************************************)

LEMMA DivIs ==
  ASSUME NEW a \in Nat, NEW g \in Nat, g > 0
  PROVE  /\ a \div g \in Nat /\ a % g \in 0 .. g - 1
         /\ a = g * (a \div g) + (a % g)
  <1>1. a \div g \in Nat
    OBVIOUS
  <1>2. a % g \in 0 .. g - 1
    OBVIOUS
  <1>3. a = g * (a \div g) + (a % g)
    OBVIOUS
  <1> QED
    BY <1>1, <1>2, <1>3

LEMMA ContIs ==
  /\ Cont \in Nat /\ Cont >= 2
  /\ LastIdx \in Nat /\ LastIdx >= 1 /\ LastMax \in Nat /\ LastMax < Cont
  /\ WordSize \in Nat /\ WordSize >= Cont
  <1>1. PICK g \in 1 .. Cont : Cont = Power(2, g)
    BY VarintParameters
  <1>2. Cont \in Nat /\ g \in Nat /\ g >= 1
    BY VarintParameters
  <1>3. Cont >= 2
    BY <1>1, <1>2, PowerOfTwo
  <1>4. LastIdx \in Nat /\ LastIdx >= 1 /\ LastMax \in Nat /\ LastMax < Cont
    BY <1>2, VarintParameters
  <1>5. WordSize \in Nat /\ WordSize >= Cont
    <2>1. Power(Cont, 1) <= Power(Cont, LastIdx)
      BY <1>2, <1>3, <1>4, PowerMonotone
    <2>2. Power(Cont, 0 + 1) = Cont * Power(Cont, 0) /\ Power(Cont, 0) = 1
      BY <1>2, PowerIs
    <2>3. Power(Cont, LastIdx) \in Nat
      BY <1>2, <1>4, PowerIs
    <2> DEFINE p == Power(Cont, LastIdx)
    <2>4. p \in Nat /\ Cont <= p
      BY <1>2, <2>1, <2>2, <2>3
    <2> HIDE DEF p
    <2>5. p * (LastMax + 1) \in Nat /\ p <= p * (LastMax + 1)
      BY <1>4, <2>4
    <2> QED
      BY <1>2, <2>4, <2>5 DEF WordSize, p
  <1> QED
    BY <1>2, <1>3, <1>4, <1>5

LEMMA BitLenIs ==
  ASSUME NEW w \in Nat, w <= WordSize
  PROVE  /\ BitLen(w) \in Nat /\ w < Power(2, BitLen(w))
         /\ BitLen(w) > 0 => Power(2, BitLen(w) - 1) <= w
  <1> DEFINE T == { n \in Nat : w < Power(2, n) }
  <1>1. w \in T /\ T \in SUBSET Nat
    BY PowerOfTwo
  <1>2. PICK m \in T : \A n \in T : m <= n
    BY <1>1, Least
  <1>3. m \in Nat /\ Power(2, m) > w
    OBVIOUS
  <1>4. m \in 0 .. WordSize
    BY <1>1, <1>2, <1>3, ContIs
  <1>5. m > 0 => Power(2, m - 1) <= w
    <2> SUFFICES ASSUME m > 0
                 PROVE  Power(2, m - 1) <= w
      OBVIOUS
    <2>1. m - 1 \in Nat /\ ~ (m <= m - 1)
      BY <1>3
    <2>2. m - 1 \notin T
      BY <1>2, <2>1
    <2>3. ~ (w < Power(2, m - 1)) /\ Power(2, m - 1) \in Nat
      BY <2>1, <2>2, PowerIs
    <2> QED
      BY <2>3
  <1> HIDE DEF T
  <1>6. \E n \in 0 .. WordSize : Power(2, n) > w /\ (n > 0 => Power(2, n - 1) <= w)
    BY <1>3, <1>4, <1>5
  <1>7. /\ BitLen(w) \in 0 .. WordSize /\ Power(2, BitLen(w)) > w
        /\ BitLen(w) > 0 => Power(2, BitLen(w) - 1) <= w
    BY <1>6 DEF BitLen
  <1>8. BitLen(w) \in Nat /\ Power(2, BitLen(w)) \in Nat
    BY <1>7, ContIs, PowerIs
  <1> QED
    BY <1>7, <1>8

\* A group has as many bits as the bound of its values says.
LEMMA GroupBitsIs ==
  GroupBits \in Nat /\ GroupBits >= 1 /\ Cont = Power(2, GroupBits)
  <1> DEFINE n == GroupBits
  <1>1. PICK g \in 1 .. Cont : Cont = Power(2, g)
    BY VarintParameters
  <1>2. g \in Nat /\ g >= 1 /\ Cont \in Nat /\ Cont >= 2 /\ Cont - 1 \in Nat
    BY ContIs
  <1>3. /\ n \in Nat /\ Cont - 1 < Power(2, n)
        /\ n > 0 => Power(2, n - 1) <= Cont - 1
    BY <1>2, ContIs, BitLenIs DEF GroupBits
  <1> HIDE DEF n
  <1>4. g - 1 < n
    <2>1. g - 1 \in Nat /\ (g - 1) + 1 = g
      BY <1>2
    <2>2. Power(2, (g - 1) + 1) = 2 * Power(2, g - 1) /\ Power(2, g - 1) \in Nat
      BY <2>1, PowerIs
    <2>3. Power(2, g - 1) <= Cont - 1
      BY <1>1, <1>2, <2>1, <2>2
    <2> QED
      BY <1>2, <1>3, <2>1, <2>3, PowerBounds
  <1>5. n > 0 /\ n - 1 \in Nat
    BY <1>2, <1>3, <1>4
  <1>6. n - 1 < g
    BY <1>1, <1>2, <1>3, <1>5, PowerBounds
  <1>7. n = g
    BY <1>2, <1>3, <1>4, <1>6
  <1> QED
    BY <1>1, <1>2, <1>7 DEF n

\* UvarintSize is the least number of groups that the word fits in.
LEMMA SizeIs ==
  ASSUME NEW w \in Word
  PROVE  /\ UvarintSize(w) \in Nat /\ UvarintSize(w) >= 1
         /\ w < Power(Cont, UvarintSize(w))
         /\ UvarintSize(w) > 1 => Power(Cont, UvarintSize(w) - 1) <= w
  <1> DEFINE g == GroupBits
             u == IF w % 2 = 0 THEN w + 1 ELSE w
             n == BitLen(u)
             s == (n + g - 1) \div g
  <1>1. w \in Nat /\ w < WordSize /\ u \in Nat /\ u <= WordSize /\ w <= u /\ u >= 1
    BY ContIs DEF Word
  <1>2. g \in Nat /\ g >= 1 /\ Cont \in Nat /\ Cont >= 2 /\ Cont = Power(2, g)
    BY GroupBitsIs, ContIs
  <1>3. UvarintSize(w) = s
    BY DEF UvarintSize
  <1>u. u = w \/ (w % 2 = 0 /\ u = w + 1)
    OBVIOUS
  <1> HIDE DEF u
  <1>4. /\ n \in Nat /\ u < Power(2, n)
        /\ n > 0 => Power(2, n - 1) <= u
    BY <1>1, BitLenIs
  <1> HIDE DEF g, n
  <1>5. n >= 1 /\ n - 1 \in Nat
    <2>1. n = 0 => Power(2, n) = 1
      BY PowerIs
    <2> QED
      BY <1>1, <1>4, <2>1
  <1>6. s \in Nat /\ s >= 1 /\ n <= g * s /\ g * (s - 1) <= n - 1
    <2> DEFINE a == n + g - 1
    <2>1. a \in Nat /\ a >= g
      BY <1>2, <1>4, <1>5
    <2>s. s = a \div g /\ a = n + g - 1
      OBVIOUS
    <2> HIDE DEF s, a
    <2>2. s \in Nat /\ a % g \in 0 .. g - 1 /\ a = g * s + (a % g)
      <3>1. g > 0
        BY <1>2
      <3> QED
        BY <1>2, <2>1, <2>s, <3>1, DivIs
    <2> DEFINE p == g * s
               d == a % g
    <2>3. p \in Nat /\ d \in 0 .. g - 1 /\ a = p + d /\ g * (s - 1) = p - g
      BY <1>2, <2>2
    <2>4. s = 0 => p = 0
      BY <1>2, <2>2
    <2> HIDE DEF p, d
    <2>5. p <= a /\ a <= p + g - 1 /\ s # 0
      <3>1. p <= a /\ a <= p + g - 1
        BY <1>2, <2>1, <2>3
      <3>2. s # 0
        BY <1>2, <2>1, <2>4, <3>1
      <3> QED
        BY <3>1, <3>2
    <2>6. n <= p /\ p - g <= n - 1
      BY <1>2, <1>4, <2>s, <2>3, <2>5
    <2> QED
      BY <2>2, <2>3, <2>5, <2>6 DEF p
  <1> HIDE DEF s
  <1>7. w < Power(Cont, s)
    <2>1. g * s \in Nat /\ Power(Cont, s) = Power(2, g * s)
      BY <1>2, <1>6, PowerOfPower
    <2>2. Power(2, n) <= Power(2, g * s) /\ Power(2, n) \in Nat /\ Power(2, g * s) \in Nat
      BY <1>4, <1>6, <2>1, PowerMonotone, PowerIs
    <2> QED
      BY <1>1, <1>4, <2>1, <2>2
  <1>8. s > 1 => Power(Cont, s - 1) <= w
    <2> SUFFICES ASSUME s > 1
                 PROVE  Power(Cont, s - 1) <= w
      OBVIOUS
    <2> DEFINE e == g * (s - 1)
    <2>1. s - 1 \in Nat /\ s - 1 >= 1 /\ e \in Nat /\ e >= 1
      BY <1>2, <1>6
    <2>2. Power(Cont, s - 1) = Power(2, e)
      BY <1>2, <2>1, PowerOfPower
    <2>3. Power(2, e) <= Power(2, n - 1) /\ Power(2, e) \in Nat /\ Power(2, n - 1) \in Nat
      BY <1>5, <1>6, <2>1, PowerMonotone, PowerIs
    <2> HIDE DEF e
    <2>4. Power(2, e) <= u
      BY <1>1, <1>4, <1>5, <2>3
    <2>5. e - 1 \in Nat /\ (e - 1) + 1 = e
      BY <2>1
    <2>6. Power(2, e) = 2 * Power(2, e - 1) /\ Power(2, e - 1) \in Nat
      BY <2>5, PowerIs
    <2>7. Power(2, e) <= w
      BY <1>1, <1>u, <2>4, <2>6
    <2> QED
      BY <2>2, <2>7
  <1> QED
    BY <1>3, <1>6, <1>7, <1>8

\* No other number of bytes is between these bounds.
LEMMA SizeUnique ==
  ASSUME NEW w \in Word, NEW n \in Nat, n >= 1, w < Power(Cont, n),
         n > 1 => Power(Cont, n - 1) <= w
  PROVE  UvarintSize(w) = n
  <1> DEFINE s == UvarintSize(w)
  <1>1. /\ s \in Nat /\ s >= 1 /\ w < Power(Cont, s)
        /\ s > 1 => Power(Cont, s - 1) <= w
    BY SizeIs
  <1>2. Cont \in Nat /\ Cont >= 1 /\ w \in Nat
    BY ContIs DEF Word
  <1> HIDE DEF s
  <1>3. n <= s
    <2>1. n > 1 => n - 1 < s
      BY <1>1, <1>2, PowerBounds
    <2> QED
      BY <1>1, <2>1
  <1>4. s <= n
    <2>1. s > 1 => s - 1 < n
      BY <1>1, <1>2, PowerBounds
    <2> QED
      BY <1>1, <2>1
  <1> QED
    BY <1>1, <1>3, <1>4 DEF s

-----------------------------------------------------------------------------
(***************************************************************************)
(* Digits: what is left of a word behind its first groups.                 *)
(***************************************************************************)

Left(w, k) == w \div Power(Cont, k)

LEMMA ContPower ==
  ASSUME NEW k \in Nat
  PROVE  /\ Power(Cont, k) \in Nat /\ Power(Cont, k) > 0
         /\ Power(Cont, k + 1) = Cont * Power(Cont, k)
  <1>1. Cont \in Nat /\ Cont >= 1
    BY ContIs
  <1>2. Power(Cont, k) \in Nat /\ Power(Cont, k) >= 1
    BY <1>1, PowerPositive
  <1>3. Power(Cont, k + 1) = Cont * Power(Cont, k)
    BY <1>1, PowerIs
  <1> QED
    BY <1>2, <1>3

LEMMA LeftIs ==
  ASSUME NEW w \in Nat, NEW k \in Nat
  PROVE  /\ Left(w, k) \in Nat
         /\ Power(Cont, k) * Left(w, k) \in Nat
         /\ Power(Cont, k) * Left(w, k) <= w
         /\ w < Power(Cont, k) * Left(w, k) + Power(Cont, k)
  <1> DEFINE p == Power(Cont, k)
             q == Left(w, k)
  <1>1. p \in Nat /\ p > 0
    BY ContPower
  <1>2. q = w \div p
    BY DEF Left
  <1> HIDE DEF p, q
  <1>3. q \in Nat /\ w % p \in 0 .. p - 1 /\ w = p * q + (w % p)
    BY <1>1, <1>2, DivIs
  <1> QED
    BY <1>1, <1>3 DEF p, q

LEMMA LeftFirst ==
  ASSUME NEW w \in Nat
  PROVE  Left(w, 0) = w
  <1>1. Power(Cont, 0) = 1
    BY ContIs, PowerIs
  <1> QED
    BY <1>1 DEF Left

\* v >>= 7
LEMMA LeftNext ==
  ASSUME NEW w \in Nat, NEW k \in Nat
  PROVE  /\ Left(w, k + 1) = Left(w, k) \div Cont
         /\ Left(w, k) = Cont * Left(w, k + 1) + (Left(w, k) % Cont)
         /\ Left(w, k) % Cont \in 0 .. Cont - 1
  <1> DEFINE p == Power(Cont, k)
             q == Left(w, k)
             e == q \div Cont
             d == q % Cont
  <1>1. /\ p \in Nat /\ p > 0 /\ Power(Cont, k + 1) = Cont * p
        /\ Cont \in Nat /\ Cont > 0
    BY ContIs, ContPower
  <1>2. q \in Nat /\ p * q <= w /\ w < p * q + p
    BY LeftIs
  <1> HIDE DEF q
  <1>3. e \in Nat /\ d \in 0 .. Cont - 1 /\ q = Cont * e + d
    BY <1>1, <1>2, DivIs
  <1>4. Left(w, k + 1) = w \div (Cont * p)
    BY <1>1 DEF Left
  <1> HIDE DEF p, e, d
  <1> DEFINE g == Cont * p
  <1>5. g \in Nat /\ g > 0
    BY <1>1
  <1>6. g * e <= w /\ w < g * e + g
    <2> DEFINE a == p * (Cont * e)
    <2>1. a \in Nat /\ g * e = a /\ p * d \in Nat /\ p * d + p <= g
      <3>1. a \in Nat /\ g * e = a
        BY <1>1, <1>3
      <3>2. p * d \in Nat /\ p * d + p = p * (d + 1)
        BY <1>1, <1>3
      <3>3. p * (d + 1) <= p * Cont
        BY <1>1, <1>3, TimesGrows
      <3> QED
        BY <1>1, <3>1, <3>2, <3>3
    <2>2. p * q = a + p * d
      BY <1>1, <1>3
    <2> HIDE DEF a, g
    <2> QED
      BY <1>1, <1>2, <1>5, <2>1, <2>2
  <1> HIDE DEF g
  <1>7. w \div g = e
    BY <1>3, <1>5, <1>6, DivUnique
  <1>8. Left(w, k + 1) = e
    BY <1>4, <1>7 DEF g
  <1> QED
    BY <1>3, <1>8 DEF e, d, q

\* The groups that are not the last one are those with more behind them.
LEMMA LeftLast ==
  ASSUME NEW w \in Word, NEW k \in Nat, k < UvarintSize(w)
  PROVE  /\ Left(w, k) >= Cont => k + 1 < UvarintSize(w)
         /\ Left(w, k) < Cont => k + 1 = UvarintSize(w)
  <1> DEFINE s == UvarintSize(w)
             p == Power(Cont, k)
             q == Left(w, k)
  <1>1. /\ s \in Nat /\ s >= 1 /\ w < Power(Cont, s)
        /\ s > 1 => Power(Cont, s - 1) <= w
    BY SizeIs
  <1>2. Cont \in Nat /\ Cont >= 1 /\ w \in Nat
    BY ContIs DEF Word
  <1>3. p \in Nat /\ p > 0 /\ Power(Cont, k + 1) = Cont * p
    BY <1>2, ContPower
  <1>w. w \in Nat
    BY <1>2
  <1>4. q \in Nat /\ p * q \in Nat /\ p * q <= w /\ w < p * q + p
    BY <1>w, LeftIs
  <1> HIDE DEF s, q
  <1>5. ASSUME q >= Cont
        PROVE  k + 1 < s
    <2>1. p * Cont <= p * q
      BY <1>2, <1>3, <1>4, <1>5, TimesGrows
    <2>2. Power(Cont, k + 1) <= w
      BY <1>2, <1>3, <1>4, <2>1
    <2> QED
      BY <1>1, <1>2, <2>2, PowerBounds
  <1>6. ASSUME q < Cont
        PROVE  k + 1 = s
    <2>1. p * (q + 1) <= p * Cont /\ p * (q + 1) = p * q + p
      BY <1>2, <1>3, <1>4, <1>6, TimesGrows
    <2>2. w < Power(Cont, k + 1)
      BY <1>2, <1>3, <1>4, <2>1
    <2>3. s > 1 => s - 1 < k + 1
      BY <1>1, <1>2, <2>2, PowerBounds
    <2> QED
      BY <1>1, <2>3 DEF s
  <1> QED
    BY <1>5, <1>6 DEF s, q

\* A word has at most the groups the code counts to, and the last one of them
\* is small.
LEMMA LeftInWord ==
  ASSUME NEW w \in Word
  PROVE  /\ UvarintSize(w) <= LastIdx + 1
         /\ Left(w, LastIdx) <= LastMax
  <1> DEFINE s == UvarintSize(w)
             p == Power(Cont, LastIdx)
             q == Left(w, LastIdx)
             m == LastMax + 1
  <1>1. /\ s \in Nat /\ s >= 1
        /\ s > 1 => Power(Cont, s - 1) <= w
    BY SizeIs
  <1>2. /\ Cont \in Nat /\ Cont >= 1 /\ LastIdx \in Nat /\ LastMax \in Nat
        /\ LastMax < Cont /\ w \in Nat /\ w < WordSize
    BY ContIs DEF Word
  <1>3. p \in Nat /\ p > 0 /\ Power(Cont, LastIdx + 1) = Cont * p
    BY <1>2, ContPower
  <1>w. w \in Nat /\ LastIdx \in Nat
    BY <1>2
  <1>4. q \in Nat /\ p * q \in Nat /\ p * q <= w
    BY <1>w, LeftIs
  <1>5. w < p * m
    BY <1>2 DEF WordSize
  <1>m. m \in Nat /\ m = LastMax + 1 /\ m <= Cont
    BY <1>2
  <1> HIDE DEF s, p, q, m
  <1>6. q <= LastMax
    <2>1. q >= m => p * m <= p * q
      BY <1>m, <1>3, <1>4, TimesGrows
    <2>2. p * m \in Nat
      BY <1>m, <1>3
    <2> QED
      BY <1>2, <1>m, <1>4, <1>5, <2>1, <2>2
  <1>7. s <= LastIdx + 1
    <2>1. p * m <= p * Cont /\ p * m \in Nat /\ p * Cont = Cont * p /\ p * Cont \in Nat
      BY <1>2, <1>m, <1>3, TimesGrows
    <2>2. w < Power(Cont, LastIdx + 1)
      BY <1>2, <1>3, <1>5, <2>1
    <2>3. s > 1 => s - 1 < LastIdx + 1
      BY <1>1, <1>2, <2>2, PowerBounds
    <2> QED
      BY <1>1, <1>2, <2>3
  <1> QED
    BY <1>6, <1>7 DEF s, q

-----------------------------------------------------------------------------
(***************************************************************************)
(* What Uvarint returns.                                                   *)
(***************************************************************************)

LEMMA SeqWithin ==
  ASSUME NEW S, NEW T, S \subseteq T
  PROVE  Seq(S) \subseteq Seq(T)
  OBVIOUS

LEMMA BytesAreNaturals == Seq(Byte) \subseteq Seq(Nat)
  <1>1. Byte \subseteq Nat
    BY ContIs DEF Byte
  <1> QED
    BY <1>1, SeqWithin

\* Uvarint's sum, one byte after the other.
LEMMA PayloadSums ==
  ASSUME NEW s \in Seq(Nat)
  PROVE  \E f \in [Nat -> Nat] :
           /\ f[0] = 0
           /\ \A j \in 0 .. Len(s) - 1 : f[j + 1] = f[j] + (s[j + 1] % Cont) * Power(Cont, j)
           /\ \A k \in 0 .. Len(s) : Payload(s, k) = f[k]
  <1> DEFINE S == Nat
             c == 0
             e == [j \in Nat |-> IF j < Len(s) THEN (s[j + 1] % Cont) * Power(Cont, j) ELSE 0]
             h == [q \in Nat \X S |-> q[2] + e[q[1]]]
  <1>0. Cont \in Nat /\ Cont > 0 /\ Len(s) \in Nat
    BY ContIs
  <1>1. ASSUME NEW j \in Nat
        PROVE  e[j] \in Nat
    <2>1. CASE j < Len(s)
      <3>1. s[j + 1] \in Nat
        BY <1>0, <2>1
      <3> DEFINE a == s[j + 1]
                 d == a % Cont
                 p == Power(Cont, j)
      <3>2. d \in Nat
        <4> HIDE DEF a
        <4>1. a \in Nat
          BY <3>1 DEF a
        <4> QED
          BY <1>0, <4>1
      <3>3. p \in Nat
        BY ContPower
      <3>4. e[j] = d * p
        BY <2>1
      <3> HIDE DEF d, p
      <3>5. d * p \in Nat
        BY <3>2, <3>3
      <3> QED
        BY <3>4, <3>5
    <2>2. CASE ~ (j < Len(s))
      BY <2>2
    <2> QED
      BY <2>1, <2>2
  <1>2. \A j \in 0 .. Len(s) - 1 : e[j] = (s[j + 1] % Cont) * Power(Cont, j)
    BY <1>0
  <1>e. e \in [Nat -> Nat]
    <2>1. e = [j \in Nat |-> e[j]]
      OBVIOUS
    <2> HIDE DEF e
    <2> QED
      BY <1>1, <2>1
  <1> HIDE DEF e
  <1>3. h \in [Nat \X S -> S] /\ \A n, m \in Nat : h[<<n, m>>] = m + e[n]
    <2>1. \A q \in Nat \X Nat : q[2] + e[q[1]] \in Nat
      <3> TAKE q \in Nat \X Nat
      <3>1. q[1] \in Nat /\ q[2] \in Nat
        OBVIOUS
      <3>2. e[q[1]] \in Nat
        BY <1>e, <3>1
      <3> QED
        BY <3>1, <3>2
    <2>2. h \in [Nat \X S -> S]
      BY <2>1
    <2>3. \A n, m \in Nat : h[<<n, m>>] = m + e[n]
      OBVIOUS
    <2> QED
      BY <2>2, <2>3
  <1>4. c \in S
    OBVIOUS
  <1> HIDE DEF S, c, h
  <1>5. PICK f : Recursive(f, S, c, h)
    BY <1>3, <1>4, PrimitiveRecursion
  <1>6. f \in [Nat -> Nat] /\ f[0] = 0 /\ \A n \in Nat : f[n + 1] = f[n] + e[n]
    BY <1>3, <1>5 DEF Recursive, S, c
  <1>7. \A j \in 0 .. Len(s) - 1 : f[j + 1] = f[j] + (s[j + 1] % Cont) * Power(Cont, j)
    <2> TAKE j \in 0 .. Len(s) - 1
    <2>1. j \in Nat
      BY <1>0
    <2>2. f[j + 1] = f[j] + e[j]
      BY <1>6, <2>1
    <2>3. e[j] = (s[j + 1] % Cont) * Power(Cont, j)
      BY <1>2
    <2> QED
      BY <2>2, <2>3
  <1>8. ASSUME NEW k \in 0 .. Len(s)
        PROVE  Payload(s, k) = f[k]
    <2> DEFINE Is(g) == g = [j \in 0 .. k |->
                               IF j = 0 THEN 0
                                        ELSE g[j - 1] + (s[j] % Cont) * Power(Cont, j - 1)]
               sum == CHOOSE g : Is(g)
               w == [j \in 0 .. k |-> f[j]]
    <2>0. k \in Nat /\ k <= Len(s)
      BY <1>0
    <2>1. Is(w)
      <3>1. ASSUME NEW j \in 1 .. k
            PROVE  f[j] = f[j - 1] + (s[j] % Cont) * Power(Cont, j - 1)
        <4>1. j - 1 \in 0 .. Len(s) - 1 /\ (j - 1) + 1 = j
          BY <1>0, <2>0
        <4> QED
          BY <1>7, <4>1
      <3>2. \A j \in 1 .. k : j - 1 \in 0 .. k /\ w[j - 1] = f[j - 1]
        BY <2>0
      <3>3. \A j \in 0 .. k : j = 0 \/ j \in 1 .. k
        BY <2>0
      <3>4. \A j \in 0 .. k : f[j] = IF j = 0 THEN 0
                                     ELSE w[j - 1] + (s[j] % Cont) * Power(Cont, j - 1)
        BY <1>6, <3>1, <3>2, <3>3
      <3> QED
        BY <3>4
    <2>2. Is(sum)
      <3>1. \E g : Is(g)
        BY <2>1
      <3> HIDE DEF Is
      <3> QED
        BY <3>1
    <2>3. Payload(s, k) = sum[k]
      BY DEF Payload
    <2> HIDE DEF sum
    <2>4. /\ sum[0] = 0
          /\ \A j \in 1 .. k : sum[j] = sum[j - 1] + (s[j] % Cont) * Power(Cont, j - 1)
      <3>1. \A j \in 0 .. k : sum[j] = IF j = 0 THEN 0
                               ELSE sum[j - 1] + (s[j] % Cont) * Power(Cont, j - 1)
        BY <2>2, Zenon
      <3>2. 0 \in 0 .. k /\ \A j \in 1 .. k : j \in 0 .. k /\ j # 0
        BY <2>0
      <3> QED
        BY <3>1, <3>2, Zenon
    <2> HIDE DEF Is
    <2> DEFINE T == { j \in Nat : j <= k => sum[j] = f[j] }
    <2>5. 0 \in T
      BY <1>6, <2>4
    <2>6. ASSUME NEW j \in T
          PROVE  j + 1 \in T
      <3> SUFFICES ASSUME j + 1 <= k
                   PROVE  sum[j + 1] = f[j + 1]
        OBVIOUS
      <3>1. j \in Nat /\ j + 1 \in 1 .. k /\ j \in 0 .. Len(s) - 1 /\ (j + 1) - 1 = j
        BY <1>0, <2>0
      <3>2. sum[j] = f[j]
        BY <2>0, <3>1
      <3> QED
        BY <1>7, <2>4, <3>1, <3>2
    <2> HIDE DEF T
    <2>7. T \in SUBSET Nat
      BY DEF T
    <2>8. T = Nat
      BY <2>5, <2>6, <2>7, SetInduction
    <2> QED
      BY <2>0, <2>3, <2>8 DEF T
  <1> QED
    BY <1>6, <1>7, <1>8

LEMMA PayloadIs ==
  ASSUME NEW s \in Seq(Nat)
  PROVE  /\ Payload(s, 0) = 0
         /\ \A j \in 0 .. Len(s) - 1 :
              Payload(s, j + 1) = Payload(s, j) + (s[j + 1] % Cont) * Power(Cont, j)
         /\ \A k \in 0 .. Len(s) : Payload(s, k) \in Nat
  <1>1. PICK f \in [Nat -> Nat] :
           /\ f[0] = 0
           /\ \A j \in 0 .. Len(s) - 1 : f[j + 1] = f[j] + (s[j + 1] % Cont) * Power(Cont, j)
           /\ \A k \in 0 .. Len(s) : Payload(s, k) = f[k]
    BY PayloadSums
  <1>2. Len(s) \in Nat
    OBVIOUS
  <1>3. \A k \in 0 .. Len(s) : Payload(s, k) \in Nat
    BY <1>1, <1>2
  <1>4. Payload(s, 0) = 0
    BY <1>1, <1>2
  <1>5. ASSUME NEW j \in 0 .. Len(s) - 1
        PROVE  Payload(s, j + 1) = Payload(s, j) + (s[j + 1] % Cont) * Power(Cont, j)
    <2>1. j \in 0 .. Len(s) /\ j + 1 \in 0 .. Len(s)
      BY <1>2
    <2> QED
      BY <1>1, <2>1
  <1> QED
    BY <1>3, <1>4, <1>5

\* The bits of the next byte are above those x has.
LEMMA PayloadBelow ==
  ASSUME NEW s \in Seq(Nat)
  PROVE  \A k \in 0 .. Len(s) : Payload(s, k) < Power(Cont, k)
  <1> DEFINE T == { k \in Nat : k <= Len(s) => Payload(s, k) < Power(Cont, k) }
  <1>0. Cont \in Nat /\ Cont > 0 /\ Len(s) \in Nat
    BY ContIs
  <1>1. 0 \in T
    <2>1. Power(Cont, 0) = 1 /\ Payload(s, 0) = 0
      BY <1>0, PowerIs, PayloadIs
    <2> QED
      BY <2>1
  <1>2. ASSUME NEW k \in T
        PROVE  k + 1 \in T
    <2> SUFFICES ASSUME k + 1 <= Len(s)
                 PROVE  Payload(s, k + 1) < Power(Cont, k + 1)
      OBVIOUS
    <2> DEFINE p == Power(Cont, k)
               a == Payload(s, k)
               d == s[k + 1] % Cont
    <2>1. k \in Nat /\ k \in 0 .. Len(s) - 1 /\ k \in 0 .. Len(s)
      BY <1>0
    <2>2. p \in Nat /\ p > 0 /\ Power(Cont, k + 1) = Cont * p
      BY <2>1, ContPower
    <2>3. a \in Nat /\ a < p /\ Payload(s, k + 1) = a + d * p
      BY <1>0, <2>1, PayloadIs
    <2>4. d \in Nat /\ d + 1 <= Cont
      <3> DEFINE b == s[k + 1]
      <3>1. b \in Nat
        BY <1>0, <2>1
      <3> HIDE DEF b
      <3>2. b % Cont \in 0 .. Cont - 1
        BY <1>0, <3>1, DivIs
      <3>3. d = b % Cont
        BY DEF b
      <3> QED
        BY <1>0, <3>2, <3>3
    <2> HIDE DEF p, a, d
    <2>5. p * (d + 1) <= p * Cont
      <3> DEFINE m == d + 1
      <3>1. m \in Nat /\ m <= Cont
        BY <2>4
      <3> HIDE DEF m
      <3>2. p * m <= p * Cont
        BY <1>0, <2>2, <3>1, TimesGrows
      <3> QED
        BY <3>2 DEF m
    <2>6. p * (d + 1) = d * p + p /\ p * Cont = Cont * p
      BY <1>0, <2>2, <2>4
    <2> DEFINE t == d * p
               u == Cont * p
    <2>7. t \in Nat /\ u \in Nat /\ t + p <= u /\ Payload(s, k + 1) = a + t
      BY <1>0, <2>2, <2>3, <2>4, <2>5, <2>6
    <2>8. Power(Cont, k + 1) = u
      BY <2>2
    <2> HIDE DEF t, u
    <2> QED
      BY <2>2, <2>3, <2>7, <2>8
  <1> HIDE DEF T
  <1>3. T \in SUBSET Nat
    BY DEF T
  <1>4. T = Nat
    BY <1>1, <1>2, <1>3, SetInduction
  <1> QED
    BY <1>0, <1>4 DEF T

\* The last byte of the first varint in s is byte k.
EndsAt(s, k) == k \in 1 .. Len(s) /\ s[k] < Cont /\ \A j \in 1 .. k - 1 : s[j] >= Cont

LEMMA FirstEndIs ==
  ASSUME NEW s \in Seq(Nat), NEW k, EndsAt(s, k)
  PROVE  Ends(s) # {} /\ FirstEnd(s) = k
  <1>1. Len(s) \in Nat /\ \A j \in 1 .. Len(s) : s[j] \in Nat
    BY ContIs
  <1>2. k \in Nat /\ k \in Ends(s)
    BY <1>1 DEF Ends, EndsAt
  <1>3. \A j \in Ends(s) : j \in Nat /\ k <= j
    <2> TAKE j \in Ends(s)
    <2>1. j \in 1 .. Len(s) /\ s[j] < Cont
      BY DEF Ends
    <2>2. ~ (j < k)
      <3> SUFFICES ASSUME j < k PROVE FALSE
        OBVIOUS
      <3>1. j \in 1 .. k - 1
        BY <1>1, <1>2, <2>1
      <3>2. s[j] >= Cont /\ s[j] \in Nat
        BY <1>1, <2>1, <3>1 DEF EndsAt
      <3> QED
        BY <2>1, <3>2, ContIs
    <2> QED
      BY <1>1, <1>2, <2>1, <2>2
  <1>4. \E e \in Ends(s) : \A j \in Ends(s) : e <= j
    BY <1>2, <1>3
  <1>5. FirstEnd(s) \in Ends(s) /\ \A j \in Ends(s) : FirstEnd(s) <= j
    BY <1>4 DEF FirstEnd
  <1> DEFINE e == FirstEnd(s)
  <1>6. e \in Ends(s) /\ e <= k
    BY <1>2, <1>5
  <1> HIDE DEF e
  <1>7. e \in Nat /\ k <= e
    BY <1>3, <1>6
  <1>8. e = k
    BY <1>2, <1>6, <1>7
  <1>9. Ends(s) # {}
    BY <1>2
  <1> QED
    BY <1>8, <1>9 DEF e

LEMMA UvarintIs ==
  ASSUME NEW s \in Seq(Nat), NEW k, EndsAt(s, k)
  PROVE  Uvarint(s) = IF k - 1 > LastIdx \/ (k - 1 = LastIdx /\ s[k] > LastMax)
                        THEN [n |-> 0, c |-> -k]
                        ELSE [n |-> Payload(s, k), c |-> k]
  BY FirstEndIs, Zenon DEF Uvarint

LEMMA UvarintOfTruncated ==
  ASSUME NEW s \in Seq(Nat), \A j \in 1 .. Len(s) : s[j] >= Cont
  PROVE  Uvarint(s) = [n |-> 0, c |-> 0]
  <1>1. \A j \in 1 .. Len(s) : s[j] \in Nat
    BY ContIs
  <1>2. Ends(s) = {}
    BY <1>1, ContIs DEF Ends
  <1> QED
    BY <1>2 DEF Uvarint

\* The bytes that carry the word w, whatever follows them.
Carries(s, w) ==
  /\ UvarintSize(w) <= Len(s)
  /\ \A j \in 1 .. UvarintSize(w) :
       s[j] = (Left(w, j - 1) % Cont) + (IF j < UvarintSize(w) THEN Cont ELSE 0)

LEMMA CarriedPayload ==
  ASSUME NEW s \in Seq(Nat), NEW w \in Word, Carries(s, w)
  PROVE  \A k \in 0 .. UvarintSize(w) :
           Payload(s, k) + Power(Cont, k) * Left(w, k) = w
  <1> DEFINE n == UvarintSize(w)
             T == { k \in Nat : k <= n =>
                      Payload(s, k) + Power(Cont, k) * Left(w, k) = w }
  <1>0. /\ Cont \in Nat /\ Cont > 0 /\ Len(s) \in Nat
        /\ w \in Nat /\ n \in Nat /\ n >= 1 /\ n <= Len(s)
    BY ContIs, SizeIs DEF Word, Carries
  <1>c. \A j \in 1 .. n : s[j] = (Left(w, j - 1) % Cont) + (IF j < n THEN Cont ELSE 0)
    BY DEF Carries
  <1> HIDE DEF n
  <1>1. 0 \in T
    <2>1. Power(Cont, 0) = 1 /\ Payload(s, 0) = 0 /\ Left(w, 0) = w
      BY <1>0, PowerIs, PayloadIs, LeftFirst
    <2> QED
      BY <1>0, <2>1
  <1>2. ASSUME NEW k \in T
        PROVE  k + 1 \in T
    <2> SUFFICES ASSUME k + 1 <= n
                 PROVE  Payload(s, k + 1) + Power(Cont, k + 1) * Left(w, k + 1) = w
      OBVIOUS
    <2> DEFINE p == Power(Cont, k)
               a == Payload(s, k)
               q == Left(w, k)
               e == Left(w, k + 1)
               d == q % Cont
    <2>1. /\ k \in Nat /\ k \in 0 .. Len(s) - 1 /\ k \in 0 .. Len(s)
          /\ k + 1 \in 1 .. n /\ (k + 1) - 1 = k /\ k + 1 \in Nat
      BY <1>0
    <2>2. p \in Nat /\ p > 0 /\ Power(Cont, k + 1) = Cont * p
      BY <2>1, ContPower
    <2>3. a + p * q = w
      BY <1>0, <2>1
    <2>4. d \in 0 .. Cont - 1 /\ q = Cont * e + d
      BY <1>0, <2>1, LeftNext
    <2>5. q \in Nat /\ e \in Nat
      BY <1>0, <2>1, LeftIs
    <2>6. s[k + 1] % Cont = d
      <3> DEFINE b == s[k + 1]
      <3>1. b = d + (IF k + 1 < n THEN Cont ELSE 0)
        BY <1>c, <2>1
      <3> HIDE DEF b, d
      <3>2. b % Cont = d
        <4>1. d \in 0 .. Cont - 1
          BY <2>4
        <4>2. d % Cont = d /\ (d + Cont) % Cont = d
          BY <1>0, <4>1
        <4>3. b = d \/ b = d + Cont
          BY <1>0, <3>1, <4>1
        <4> QED
          BY <4>2, <4>3
      <3> QED
        BY <3>2 DEF b
    <2>7. a \in Nat /\ Payload(s, k + 1) = a + d * p
      BY <2>1, <2>6, PayloadIs
    <2> HIDE DEF p, a, q, e, d
    <2>8. p * q = (Cont * p) * e + d * p
      <3>1. p * q = p * (Cont * e) + p * d
        BY <1>0, <2>2, <2>4, <2>5
      <3>2. p * (Cont * e) = (Cont * p) * e /\ p * d = d * p
        BY <1>0, <2>2, <2>4, <2>5
      <3> QED
        BY <3>1, <3>2
    <2> DEFINE t == d * p
               u == (Cont * p) * e
    <2>9. t \in Nat /\ u \in Nat /\ p * q = u + t
      BY <1>0, <2>2, <2>4, <2>5, <2>8
    <2>10. Payload(s, k + 1) = a + t /\ Power(Cont, k + 1) * e = u
      BY <2>2, <2>7
    <2> HIDE DEF t, u
    <2>11. Payload(s, k + 1) + Power(Cont, k + 1) * e = w
      BY <2>3, <2>7, <2>9, <2>10
    <2> QED
      BY <2>11 DEF e
  <1> HIDE DEF T
  <1>3. T \in SUBSET Nat
    BY DEF T
  <1>4. T = Nat
    BY <1>1, <1>2, <1>3, SetInduction
  <1> QED
    BY <1>0, <1>4 DEF T, n

\* Uvarint reads the word from exactly the bytes that carry it.
LEMMA CarriedWord ==
  ASSUME NEW s \in Seq(Nat), NEW w \in Word, Carries(s, w)
  PROVE  /\ Uvarint(s) = [n |-> w, c |-> UvarintSize(w)]
         /\ EndsAt(s, UvarintSize(w))
  <1> DEFINE n == UvarintSize(w)
             m == n - 1
  <1>0. /\ Cont \in Nat /\ Cont > 0 /\ Len(s) \in Nat /\ LastIdx \in Nat /\ LastMax \in Nat
        /\ w \in Nat /\ n \in Nat /\ n >= 1 /\ n <= Len(s) /\ n <= LastIdx + 1
        /\ w < Power(Cont, n)
    BY ContIs, SizeIs, LeftInWord DEF Word, Carries
  <1>1. m \in Nat /\ m < n /\ m + 1 = n
    BY <1>0
  <1>c. \A j \in 1 .. n : s[j] = (Left(w, j - 1) % Cont) + (IF j < n THEN Cont ELSE 0)
    BY DEF Carries
  <1>s. m < UvarintSize(w)
    BY <1>1
  <1> HIDE DEF n, m
  <1>2. Left(w, m) < Cont /\ Left(w, m) \in Nat
    <2>1. Left(w, m) \in Nat
      BY <1>0, <1>1, LeftIs
    <2>2. ~ (Left(w, m) >= Cont)
      <3>1. Left(w, m) >= Cont => m + 1 < UvarintSize(w)
        BY <1>1, <1>s, LeftLast
      <3> QED
        BY <1>0, <1>1, <3>1 DEF n
    <2> QED
      BY <1>0, <2>1, <2>2
  <1>3. s[n] = Left(w, m)
    <2> DEFINE q == Left(w, m)
    <2>1. n \in 1 .. n /\ n - 1 = m /\ ~ (n < n)
      BY <1>0, <1>1
    <2>2. s[n] = (q % Cont) + 0
      BY <1>c, <2>1
    <2>3. q \in Nat /\ q < Cont
      BY <1>2
    <2> HIDE DEF q
    <2>4. q % Cont = q
      BY <1>0, <2>3
    <2>5. s[n] = q
      BY <2>2, <2>3, <2>4
    <2> QED
      BY <2>5 DEF q
  <1>4. EndsAt(s, n)
    <2>1. n \in 1 .. Len(s) /\ s[n] < Cont
      BY <1>0, <1>2, <1>3
    <2>2. ASSUME NEW j \in 1 .. n - 1
          PROVE  s[j] >= Cont
      <3> DEFINE l == j - 1
                 q == Left(w, l)
      <3>1. l \in Nat /\ j \in 1 .. n /\ j < n
        BY <1>0
      <3>2. q % Cont \in 0 .. Cont - 1
        BY <1>0, <3>1, LeftNext
      <3>3. s[j] = (q % Cont) + Cont
        BY <1>c, <3>1
      <3> HIDE DEF q, l
      <3> QED
        BY <1>0, <3>2, <3>3
    <2> QED
      BY <2>1, <2>2 DEF EndsAt
  <1>5. Payload(s, n) = w
    <2>1. n \in 0 .. n
      BY <1>0
    <2>2. Payload(s, n) + Power(Cont, n) * Left(w, n) = w
      BY <2>1, CarriedPayload DEF n
    <2>3. Left(w, n) = 0
      <3> DEFINE p == Power(Cont, n)
                 q == Left(w, n)
      <3>1. p \in Nat /\ p > 0 /\ w < p
        BY <1>0, ContPower
      <3>2. q \in Nat /\ p * q \in Nat /\ p * q <= w
        BY <1>0, LeftIs
      <3> HIDE DEF p, q
      <3>3. q >= 1 => p * 1 <= p * q
        BY <3>1, <3>2, TimesGrows
      <3>4. q = 0
        BY <1>0, <3>1, <3>2, <3>3
      <3> QED
        BY <3>4 DEF q
    <2>4. Payload(s, n) \in Nat /\ Power(Cont, n) \in Nat
      <3>1. n \in 0 .. Len(s)
        BY <1>0
      <3> QED
        BY <1>0, <3>1, PayloadIs, ContPower
    <2> QED
      BY <2>2, <2>3, <2>4
  <1>6. ~ (n - 1 > LastIdx \/ (n - 1 = LastIdx /\ s[n] > LastMax))
    <2>1. ASSUME n - 1 = LastIdx
          PROVE  s[n] \in Nat /\ s[n] <= LastMax
      <3>1. m = LastIdx
        BY <1>0, <1>1, <2>1
      <3>2. Left(w, LastIdx) <= LastMax
        BY LeftInWord
      <3> QED
        BY <1>2, <1>3, <3>1, <3>2
    <2> QED
      BY <1>0, <2>1
  <1>7. Uvarint(s) = [n |-> Payload(s, n), c |-> n]
    BY <1>4, <1>6, UvarintIs, Zenon
  <1> QED
    BY <1>4, <1>5, <1>7 DEF n

\* PutUvarint and AppendUvarint write these bytes.
LEMMA UvarintBytesAre ==
  ASSUME NEW w \in Word
  PROVE  UvarintBytes(w) =
           [j \in 1 .. UvarintSize(w) |->
              (Left(w, j - 1) % Cont) + (IF j < UvarintSize(w) THEN Cont ELSE 0)]
  <1> DEFINE groups == { k \in 1 .. (LastIdx + 1) : Power(Cont, k) > w }
             n == CHOOSE k \in groups : \A j \in groups : k <= j
             s == UvarintSize(w)
  <1>0. /\ Cont \in Nat /\ Cont >= 1 /\ LastIdx \in Nat /\ w \in Nat
        /\ s \in Nat /\ s >= 1 /\ s <= LastIdx + 1 /\ w < Power(Cont, s)
        /\ s > 1 => Power(Cont, s - 1) <= w
    BY ContIs, SizeIs, LeftInWord DEF Word
  <1> HIDE DEF s
  <1>1. s \in groups
    BY <1>0
  <1>2. \A k \in groups : k \in Nat /\ s <= k
    <2> TAKE k \in groups
    <2>1. k \in Nat /\ k >= 1 /\ w < Power(Cont, k)
      BY <1>0
    <2>2. s > 1 => s - 1 < k
      BY <1>0, <2>1, PowerBounds
    <2> QED
      BY <1>0, <2>1, <2>2
  <1>3. UvarintBytes(w) =
          [j \in 1 .. n |-> ((w \div Power(Cont, j - 1)) % Cont) + (IF j < n THEN Cont ELSE 0)]
    BY DEF UvarintBytes
  <1> HIDE DEF groups
  <1>4. n \in groups /\ \A j \in groups : n <= j
    <2>1. \E k \in groups : \A j \in groups : k <= j
      BY <1>1, <1>2
    <2> QED
      BY <2>1
  <1> HIDE DEF n
  <1>5. n = s
    <2>1. n \in Nat /\ s <= n /\ n <= s
      BY <1>1, <1>2, <1>4
    <2> QED
      BY <1>0, <2>1
  <1> QED
    BY <1>3, <1>5 DEF s, Left

LEMMA UvarintBytesInByte ==
  ASSUME NEW w \in Word
  PROVE  UvarintBytes(w) \in Seq(Byte) /\ Len(UvarintBytes(w)) = UvarintSize(w)
  <1> DEFINE n == UvarintSize(w)
             b == [j \in 1 .. n |-> (Left(w, j - 1) % Cont) + (IF j < n THEN Cont ELSE 0)]
  <1>0. n \in Nat /\ Cont \in Nat /\ Cont > 0 /\ w \in Nat
    BY ContIs, SizeIs DEF Word
  <1>1. ASSUME NEW j \in 1 .. n
        PROVE  (Left(w, j - 1) % Cont) + (IF j < n THEN Cont ELSE 0) \in Byte
    <2> DEFINE l == j - 1
               d == Left(w, l) % Cont
    <2>1. l \in Nat
      BY <1>0
    <2>2. d \in 0 .. Cont - 1
      BY <1>0, <2>1, LeftNext
    <2> HIDE DEF d
    <2>3. d \in Byte /\ d + Cont \in Byte /\ d + 0 = d
      BY <1>0, <2>2 DEF Byte
    <2> QED
      BY <2>3 DEF d
  <1>2. UvarintBytes(w) = b
    BY UvarintBytesAre
  <1>3. b \in [1 .. n -> Byte]
    BY <1>1
  <1> HIDE DEF b
  <1>4. b \in Seq(Byte) /\ Len(b) = n
    BY <1>0, <1>3
  <1> QED
    BY <1>2, <1>4

\* What the decoder relies on: the varint of a word reads back as that word
\* from exactly its bytes, whatever follows them.
THEOREM UvarintInverse ==
  ASSUME NEW w \in Word, NEW s \in Seq(Nat)
  PROVE  Uvarint(UvarintBytes(w) \o s) = [n |-> w, c |-> UvarintSize(w)]
  <1> DEFINE b == UvarintBytes(w)
             n == UvarintSize(w)
             t == b \o s
  <1>1. b \in Seq(Byte) /\ Len(b) = n
    BY UvarintBytesInByte
  <1>2. /\ b = [j \in 1 .. n |-> (Left(w, j - 1) % Cont) + (IF j < n THEN Cont ELSE 0)]
        /\ n \in Nat
    BY UvarintBytesAre, SizeIs
  <1>3. \A j \in 1 .. n : b[j] = (Left(w, j - 1) % Cont) + (IF j < n THEN Cont ELSE 0)
    BY <1>2
  <1> HIDE DEF b, n
  <1>4. t \in Seq(Nat) /\ n <= Len(t) /\ \A j \in 1 .. n : t[j] = b[j]
    <2>1. b \in Seq(Nat) /\ Len(s) \in Nat
      BY <1>1, BytesAreNaturals
    <2>2. t \in Seq(Nat) /\ Len(t) = Len(b) + Len(s)
      BY <2>1, ConcatProperties
    <2>3. \A j \in 1 .. Len(b) + Len(s) :
            t[j] = IF j <= Len(b) THEN b[j] ELSE s[j - Len(b)]
      BY <2>1, ConcatProperties
    <2> HIDE DEF t
    <2> QED
      BY <1>1, <1>2, <2>1, <2>2, <2>3
  <1> HIDE DEF t
  <1>5. Carries(t, w)
    BY <1>3, <1>4 DEF Carries, n
  <1>6. Uvarint(t) = [n |-> w, c |-> UvarintSize(w)]
    BY <1>4, <1>5, CarriedWord
  <1> QED
    BY <1>6 DEF t, b

\* The sum of the groups that Uvarint accepts is a word: no shift drops a bit
\* of it.
LEMMA AcceptedInWord ==
  ASSUME NEW s \in Seq(Nat), NEW k \in 0 .. Len(s) - 1,
         k < LastIdx \/ (k = LastIdx /\ s[k + 1] <= LastMax)
  PROVE  /\ Payload(s, k + 1) \in Nat /\ Payload(s, k + 1) < WordSize
         /\ (Payload(s, k) + (s[k + 1] % Cont) * Power(Cont, k)) % WordSize
              = Payload(s, k + 1)
  <1> DEFINE l == k + 1
             a == Payload(s, k)
             e == Payload(s, l)
             p == Power(Cont, k)
             b == s[l]
             d == b % Cont
  <1>0. /\ Cont \in Nat /\ Cont >= 1 /\ LastIdx \in Nat /\ LastMax \in Nat
        /\ LastMax < Cont /\ WordSize \in Nat /\ Len(s) \in Nat
    BY ContIs
  <1>1. k \in Nat /\ k \in 0 .. Len(s) /\ l \in Nat /\ l \in 1 .. Len(s) /\ l \in 0 .. Len(s)
    BY <1>0
  <1>2. a \in Nat /\ a < p /\ e \in Nat /\ e < Power(Cont, l) /\ e = a + d * p
    BY <1>1, PayloadIs, PayloadBelow
  <1>3. p \in Nat /\ p > 0 /\ Power(Cont, LastIdx) \in Nat
    BY <1>0, <1>1, ContPower
  <1>4. b \in Nat
    BY <1>0, <1>1
  <1> HIDE DEF a, e, p, b
  <1>5. ASSUME k < LastIdx
        PROVE  e < WordSize
    <2>1. Power(Cont, l) <= Power(Cont, LastIdx)
      BY <1>0, <1>1, <1>5, PowerMonotone
    <2> DEFINE q == Power(Cont, LastIdx)
               m == LastMax + 1
    <2>2. q \in Nat /\ m \in Nat /\ m >= 1 /\ WordSize = q * m
      BY <1>0, <1>3 DEF WordSize
    <2>3. Power(Cont, l) \in Nat /\ Power(Cont, l) <= q
      BY <1>0, <1>1, <2>1, ContPower
    <2> HIDE DEF q, m, l
    <2>4. q * 1 <= q * m
      BY <2>2, TimesGrows
    <2>5. e \in Nat /\ e < Power(Cont, l)
      BY <1>2
    <2> QED
      BY <2>2, <2>3, <2>4, <2>5
  <1>6. ASSUME k = LastIdx, b <= LastMax
        PROVE  e < WordSize
    <2> DEFINE m == LastMax + 1
               c == d + 1
    <2>1. d = b
      BY <1>0, <1>4, <1>6
    <2>2. m \in Nat /\ c \in Nat /\ c <= m /\ d \in Nat /\ WordSize = p * m
      BY <1>0, <1>4, <1>6, <2>1 DEF WordSize, p
    <2> HIDE DEF m, d
    <2>3. p * c = d * p + p
      BY <1>3, <2>2
    <2> HIDE DEF c
    <2>4. p * c <= p * m
      BY <1>3, <2>2, TimesGrows
    <2> DEFINE t == d * p
    <2>5. t \in Nat /\ e = a + t /\ p * c = t + p
      BY <1>2, <1>3, <2>2, <2>3
    <2> HIDE DEF t
    <2> QED
      BY <1>2, <1>3, <2>2, <2>4, <2>5
  <1>7. e < WordSize
    BY <1>5, <1>6 DEF b
  <1>8. (a + d * p) % WordSize = e
    <2>1. e % WordSize = e
      BY <1>0, <1>2, <1>7
    <2> QED
      BY <1>2, <2>1
  <1> QED
    BY <1>2, <1>7, <1>8 DEF a, e, p, b

LEMMA EndsSomewhere ==
  ASSUME NEW s \in Seq(Nat)
  PROVE  (\E k : EndsAt(s, k)) \/ (\A j \in 1 .. Len(s) : s[j] >= Cont)
  <1>0. Len(s) \in Nat /\ Cont \in Nat /\ \A j \in 1 .. Len(s) : s[j] \in Nat
    BY ContIs
  <1>1. SUFFICES ASSUME ~ \A j \in 1 .. Len(s) : s[j] >= Cont
                 PROVE  \E k : EndsAt(s, k)
    OBVIOUS
  <1>2. Ends(s) # {} /\ Ends(s) \in SUBSET Nat
    BY <1>0, <1>1 DEF Ends
  <1>3. PICK k \in Ends(s) : \A j \in Ends(s) : k <= j
    BY <1>2, Least
  <1>4. k \in 1 .. Len(s) /\ s[k] < Cont
    BY DEF Ends
  <1>5. ASSUME NEW j \in 1 .. k - 1
        PROVE  s[j] >= Cont
    <2>1. j \in 1 .. Len(s) /\ ~ (k <= j)
      BY <1>0, <1>4
    <2>2. j \notin Ends(s)
      BY <1>3, <2>1
    <2>3. ~ (s[j] < Cont) /\ s[j] \in Nat
      BY <1>0, <2>1, <2>2 DEF Ends
    <2> QED
      BY <1>0, <2>3
  <1> QED
    BY <1>4, <1>5 DEF EndsAt

\* What Uvarint's callers rely on: the value is a word, and the count never
\* goes past the slice.
THEOREM UvarintInSlice ==
  ASSUME NEW s \in Seq(Nat)
  PROVE  /\ Uvarint(s).n \in Word
         /\ Uvarint(s).c \in Int /\ Uvarint(s).c <= Len(s)
  <1>0. /\ Len(s) \in Nat /\ LastIdx \in Nat /\ LastMax \in Nat /\ Cont \in Nat
        /\ 0 \in Word
    BY ContIs DEF Word
  <1>1. ASSUME NEW k, EndsAt(s, k)
        PROVE  /\ Uvarint(s).n \in Word
               /\ Uvarint(s).c \in Int /\ Uvarint(s).c <= Len(s)
    <2>1. k \in 1 .. Len(s) /\ k \in Nat /\ s[k] \in Nat
      BY <1>0, <1>1 DEF EndsAt, Byte
    <2>2. CASE k - 1 > LastIdx \/ (k - 1 = LastIdx /\ s[k] > LastMax)
      <3>1. Uvarint(s) = [n |-> 0, c |-> -k]
        BY <1>1, <2>2, UvarintIs, Zenon
      <3> QED
        BY <1>0, <2>1, <3>1
    <2>3. CASE ~ (k - 1 > LastIdx \/ (k - 1 = LastIdx /\ s[k] > LastMax))
      <3> DEFINE m == k - 1
      <3>1. m + 1 = k /\ m \in 0 .. Len(s) - 1
        BY <1>0, <2>1
      <3>2. m < LastIdx \/ (m = LastIdx /\ s[m + 1] <= LastMax)
        BY <1>0, <2>1, <2>3, <3>1
      <3> HIDE DEF m
      <3>3. Payload(s, m + 1) \in Nat /\ Payload(s, m + 1) < WordSize
        BY <3>1, <3>2, AcceptedInWord
      <3>4. Payload(s, k) \in Word
        BY <3>1, <3>3, ContIs DEF Word
      <3>5. Uvarint(s) = [n |-> Payload(s, k), c |-> k]
        BY <1>1, <2>3, UvarintIs, Zenon
      <3> QED
        BY <1>0, <2>1, <3>4, <3>5
    <2> QED
      BY <2>2, <2>3
  <1>2. ASSUME \A j \in 1 .. Len(s) : s[j] >= Cont
        PROVE  /\ Uvarint(s).n \in Word
               /\ Uvarint(s).c \in Int /\ Uvarint(s).c <= Len(s)
    <2>1. Uvarint(s) = [n |-> 0, c |-> 0]
      BY <1>2, UvarintOfTruncated
    <2> QED
      BY <1>0, <2>1
  <1> QED
    BY <1>1, <1>2, EndsSomewhere

\* A varint reads the same from every slice that has all of its bytes, and not
\* at all from a shorter one.
THEOREM UvarintOfPrefix ==
  ASSUME NEW s \in Seq(Nat), NEW m \in 0 .. Len(s), Uvarint(s).c > 0
  PROVE  IF Uvarint(s).c <= m
           THEN Uvarint(SubSeq(s, 1, m)) = Uvarint(s)
           ELSE Uvarint(SubSeq(s, 1, m)).c <= 0
  <1> DEFINE t == SubSeq(s, 1, m)
  <1>0. /\ Len(s) \in Nat /\ m \in Nat /\ Cont \in Nat /\ LastIdx \in Nat
        /\ t \in Seq(Nat) /\ Len(t) = m /\ \A j \in 1 .. m : t[j] = s[j]
    BY ContIs
  <1> HIDE DEF t
  <1>1. ~ \A j \in 1 .. Len(s) : s[j] >= Cont
    <2> SUFFICES ASSUME \A j \in 1 .. Len(s) : s[j] >= Cont
                 PROVE  FALSE
      OBVIOUS
    <2>1. Uvarint(s) = [n |-> 0, c |-> 0]
      BY UvarintOfTruncated
    <2> QED
      BY <2>1
  <1>2. PICK k : EndsAt(s, k)
    BY <1>1, EndsSomewhere
  <1>3. k \in 1 .. Len(s) /\ k \in Nat
    BY <1>0, <1>2 DEF EndsAt
  <1>4. Uvarint(s) = IF k - 1 > LastIdx \/ (k - 1 = LastIdx /\ s[k] > LastMax)
                       THEN [n |-> 0, c |-> -k]
                       ELSE [n |-> Payload(s, k), c |-> k]
    BY <1>2, UvarintIs, Zenon
  <1>5. /\ ~ (k - 1 > LastIdx \/ (k - 1 = LastIdx /\ s[k] > LastMax))
        /\ Uvarint(s) = [n |-> Payload(s, k), c |-> k]
    BY <1>3, <1>4
  <1>6. ASSUME k <= m
        PROVE  Uvarint(t) = Uvarint(s)
    <2>1. EndsAt(t, k) /\ t[k] = s[k]
      <3>1. k \in 1 .. m /\ k \in 1 .. Len(t)
        BY <1>0, <1>3, <1>6
      <3>2. t[k] = s[k]
        BY <1>0, <3>1
      <3>3. ASSUME NEW j \in 1 .. k - 1
            PROVE  t[j] >= Cont
        <4>1. j \in 1 .. m
          BY <1>0, <1>3, <1>6
        <4>2. t[j] = s[j] /\ s[j] >= Cont
          BY <1>0, <1>2, <4>1 DEF EndsAt
        <4> QED
          BY <4>2
      <3>4. s[k] < Cont
        BY <1>2 DEF EndsAt
      <3> QED
        BY <3>1, <3>2, <3>3, <3>4 DEF EndsAt
    <2>2. Uvarint(t) = [n |-> Payload(t, k), c |-> k]
      BY <1>0, <1>5, <2>1, UvarintIs, Zenon
    <2>3. Payload(t, k) = Payload(s, k)
      <3> DEFINE T == { j \in Nat : j <= m => Payload(t, j) = Payload(s, j) }
      <3>1. 0 \in T
        BY <1>0, PayloadIs
      <3>2. ASSUME NEW j \in T
            PROVE  j + 1 \in T
        <4> SUFFICES ASSUME j + 1 <= m
                     PROVE  Payload(t, j + 1) = Payload(s, j + 1)
          OBVIOUS
        <4>1. /\ j \in Nat /\ j \in 0 .. Len(s) - 1 /\ j \in 0 .. Len(t) - 1
              /\ j + 1 \in 1 .. m
          BY <1>0
        <4>2. Payload(t, j) = Payload(s, j) /\ t[j + 1] = s[j + 1]
          BY <1>0, <4>1
        <4>3. /\ Payload(s, j + 1) = Payload(s, j) + (s[j + 1] % Cont) * Power(Cont, j)
              /\ Payload(t, j + 1) = Payload(t, j) + (t[j + 1] % Cont) * Power(Cont, j)
          BY <1>0, <4>1, PayloadIs
        <4> QED
          BY <4>2, <4>3, Zenon
      <3> HIDE DEF T
      <3>3. T \in SUBSET Nat
        BY DEF T
      <3>4. T = Nat
        BY <3>1, <3>2, <3>3, SetInduction
      <3> QED
        BY <1>3, <1>6, <3>4 DEF T
    <2> QED
      BY <1>5, <2>2, <2>3
  <1>7. ASSUME ~ (k <= m)
        PROVE  Uvarint(t).c <= 0
    <2>1. \A j \in 1 .. Len(t) : t[j] >= Cont
      <3> TAKE j \in 1 .. Len(t)
      <3>1. j \in 1 .. k - 1 /\ t[j] = s[j]
        BY <1>0, <1>3, <1>7
      <3> QED
        BY <1>2, <3>1 DEF EndsAt
    <2>2. Uvarint(t) = [n |-> 0, c |-> 0]
      BY <1>0, <2>1, UvarintOfTruncated
    <2> QED
      BY <2>2
  <1> QED
    BY <1>5, <1>6, <1>7 DEF t

-----------------------------------------------------------------------------
(***************************************************************************)
(* The loops.                                                              *)
(***************************************************************************)

Written == v0 \in Word /\ Carries(buf, v0) /\ put = UvarintSize(v0)

\* PutUvarint has written the first i groups of the word.
Putting ==
  pc = "put" =>
    /\ v0 \in Word /\ x = 0
    /\ i \in Nat /\ i < UvarintSize(v0) /\ UvarintSize(v0) <= Len(buf)
    /\ v = Left(v0, i)
    /\ \A j \in 1 .. i : buf[j] = (Left(v0, j - 1) % Cont) + Cont

\* Uvarint has read i bytes that end no varint; a sum of more groups than a
\* word has is never returned.
Getting ==
  pc = "get" =>
    /\ v0 # -1 => Written
    /\ i \in 0 .. Len(buf)
    /\ \A j \in 1 .. i : buf[j] >= Cont
    /\ i <= LastIdx => x = Payload(buf, i)

Returned ==
  pc = "done" =>
    /\ v0 # -1 => Written
    /\ ret = Uvarint(buf)

LoopInv ==
  /\ pc \in { "put", "get", "done" }
  /\ buf \in Seq(Byte)
  /\ Putting
  /\ Getting
  /\ Returned

LEMMA LoopInit ==
  ASSUME Init
  PROVE  LoopInv
  <1>0. i = 0 /\ x = 0
    BY DEF Init
  <1>1. ASSUME v0 \in Word, v = v0, pc = "put",
               buf \in { [k \in 1 .. (UvarintSize(v0) + n) |-> Fill] : n \in 0 .. 1 }
        PROVE  LoopInv
    <2>1. PICK n \in 0 .. 1 : buf = [k \in 1 .. (UvarintSize(v0) + n) |-> Fill]
      BY <1>1
    <2> DEFINE l == UvarintSize(v0) + n
    <2>2. UvarintSize(v0) \in Nat /\ UvarintSize(v0) >= 1 /\ v0 \in Nat
      BY <1>1, SizeIs, ContIs DEF Word
    <2>3. l \in Nat /\ UvarintSize(v0) <= l
      BY <2>2
    <2>4. Fill \in Byte
      BY ContIs DEF Fill, Byte
    <2>5. buf \in Seq(Byte) /\ Len(buf) = l
      <3> HIDE DEF l
      <3>1. \A m \in Nat : [k \in 1 .. m |-> Fill] \in Seq(Byte)
                           /\ Len([k \in 1 .. m |-> Fill]) = m
        BY <2>4
      <3>2. buf = [k \in 1 .. l |-> Fill]
        BY <2>1 DEF l
      <3> QED
        BY <2>3, <3>1, <3>2
    <2>6. Left(v0, 0) = v0
      BY <2>2, LeftFirst
    <2>7. Putting
      BY <1>0, <1>1, <2>2, <2>3, <2>5, <2>6 DEF Putting
    <2> QED
      BY <1>1, <2>5, <2>7 DEF LoopInv, Getting, Returned
  <1>2. ASSUME v0 = -1, buf \in Buffers, pc = "get"
        PROVE  LoopInv
    <2>1. PICK n \in 0 .. MaxLen : buf \in [1 .. n -> Byte]
      BY <1>2 DEF Buffers
    <2>2. n \in Nat
      BY MaxLenAssumption
    <2>3. buf \in Seq(Byte) /\ Len(buf) \in Nat
      BY <2>1, <2>2
    <2>4. Payload(buf, 0) = 0
      BY <2>3, BytesAreNaturals, PayloadIs
    <2>5. Getting
      BY <1>0, <1>2, <2>3, <2>4 DEF Getting
    <2> QED
      BY <1>2, <2>3, <2>5 DEF LoopInv, Putting, Returned
  <1> QED
    BY <1>1, <1>2 DEF Init

LEMMA PutMoreKeeps ==
  ASSUME LoopInv, PutMore
  PROVE  LoopInv'
  <1>1. /\ pc = "put" /\ v >= Cont /\ v0' = v0 /\ x' = x /\ ret' = ret
        /\ i >= Len(buf) => pc' = "panic"
        /\ ~ (i >= Len(buf)) => /\ buf' = [buf EXCEPT ![i + 1] = (v % Cont) + Cont]
                                /\ v' = v \div Cont /\ i' = i + 1 /\ pc' = pc
    BY DEF PutMore
  <1>2. /\ v0 \in Word /\ x = 0
        /\ i \in Nat /\ i < UvarintSize(v0) /\ UvarintSize(v0) <= Len(buf)
        /\ v = Left(v0, i)
        /\ \A j \in 1 .. i : buf[j] = (Left(v0, j - 1) % Cont) + Cont
        /\ buf \in Seq(Byte)
    BY <1>1 DEF LoopInv, Putting
  <1>3. /\ UvarintSize(v0) \in Nat /\ Len(buf) \in Nat /\ v0 \in Nat
        /\ Cont \in Nat /\ Cont > 0
    BY <1>2, SizeIs, ContIs DEF Word
  <1> DEFINE d == v % Cont
             l == i + 1
  <1>4. /\ Left(v0, l) = v \div Cont /\ d \in 0 .. Cont - 1 /\ l < UvarintSize(v0)
        /\ l \in Nat
    BY <1>1, <1>2, <1>3, LeftNext, LeftLast
  <1>5. ~ (i >= Len(buf)) /\ l \in 1 .. Len(buf)
    BY <1>2, <1>3
  <1>6. d + Cont \in Byte
    BY <1>3, <1>4 DEF Byte
  <1>7. /\ buf' \in Seq(Byte) /\ Len(buf') = Len(buf)
        /\ buf'[l] = d + Cont
        /\ \A j \in 1 .. i : buf'[j] = buf[j]
    <2>1. buf' = [buf EXCEPT ![l] = d + Cont]
      BY <1>1, <1>5
    <2> HIDE DEF d
    <2>2. \A j \in 1 .. i : j \in 1 .. Len(buf) /\ j # l
      BY <1>2, <1>3
    <2> HIDE DEF l
    <2> QED
      BY <1>2, <1>3, <1>5, <1>6, <2>1, <2>2
  <1>8. \A j \in 1 .. l : buf'[j] = (Left(v0, j - 1) % Cont) + Cont
    <2> TAKE j \in 1 .. l
    <2>1. CASE j \in 1 .. i
      BY <1>2, <1>7, <2>1
    <2>2. CASE j = l
      <3>1. l - 1 = i
        BY <1>2
      <3> QED
        BY <1>2, <1>7, <2>2, <3>1
    <2> QED
      BY <1>2, <2>1, <2>2
  <1> HIDE DEF d
  <1>9. Putting'
    <2>1. /\ v0' \in Word /\ x' = 0 /\ i' = l /\ v' = Left(v0, l)
          /\ UvarintSize(v0) <= Len(buf')
      BY <1>1, <1>2, <1>4, <1>5, <1>7
    <2> HIDE DEF l
    <2> QED
      BY <1>1, <1>4, <1>8, <2>1 DEF Putting
  <1>10. pc' = "put"
    BY <1>1, <1>5
  <1> QED
    BY <1>7, <1>9, <1>10 DEF LoopInv, Getting, Returned

LEMMA PutLastKeeps ==
  ASSUME LoopInv, PutLast
  PROVE  LoopInv'
  <1>1. /\ pc = "put" /\ v < Cont /\ v0' = v0 /\ x' = x /\ ret' = ret
        /\ i >= Len(buf) => pc' = "panic"
        /\ ~ (i >= Len(buf)) => /\ buf' = [buf EXCEPT ![i + 1] = v]
                                /\ i' = 0 /\ put' = i + 1 /\ pc' = "get"
    BY DEF PutLast
  <1>2. /\ v0 \in Word /\ x = 0
        /\ i \in Nat /\ i < UvarintSize(v0) /\ UvarintSize(v0) <= Len(buf)
        /\ v = Left(v0, i)
        /\ \A j \in 1 .. i : buf[j] = (Left(v0, j - 1) % Cont) + Cont
        /\ buf \in Seq(Byte)
    BY <1>1 DEF LoopInv, Putting
  <1>3. /\ UvarintSize(v0) \in Nat /\ Len(buf) \in Nat /\ v0 \in Nat
        /\ Cont \in Nat /\ Cont > 0
    BY <1>2, SizeIs, ContIs DEF Word
  <1> DEFINE l == i + 1
  <1>4. v \in Nat /\ l = UvarintSize(v0) /\ l \in Nat
    BY <1>1, <1>2, <1>3, LeftIs, LeftLast
  <1>5. ~ (i >= Len(buf)) /\ l \in 1 .. Len(buf)
    BY <1>2, <1>3
  <1>6. v \in Byte /\ v % Cont = v
    BY <1>1, <1>3, <1>4 DEF Byte
  <1>7. /\ buf' \in Seq(Byte) /\ Len(buf') = Len(buf)
        /\ buf'[l] = v
        /\ \A j \in 1 .. i : buf'[j] = buf[j]
    <2>1. buf' = [buf EXCEPT ![l] = v]
      BY <1>1, <1>5
    <2>2. \A j \in 1 .. i : j \in 1 .. Len(buf) /\ j # l
      BY <1>2, <1>3
    <2> HIDE DEF l
    <2> QED
      BY <1>2, <1>3, <1>5, <1>6, <2>1, <2>2
  <1>8. \A j \in 1 .. l : buf'[j] = (Left(v0, j - 1) % Cont) + (IF j < l THEN Cont ELSE 0)
    <2> TAKE j \in 1 .. l
    <2>1. CASE j \in 1 .. i
      BY <1>2, <1>7, <2>1
    <2>2. CASE j = l
      <3>1. l - 1 = i
        BY <1>2
      <3>2. Left(v0, j - 1) % Cont = v
        BY <1>2, <1>6, <2>2, <3>1
      <3> QED
        BY <1>4, <1>7, <2>2, <3>2
    <2> QED
      BY <1>2, <2>1, <2>2
  <1> HIDE DEF l
  <1>9. Carries(buf', v0)
    BY <1>2, <1>4, <1>7, <1>8 DEF Carries
  <1>10. Written'
    <2>1. put' = UvarintSize(v0)
      BY <1>1, <1>4, <1>5 DEF l
    <2> QED
      BY <1>1, <1>2, <1>9, <2>1 DEF Written
  <1>11. Getting'
    <2>1. pc' = "get" /\ i' = 0 /\ x' = 0 /\ Len(buf') \in Nat
      BY <1>1, <1>2, <1>3, <1>5, <1>7
    <2>2. Payload(buf', 0) = 0
      BY <1>7, BytesAreNaturals, PayloadIs
    <2>3. 0 \in 0 .. Len(buf')
      BY <2>1
    <2> QED
      BY <1>10, <2>1, <2>2, <2>3 DEF Getting
  <1>12. pc' = "get"
    BY <1>1, <1>5
  <1> QED
    BY <1>7, <1>11, <1>12 DEF LoopInv, Putting, Returned

LEMMA GetMoreKeeps ==
  ASSUME LoopInv, GetMore
  PROVE  LoopInv'
  <1> DEFINE l == i + 1
  <1>1. /\ pc = "get" /\ i < Len(buf) /\ buf[l] >= Cont
        /\ x' = OrShifted(buf[l] % Cont) /\ i' = l
        /\ v0' = v0 /\ v' = v /\ buf' = buf /\ put' = put /\ ret' = ret /\ pc' = pc
    BY DEF GetMore
  <1>2. /\ v0 # -1 => Written
        /\ i \in 0 .. Len(buf)
        /\ \A j \in 1 .. i : buf[j] >= Cont
        /\ i <= LastIdx => x = Payload(buf, i)
        /\ buf \in Seq(Byte) /\ Len(buf) \in Nat
    BY <1>1 DEF LoopInv, Getting
  <1>3. i \in Nat /\ i \in 0 .. Len(buf) - 1 /\ l \in 0 .. Len(buf) /\ LastIdx \in Nat
    BY <1>1, <1>2, ContIs
  <1>4. \A j \in 1 .. l : buf[j] >= Cont
    <2>1. \A j \in 1 .. l : j \in 1 .. i \/ j = l
      BY <1>3
    <2> QED
      BY <1>1, <1>2, <2>1
  <1>5. ASSUME l <= LastIdx
        PROVE  x' = Payload(buf, l)
    <2>1. i < LastIdx /\ i <= LastIdx
      BY <1>3, <1>5
    <2>2. (Payload(buf, i) + (buf[i + 1] % Cont) * Power(Cont, i)) % WordSize
            = Payload(buf, i + 1)
      BY <1>2, <1>3, <2>1, BytesAreNaturals, AcceptedInWord
    <2>3. x = Payload(buf, i)
      BY <1>2, <2>1
    <2> QED
      BY <1>1, <2>2, <2>3 DEF OrShifted
  <1>6. v0' # -1 => Written'
    <2>1. Written => Written'
      BY <1>1 DEF Written
    <2> QED
      BY <1>1, <1>2, <2>1
  <1>7. Getting'
    <2> HIDE DEF l
    <2> QED
      BY <1>1, <1>3, <1>4, <1>5, <1>6 DEF Getting
  <1> QED
    BY <1>1, <1>2, <1>7 DEF LoopInv, Putting, Returned

LEMMA GetLastKeeps ==
  ASSUME LoopInv, GetLast
  PROVE  LoopInv'
  <1> DEFINE l == i + 1
  <1>1. /\ pc = "get" /\ i < Len(buf) /\ buf[l] < Cont
        /\ ret' = IF Overflows(buf[l])
                    THEN [n |-> 0, c |-> -l]
                    ELSE [n |-> OrShifted(buf[l]), c |-> l]
        /\ pc' = "done"
        /\ v0' = v0 /\ v' = v /\ buf' = buf /\ i' = i /\ x' = x /\ put' = put
    BY DEF GetLast
  <1>2. /\ v0 # -1 => Written
        /\ i \in 0 .. Len(buf)
        /\ \A j \in 1 .. i : buf[j] >= Cont
        /\ i <= LastIdx => x = Payload(buf, i)
        /\ buf \in Seq(Byte) /\ Len(buf) \in Nat
    BY <1>1 DEF LoopInv, Getting
  <1>3. /\ i \in Nat /\ i \in 0 .. Len(buf) - 1 /\ l \in 1 .. Len(buf) /\ l - 1 = i
        /\ LastIdx \in Nat /\ LastMax \in Nat /\ Cont \in Nat
    BY <1>1, <1>2, ContIs
  <1>4. buf[l] \in Nat
    BY <1>2, <1>3 DEF Byte
  <1>5. EndsAt(buf, l)
    BY <1>1, <1>2, <1>3 DEF EndsAt
  <1>6. Uvarint(buf) = IF i > LastIdx \/ (i = LastIdx /\ buf[l] > LastMax)
                         THEN [n |-> 0, c |-> -l]
                         ELSE [n |-> Payload(buf, l), c |-> l]
    <2>1. buf \in Seq(Nat)
      BY <1>2, BytesAreNaturals
    <2> QED
      BY <1>2, <1>3, <1>5, <2>1, UvarintIs, Zenon
  <1>7. ASSUME ~ Overflows(buf[l])
        PROVE  OrShifted(buf[l]) = Payload(buf, l)
    <2>1. i < LastIdx \/ (i = LastIdx /\ buf[i + 1] <= LastMax)
      BY <1>3, <1>4, <1>7 DEF Overflows
    <2>2. (Payload(buf, i) + (buf[i + 1] % Cont) * Power(Cont, i)) % WordSize
            = Payload(buf, i + 1)
      BY <1>2, <1>3, <2>1, BytesAreNaturals, AcceptedInWord
    <2>3. x = Payload(buf, i)
      BY <1>2, <1>3, <2>1
    <2>4. buf[l] % Cont = buf[l]
      BY <1>1, <1>3, <1>4
    <2> QED
      BY <2>2, <2>3, <2>4 DEF OrShifted
  <1>8. ret' = Uvarint(buf)
    BY <1>1, <1>6, <1>7, Zenon DEF Overflows
  <1>9. v0' # -1 => Written'
    <2>1. Written => Written'
      BY <1>1 DEF Written
    <2> QED
      BY <1>1, <1>2, <2>1
  <1>10. Uvarint(buf)' = Uvarint(buf)
    BY <1>1
  <1>11. Returned'
    BY <1>8, <1>9, <1>10 DEF Returned
  <1> QED
    BY <1>1, <1>2, <1>11 DEF LoopInv, Putting, Getting

LEMMA GetTruncatedKeeps ==
  ASSUME LoopInv, GetTruncated
  PROVE  LoopInv'
  <1>1. /\ pc = "get" /\ i = Len(buf) /\ ret' = [n |-> 0, c |-> 0] /\ pc' = "done"
        /\ v0' = v0 /\ v' = v /\ buf' = buf /\ i' = i /\ x' = x /\ put' = put
    BY DEF GetTruncated
  <1>2. /\ v0 # -1 => Written
        /\ \A j \in 1 .. Len(buf) : buf[j] >= Cont
        /\ buf \in Seq(Byte)
    BY <1>1 DEF LoopInv, Getting
  <1>3. ret' = Uvarint(buf)
    <2>1. buf \in Seq(Nat)
      BY <1>2, BytesAreNaturals
    <2> QED
      BY <1>1, <1>2, <2>1, UvarintOfTruncated
  <1>4. v0' # -1 => Written'
    <2>1. Written => Written'
      BY <1>1 DEF Written
    <2> QED
      BY <1>1, <1>2, <2>1
  <1>5. Uvarint(buf)' = Uvarint(buf)
    BY <1>1
  <1>6. Returned'
    BY <1>3, <1>4, <1>5 DEF Returned
  <1> QED
    BY <1>1, <1>2, <1>6 DEF LoopInv, Putting, Getting

LEMMA StutterKeeps ==
  ASSUME LoopInv, UNCHANGED vars
  PROVE  LoopInv'
  BY DEF LoopInv, Putting, Getting, Returned, Written, vars

THEOREM LoopInvariant == Spec => []LoopInv
  <1>1. Init => LoopInv
    BY LoopInit
  <1>2. LoopInv /\ [Next]_vars => LoopInv'
    BY PutMoreKeeps, PutLastKeeps, GetMoreKeeps, GetLastKeeps, GetTruncatedKeeps,
       StutterKeeps DEF Next
  <1> QED
    BY <1>1, <1>2, PTL DEF Spec

-----------------------------------------------------------------------------
\* RoundTrip: UvarintSize bytes hold the word PutUvarint writes, and Uvarint
\* reads it back from them, for every size of a byte and of a word.
THEOREM RoundTripHolds == Spec => []RoundTrip
  <1>1. ASSUME LoopInv
        PROVE  RoundTrip
    <2>1. pc # "panic"
      BY <1>1 DEF LoopInv
    <2>2. ASSUME pc = "done", v0 # -1
          PROVE  put = UvarintSize(v0) /\ ret = [n |-> v0, c |-> put]
      <3>1. /\ ret = Uvarint(buf) /\ v0 \in Word /\ Carries(buf, v0) /\ buf \in Seq(Byte)
            /\ put = UvarintSize(v0)
        BY <1>1, <2>2 DEF LoopInv, Returned, Written
      <3> QED
        BY <3>1, BytesAreNaturals, CarriedWord
    <2> QED
      BY <2>1, <2>2 DEF RoundTrip
  <1> QED
    BY <1>1, LoopInvariant, PTL

\* ReadsAsDefined: Uvarint's loop, whatever bytes it is given, returns the
\* value and the count that the decoder's model takes from its definition.
THEOREM ReadsAsDefinedHolds == Spec => []ReadsAsDefined
  <1>1. LoopInv => ReadsAsDefined
    BY DEF LoopInv, Returned, ReadsAsDefined
  <1> QED
    BY <1>1, LoopInvariant, PTL

\* WritesAsAppend: PutUvarint's loop leaves the bytes that the encoder's model
\* writes for the word, however much room there is behind them.
THEOREM WritesAsAppendHolds == Spec => []WritesAsAppend
  <1>1. ASSUME LoopInv
        PROVE  WritesAsAppend
    <2> SUFFICES ASSUME pc = "get", v0 # -1
                 PROVE  SubSeq(buf, 1, UvarintSize(v0)) = UvarintBytes(v0)
      BY DEF WritesAsAppend
    <2> DEFINE n == UvarintSize(v0)
    <2>1. v0 \in Word /\ Carries(buf, v0) /\ buf \in Seq(Byte)
      BY <1>1 DEF LoopInv, Getting, Written
    <2>2. /\ n \in Nat /\ n <= Len(buf)
          /\ \A j \in 1 .. n :
               buf[j] = (Left(v0, j - 1) % Cont) + (IF j < n THEN Cont ELSE 0)
      BY <2>1, SizeIs DEF Carries
    <2>3. UvarintBytes(v0) =
            [j \in 1 .. n |-> (Left(v0, j - 1) % Cont) + (IF j < n THEN Cont ELSE 0)]
      BY <2>1, UvarintBytesAre
    <2> HIDE DEF n
    <2>4. SubSeq(buf, 1, n) = [j \in 1 .. n |-> buf[j]]
      BY <2>1, <2>2
    <2>5. [j \in 1 .. n |-> buf[j]] =
            [j \in 1 .. n |-> (Left(v0, j - 1) % Cont) + (IF j < n THEN Cont ELSE 0)]
      BY <2>2, Zenon
    <2> QED
      BY <2>3, <2>4, <2>5 DEF n
  <1> QED
    BY <1>1, LoopInvariant, PTL

-----------------------------------------------------------------------------
\* Every word is the zigzag of an integer.
LEMMA ZagZig ==
  ASSUME NEW w \in Uint64
  PROVE  Zag(w) \in Int64 /\ Zig(Zag(w)) = w
  <1> DEFINE h == w \div 2
             z == Zag(w)
  <1>1. Half \in Nat /\ Half > 0 /\ w \in Nat /\ w < 2 * Half
    BY WordsParameters DEF Uint64
  <1>2. h \in Nat /\ h < Half /\ (w = 2 * h \/ w = 2 * h + 1) /\ (w % 2 = 1 <=> w = 2 * h + 1)
    BY <1>1
  <1>3. z = IF w % 2 = 1 THEN -1 - h ELSE h
    BY <1>1, <1>2 DEF Zag, ToInt64, Complement
  <1> HIDE DEF z, h
  <1>4. z \in Int64
    BY <1>1, <1>2, <1>3 DEF Int64
  <1>5. Zig(z) = IF z < 0 THEN -2 * z - 1 ELSE 2 * z
    BY <1>4, ZigIs
  <1>6. Zig(z) = w
    BY <1>1, <1>2, <1>3, <1>5
  <1> QED
    BY <1>4, <1>6 DEF z

\* SignedRoundTrip: a signed integer comes back from the varint of its zigzag,
\* the smallest one of the width included.
THEOREM SignedRoundTripHolds == Spec => []SignedRoundTrip
  <1>1. ASSUME LoopInv
        PROVE  SignedRoundTrip
    <2> SUFFICES ASSUME pc = "done", v0 # -1
                 PROVE  \E z \in Int64 : Zig(z) = v0 /\ Zag(ret.n) = z
      BY DEF SignedRoundTrip
    <2>1. ret = Uvarint(buf) /\ v0 \in Word /\ Carries(buf, v0) /\ buf \in Seq(Byte)
      BY <1>1 DEF LoopInv, Returned, Written
    <2>2. ret.n = v0
      BY <2>1, BytesAreNaturals, CarriedWord
    <2>3. v0 \in Uint64
      BY <2>1, SameWord DEF Word, Uint64
    <2> QED
      BY <2>2, <2>3, ZagZig
  <1> QED
    BY <1>1, LoopInvariant, PTL

-----------------------------------------------------------------------------
\* Where AppendTo and PutAt leave the bytes of a word, and the bytes around it.
Front(b, bytes) == PutAt([j \in 1 .. Len(bytes) |-> Fill] \o b, bytes)

LEMMA TailIs ==
  ASSUME NEW t \in Seq(Nat), NEW b \in Seq(Nat), NEW n \in Nat,
         Len(t) = n + Len(b), \A k \in 1 .. Len(b) : t[n + k] = b[k]
  PROVE  SubSeq(t, n + 1, Len(t)) = b
  <1> DEFINE m == n + 1
             l == Len(b)
             e == SubSeq(t, m, Len(t))
  <1>1. l \in Nat /\ m \in Nat /\ Len(t) = n + l /\ Len(t) - m + 1 = l
    OBVIOUS
  <1>2. e \in Seq(Nat) /\ Len(e) = l
    BY <1>1
  <1>3. ASSUME NEW k \in 1 .. l
        PROVE  e[k] = b[k]
    <2>1. k \in Nat /\ m + k - 1 = n + k /\ k + m - 1 = n + k
      BY <1>1
    <2>2. e[k] = t[m + k - 1]
      BY <1>1, <2>1
    <2> QED
      BY <2>1, <2>2
  <1> HIDE DEF e
  <1>4. e = b
    <2>1. \A k \in 1 .. Len(e) : e[k] = b[k]
      BY <1>2, <1>3
    <2>2. Len(e) = Len(b)
      BY <1>2
    <2> QED
      BY <1>2, <2>1, <2>2, SeqEqual
  <1> QED
    BY <1>4 DEF e

LEMMA AroundBytes ==
  ASSUME NEW b \in Seq(Nat), NEW bytes \in Seq(Nat)
  PROVE  /\ Holds(AppendTo(b, bytes), Len(b), bytes)
         /\ SubSeq(AppendTo(b, bytes), 1, Len(b)) = b
         /\ Holds(Front(b, bytes), 0, bytes)
         /\ SubSeq(Front(b, bytes), Len(bytes) + 1, Len(Front(b, bytes))) = b
  <1> DEFINE n == Len(bytes)
             e == [j \in 1 .. n |-> Fill]
             t == e \o b
             f == bytes \o b
  <1>0. n \in Nat /\ Len(b) \in Nat
    OBVIOUS
  <1>1. e \in Seq(Nat) /\ Len(e) = n
    BY DEF Fill
  <1> HIDE DEF e
  <1>2. /\ t \in Seq(Nat) /\ Len(t) = n + Len(b)
        /\ \A k \in 1 .. Len(b) : t[n + k] = b[k]
    <2>1. /\ t \in Seq(Nat) /\ Len(t) = Len(e) + Len(b)
          /\ \A k \in 1 .. Len(b) : t[Len(e) + k] = b[k]
      BY <1>1, Joined
    <2> HIDE DEF t, n
    <2> QED
      BY <1>1, <2>1, Zenon
  <1> HIDE DEF t
  <1>3. SubSeq(t, n + 1, Len(t)) = b
    BY <1>0, <1>2, TailIs
  <1>4. Front(b, bytes) = f
    <2>1. Front(b, bytes) = bytes \o SubSeq(t, n + 1, Len(t))
      BY Zenon DEF Front, PutAt, t, e
    <2> QED
      BY <1>3, <2>1
  <1>5. /\ f \in Seq(Nat) /\ Len(f) = n + Len(b)
        /\ \A k \in 1 .. n : f[k] = bytes[k]
        /\ \A k \in 1 .. Len(b) : f[n + k] = b[k]
    BY Joined
  <1> HIDE DEF f
  <1>6. Holds(f, 0, bytes)
    BY <1>0, <1>5 DEF Holds
  <1>7. SubSeq(f, n + 1, Len(f)) = b
    BY <1>0, <1>5, TailIs
  <1> DEFINE g == b \o bytes
  <1>8. /\ g \in Seq(Nat) /\ Len(g) = Len(b) + n
        /\ \A k \in 1 .. Len(b) : g[k] = b[k]
    BY Joined
  <1>9. AppendTo(b, bytes) = g
    BY DEF AppendTo
  <1> HIDE DEF g
  <1>10. SubSeq(g, 1, Len(b)) = b
    BY <1>0, <1>8
  <1>11. Holds(AppendTo(b, bytes), Len(b), bytes)
    BY HoldsAppended
  <1> QED
    BY <1>4, <1>6, <1>7, <1>9, <1>10, <1>11

\* What is read where the bytes of a word of the width are is the word.
LEMMA ReadWhereHeld ==
  ASSUME NEW s, NEW o \in Nat, NEW w \in Nat
  PROVE  /\ Holds(s, o, Bytes16(w)) /\ w < Power(Base, 2) => U16(s, o) = w
         /\ Holds(s, o, Bytes32(w)) /\ w < Power(Base, 4) => U32(s, o) = w
         /\ Holds(s, o, Bytes64(w)) /\ w < Power(Base, 8) => U64(s, o) = w
  <1> DEFINE p2 == Base * Base
             p4 == Base * Base * Base * Base
             p8 == Base * Base * Base * Base * Base * Base * Base * Base
  <1>0. Base \in Nat
    BY WordsParameters
  <1>1. Power(Base, 2) = p2
    <2>1. /\ Power(Base, 0) = 1 /\ Power(Base, 0 + 1) = Base * Power(Base, 0)
          /\ Power(Base, 1 + 1) = Base * Power(Base, 1)
      BY <1>0, PowerIs
    <2> QED
      BY <1>0, <2>1
  <1>2. Power(Base, 4) = p4
    <2>1. Power(Base, 2 + 2) = Power(Base, 2) * Power(Base, 2)
      BY <1>0, PowerAdds
    <2> QED
      BY <1>0, <1>1, <2>1
  <1>3. Power(Base, 8) = p8
    <2>1. Power(Base, 4 + 4) = Power(Base, 4) * Power(Base, 4)
      BY <1>0, PowerAdds
    <2> QED
      BY <1>0, <1>2, <2>1
  <1>4. p2 \in Nat /\ p4 \in Nat
    BY <1>0
  <1>5. ASSUME Holds(s, o, Bytes16(w)), w < p2
        PROVE  U16(s, o) = w
    <2>1. /\ Rest(Rest(w)) \in Nat /\ U16(s, o) \in Nat
          /\ U16(s, o) + p2 * Rest(Rest(w)) = w
      BY <1>5, Read16
    <2> HIDE DEF p2
    <2> QED
      BY <1>4, <1>5, <2>1, BelowModulus
  <1>6. ASSUME Holds(s, o, Bytes32(w)), w < p4
        PROVE  U32(s, o) = w
    <2>1. /\ Rest(Rest(Rest(Rest(w)))) \in Nat /\ U32(s, o) \in Nat
          /\ U32(s, o) + p4 * Rest(Rest(Rest(Rest(w)))) = w
      BY <1>6, Read32
    <2> HIDE DEF p4
    <2> QED
      BY <1>4, <1>6, <2>1, BelowModulus
  <1>7. ASSUME Holds(s, o, Bytes64(w)), w < p8
        PROVE  U64(s, o) = w
    BY <1>7, Read64
  <1> HIDE DEF p2, p4, p8
  <1> QED
    BY <1>1, <1>2, <1>3, <1>5, <1>6, <1>7

\* LittleEndian: a word of two, four or eight bytes reads back as itself
\* wherever it stands, and the bytes around it are not changed.
THEOREM LittleEndianHolds == Spec => []LittleEndian
  <1>1. ASSUME LoopInv
        PROVE  LittleEndian
    <2> SUFFICES ASSUME pc = "done", v0 # -1
                 PROVE  /\ ReadsBack(2, AppendU16, PutU16, U16)
                        /\ ReadsBack(4, AppendU32, PutU32, U32)
                        /\ ReadsBack(8, AppendU64, PutU64, U64)
      BY DEF LittleEndian
    <2>1. v0 \in Nat /\ buf \in Seq(Nat) /\ Len(buf) \in Nat
      <3>1. v0 \in Word /\ buf \in Seq(Byte)
        BY <1>1 DEF LoopInv, Returned, Written
      <3>2. Word \subseteq Nat /\ Byte \subseteq Nat
        BY ContIs DEF Word, Byte
      <3>3. buf \in Seq(Nat)
        BY <3>1, <3>2, SeqMonotonic
      <3> QED
        BY <3>1, <3>2, <3>3
    <2>2. ASSUME NEW bytes \in Seq(Nat)
          PROVE  /\ Holds(AppendTo(buf, bytes), Len(buf), bytes)
                 /\ SubSeq(AppendTo(buf, bytes), 1, Len(buf)) = buf
                 /\ Holds(Front(buf, bytes), 0, bytes)
                 /\ SubSeq(Front(buf, bytes), Len(bytes) + 1, Len(Front(buf, bytes))) = buf
      BY <2>1, AroundBytes
    <2>3. /\ Bytes16(v0) \in Seq(Nat) /\ Len(Bytes16(v0)) = 2
          /\ Bytes32(v0) \in Seq(Nat) /\ Len(Bytes32(v0)) = 4
          /\ Bytes64(v0) \in Seq(Nat) /\ Len(Bytes64(v0)) = 8
      BY <2>1, BytesAre
    <2>4. ReadsBack(2, AppendU16, PutU16, U16)
      <3> DEFINE b == Bytes16(v0)
                 behind == AppendTo(buf, b)
                 front == Front(buf, b)
      <3>1. /\ Holds(behind, Len(buf), b) /\ SubSeq(behind, 1, Len(buf)) = buf
            /\ Holds(front, 0, b) /\ SubSeq(front, Len(b) + 1, Len(front)) = buf
        BY <2>2, <2>3
      <3>2. v0 < Power(Base, 2) => U16(behind, Len(buf)) = v0 /\ U16(front, 0) = v0
        <4> HIDE DEF behind, front
        <4> QED
          BY <2>1, <3>1, ReadWhereHeld
      <3>3. Len(b) = 2
        BY <2>3
      <3>4. behind = AppendU16(buf, v0)
        BY <2>1, AppendsAre
      <3>5. front = PutU16([j \in 1 .. 2 |-> Fill] \o buf, v0)
        <4> DEFINE z == [j \in 1 .. 2 |-> Fill]
        <4>1. z \in Seq(Nat) /\ Len(z) = 2
          BY DEF Fill
        <4> HIDE DEF z
        <4>2. z \o buf \in Seq(Nat) /\ Len(z \o buf) = Len(z) + Len(buf)
          BY <2>1, <4>1, Joined
        <4>3. z \o buf \in Seq(Nat) /\ Len(z \o buf) >= 2
          BY <2>1, <4>1, <4>2
        <4>4. PutU16(z \o buf, v0) = PutAt(z \o buf, b)
          <5> HIDE DEF b
          <5>1. \A y \in Seq(Nat) : Len(y) >= 2 => PutU16(y, v0) = PutAt(y, b)
            BY <2>1, PutsAre DEF b
          <5> QED
            BY <4>3, <5>1
        <4>5. front = PutAt(z \o buf, b)
          BY <3>3, Zenon DEF Front, z
        <4> QED
          BY <4>4, <4>5, Zenon DEF z
      <3> HIDE DEF b, behind, front
      <3>6. SubSeq(front, 2 + 1, Len(front)) = buf
        BY <3>1, <3>3
      <3> QED
        BY <3>1, <3>2, <3>4, <3>5, <3>6, Zenon DEF ReadsBack
    <2>5. ReadsBack(4, AppendU32, PutU32, U32)
      <3> DEFINE b == Bytes32(v0)
                 behind == AppendTo(buf, b)
                 front == Front(buf, b)
      <3>1. /\ Holds(behind, Len(buf), b) /\ SubSeq(behind, 1, Len(buf)) = buf
            /\ Holds(front, 0, b) /\ SubSeq(front, Len(b) + 1, Len(front)) = buf
        BY <2>2, <2>3
      <3>2. v0 < Power(Base, 4) => U32(behind, Len(buf)) = v0 /\ U32(front, 0) = v0
        <4> HIDE DEF behind, front
        <4> QED
          BY <2>1, <3>1, ReadWhereHeld
      <3>3. Len(b) = 4
        BY <2>3
      <3>4. behind = AppendU32(buf, v0)
        BY <2>1, AppendsAre
      <3>5. front = PutU32([j \in 1 .. 4 |-> Fill] \o buf, v0)
        <4> DEFINE z == [j \in 1 .. 4 |-> Fill]
        <4>1. z \in Seq(Nat) /\ Len(z) = 4
          BY DEF Fill
        <4> HIDE DEF z
        <4>2. z \o buf \in Seq(Nat) /\ Len(z \o buf) = Len(z) + Len(buf)
          BY <2>1, <4>1, Joined
        <4>3. z \o buf \in Seq(Nat) /\ Len(z \o buf) >= 4
          BY <2>1, <4>1, <4>2
        <4>4. PutU32(z \o buf, v0) = PutAt(z \o buf, b)
          <5> HIDE DEF b
          <5>1. \A y \in Seq(Nat) : Len(y) >= 4 => PutU32(y, v0) = PutAt(y, b)
            BY <2>1, PutsAre DEF b
          <5> QED
            BY <4>3, <5>1
        <4>5. front = PutAt(z \o buf, b)
          BY <3>3, Zenon DEF Front, z
        <4> QED
          BY <4>4, <4>5, Zenon DEF z
      <3> HIDE DEF b, behind, front
      <3>6. SubSeq(front, 4 + 1, Len(front)) = buf
        BY <3>1, <3>3
      <3> QED
        BY <3>1, <3>2, <3>4, <3>5, <3>6, Zenon DEF ReadsBack
    <2>6. ReadsBack(8, AppendU64, PutU64, U64)
      <3> DEFINE b == Bytes64(v0)
                 behind == AppendTo(buf, b)
                 front == Front(buf, b)
      <3>1. /\ Holds(behind, Len(buf), b) /\ SubSeq(behind, 1, Len(buf)) = buf
            /\ Holds(front, 0, b) /\ SubSeq(front, Len(b) + 1, Len(front)) = buf
        BY <2>2, <2>3
      <3>2. v0 < Power(Base, 8) => U64(behind, Len(buf)) = v0 /\ U64(front, 0) = v0
        <4> HIDE DEF behind, front
        <4> QED
          BY <2>1, <3>1, ReadWhereHeld
      <3>3. Len(b) = 8
        BY <2>3
      <3>4. behind = AppendU64(buf, v0)
        BY <2>1, AppendsAre
      <3>5. front = PutU64([j \in 1 .. 8 |-> Fill] \o buf, v0)
        <4> DEFINE z == [j \in 1 .. 8 |-> Fill]
        <4>1. z \in Seq(Nat) /\ Len(z) = 8
          BY DEF Fill
        <4> HIDE DEF z
        <4>2. z \o buf \in Seq(Nat) /\ Len(z \o buf) = Len(z) + Len(buf)
          BY <2>1, <4>1, Joined
        <4>3. z \o buf \in Seq(Nat) /\ Len(z \o buf) >= 8
          BY <2>1, <4>1, <4>2
        <4>4. PutU64(z \o buf, v0) = PutAt(z \o buf, b)
          <5> HIDE DEF b
          <5>1. \A y \in Seq(Nat) : Len(y) >= 8 => PutU64(y, v0) = PutAt(y, b)
            BY <2>1, PutsAre DEF b
          <5> QED
            BY <4>3, <5>1
        <4>5. front = PutAt(z \o buf, b)
          BY <3>3, Zenon DEF Front, z
        <4> QED
          BY <4>4, <4>5, Zenon DEF z
      <3> HIDE DEF b, behind, front
      <3>6. SubSeq(front, 8 + 1, Len(front)) = buf
        BY <3>1, <3>3
      <3> QED
        BY <3>1, <3>2, <3>4, <3>5, <3>6, Zenon DEF ReadsBack
    <2> QED
      BY <2>4, <2>5, <2>6
  <1> QED
    BY <1>1, LoopInvariant, PTL
=============================================================================
