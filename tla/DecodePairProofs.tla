-------------------------- MODULE DecodePairProofs --------------------------
(***************************************************************************)
(* Proofs about DecodePair, for every schema and every buffer: the second  *)
(* decode, of a prefix, goes where the first has gone.                     *)
(***************************************************************************)
EXTENDS DecodePair, FiniteSetTheorems, SequenceTheorems, TLAPS

FirstProofs == INSTANCE DecoderProofs WITH Safe <- TRUE

SecondProofs == INSTANCE DecoderProofs WITH
  Safe <- TRUE, in <- cut, base <- base2, off <- off2, todo <- todo2,
  callers <- callers2, phase <- phase2, err <- err2, made <- made2,
  raised <- raised2

-----------------------------------------------------------------------------
(***************************************************************************)
(* How many of the values still to decode take a byte of their own.        *)
(***************************************************************************)

Places(W, s) == { k \in 1 .. Len(s) : s[k] \in W }

Weight(W, s) == Cardinality(Places(W, s))

\* A weight is a number, and at most the length.
LEMMA WeightType ==
  ASSUME NEW W, NEW n \in Nat, NEW s, Len(s) = n
  PROVE  IsFiniteSet(Places(W, s)) /\ Weight(W, s) \in Nat
  <1>1. Places(W, s) \subseteq 1 .. n
    BY DEF Places
  <1>2. IsFiniteSet(1 .. n)
    BY FS_Interval
  <1> HIDE DEF Places
  <1>3. IsFiniteSet(Places(W, s))
    BY <1>1, <1>2, FS_Subset
  <1> QED
    BY <1>3, FS_CardinalityType DEF Weight

LEMMA WeightEmpty == \A W : Weight(W, <<>>) = 0
  <1>1. \A W : Places(W, <<>>) = {}
    BY DEF Places
  <1> QED
    BY <1>1, FS_EmptySet DEF Weight

\* What follows adds its own weight.
LEMMA WeightConcat ==
  ASSUME NEW X, NEW W, NEW s \in Seq(X), NEW t \in Seq(X)
  PROVE  Weight(W, s \o t) = Weight(W, s) + Weight(W, t)
  <1> DEFINE n == Len(s)
             A == Places(W, s)
             B == Places(W, t)
             C == { k \in Places(W, s \o t) : k > n }
             f == [k \in B |-> k + n]
  <1>1. /\ Len(s) \in Nat /\ Len(t) \in Nat /\ s \o t \in Seq(X)
        /\ Len(s \o t) = n + Len(t)
        /\ \A k \in 1 .. n : (s \o t)[k] = s[k]
        /\ \A k \in n + 1 .. n + Len(t) : (s \o t)[k] = t[k - n]
    OBVIOUS
  <1>2. IsFiniteSet(A) /\ IsFiniteSet(B) /\ IsFiniteSet(Places(W, s \o t))
    BY <1>1, WeightType
  <1>3. Places(W, s \o t) = A \cup C
    BY <1>1 DEF Places
  <1>4. A \cap C = {}
    BY <1>1 DEF Places
  <1>5. \A k \in B : k \in 1 .. Len(t) /\ t[k] \in W
    BY DEF Places
  <1>6. \A k \in B : f[k] \in C
    <2> SUFFICES ASSUME NEW k \in B PROVE k + n \in C
      OBVIOUS
    <2>1. k + n \in n + 1 .. n + Len(t) /\ (k + n) - n = k
      BY <1>1, <1>5
    <2>2. k + n \in 1 .. Len(s \o t) /\ (s \o t)[k + n] \in W
      BY <1>1, <1>5, <2>1
    <2>3. k + n \in Places(W, s \o t)
      BY <2>2 DEF Places
    <2> QED
      BY <1>1, <2>1, <2>3
  <1>7. \A j \in C : j - n \in B /\ (j - n) + n = j
    <2> SUFFICES ASSUME NEW j \in C PROVE j - n \in B /\ (j - n) + n = j
      OBVIOUS
    <2>1. j \in 1 .. Len(s \o t) /\ (s \o t)[j] \in W /\ j > n
      BY DEF Places
    <2>2. j \in n + 1 .. n + Len(t) /\ j - n \in 1 .. Len(t) /\ (j - n) + n = j
      BY <1>1, <2>1
    <2>3. t[j - n] \in W
      BY <1>1, <2>1, <2>2
    <2> QED
      BY <2>2, <2>3 DEF Places
  <1> HIDE DEF A, C
  <1>8. f \in [B -> C]
    BY <1>6
  <1>9. \A j \in C : \E k \in B : f[k] = j
    BY <1>7
  <1>10. \A j, k \in B : f[j] = f[k] => j = k
    BY <1>1, <1>5
  <1>11. f \in Bijection(B, C)
    <2> HIDE DEF B, f
    <2> QED
      BY <1>8, <1>9, <1>10 DEF Bijection, Injection, Surjection, IsInjective
  <1> HIDE DEF B, f
  <1>12. ExistsBijection(B, C)
    BY <1>11 DEF ExistsBijection
  <1>13. IsFiniteSet(C) /\ Cardinality(C) = Cardinality(B)
    BY <1>2, <1>12, FS_Bijection
  <1>14. Cardinality(A \cup C) = Cardinality(A) + Cardinality(C) - Cardinality(A \cap C)
    BY <1>2, <1>13, FS_Union
  <1>15. Cardinality(A \cap C) = 0
    BY <1>4, FS_EmptySet
  <1>16. Cardinality(A) \in Nat /\ Cardinality(C) \in Nat
    BY <1>2, <1>13, FS_CardinalityType
  <1> QED
    BY <1>3, <1>13, <1>14, <1>15, <1>16 DEF Weight, A, B

\* The weight of the head and that of what follows it.
LEMMA WeightTail ==
  ASSUME NEW X, NEW W, NEW s \in Seq(X), s # <<>>
  PROVE  Weight(W, s) = (IF Head(s) \in W THEN 1 ELSE 0) + Weight(W, Tail(s))
  <1>1. <<Head(s)>> \in Seq(X) /\ Tail(s) \in Seq(X) /\ s = <<Head(s)>> \o Tail(s)
    OBVIOUS
  <1>2. Weight(W, s) = Weight(W, <<Head(s)>>) + Weight(W, Tail(s))
    BY <1>1, WeightConcat
  <1>3. Places(W, <<Head(s)>>) = IF Head(s) \in W THEN { 1 } ELSE {}
    BY DEF Places
  <1>4. Weight(W, <<Head(s)>>) = IF Head(s) \in W THEN 1 ELSE 0
    BY <1>3, FS_EmptySet, FS_Singleton DEF Weight
  <1> QED
    BY <1>2, <1>4

\* A sequence of n elements that each have weight, or every second of them.
LEMMA WeightAll ==
  ASSUME NEW W, NEW n \in Nat, NEW e \in W
  PROVE  Weight(W, [k \in 1 .. n |-> e]) = n
  <1>1. Places(W, [k \in 1 .. n |-> e]) = 1 .. n
    BY DEF Places
  <1> QED
    BY <1>1, FS_Interval DEF Weight

LEMMA WeightAlternating ==
  ASSUME NEW W, NEW n \in Nat, NEW e, e[1] \in W
  PROVE  Weight(W, [k \in 1 .. (2 * n) |-> e[IF k % 2 = 1 THEN 1 ELSE 2]]) >= n
  <1> DEFINE s == [k \in 1 .. (2 * n) |-> e[IF k % 2 = 1 THEN 1 ELSE 2]]
             f == [k \in 1 .. n |-> 2 * k - 1]
  <1>1. Len(s) = 2 * n
    OBVIOUS
  <1>2. \A k \in 1 .. n : 2 * k - 1 \in 1 .. (2 * n) /\ (2 * k - 1) % 2 = 1
    OBVIOUS
  <1>3. \A k \in 1 .. n : 2 * k - 1 \in Places(W, s)
    BY <1>1, <1>2 DEF Places
  <1>4. IsFiniteSet(Places(W, s)) /\ Weight(W, s) \in Nat
    <2>1. 2 * n \in Nat
      OBVIOUS
    <2> HIDE DEF s
    <2> QED
      BY <1>1, <2>1, WeightType
  <1> HIDE DEF s
  <1>5. f \in Injection(1 .. n, Places(W, s))
    BY <1>3 DEF Injection, IsInjective
  <1>6. Cardinality(1 .. n) <= Cardinality(Places(W, s))
    <2> HIDE DEF f
    <2> QED
      BY <1>4, <1>5, FS_Injection
  <1>7. Cardinality(1 .. n) = n
    BY FS_Interval
  <1>8. Weight(W, s) >= n
    BY <1>4, <1>6, <1>7 DEF Weight
  <1> QED
    BY <1>8 DEF s

LEMMA WeightSome ==
  ASSUME NEW W, NEW X, NEW s \in Seq(X), NEW k \in 1 .. Len(s), s[k] \in W
  PROVE  Weight(W, s) >= 1
  <1>1. Len(s) \in Nat
    OBVIOUS
  <1>2. Places(W, s) # {}
    BY DEF Places
  <1>3. IsFiniteSet(Places(W, s)) /\ Weight(W, s) \in Nat
    BY <1>1, WeightType
  <1>4. Weight(W, s) # 0
    BY <1>2, <1>3, FS_EmptySet DEF Weight
  <1> QED
    BY <1>3, <1>4

-----------------------------------------------------------------------------
(***************************************************************************)
(* The two decoders inside.  Their steps are those DecoderProofs is about, *)
(* and what that module assumes is so here.                                *)
(***************************************************************************)

LEMMA FirstNext == First!Next <=> FirstProofs!Next
  BY DEF First!Next, FirstProofs!Next, First!BadPrefix, FirstProofs!BadPrefix,
         First!ShortLength, FirstProofs!ShortLength, First!NilValue,
         FirstProofs!NilValue, First!Payload, FirstProofs!Payload,
         First!Slice, FirstProofs!Slice, First!Map, FirstProofs!Map,
         First!Union, FirstProofs!Union, First!Fixed, FirstProofs!Fixed,
         First!Block, FirstProofs!Block, First!Array, FirstProofs!Array,
         First!Pointer, FirstProofs!Pointer, First!Struct, FirstProofs!Struct,
         First!Owned, FirstProofs!Owned, First!Return, FirstProofs!Return,
         First!ReturnError, FirstProofs!ReturnError, First!Finish,
         FirstProofs!Finish, First!Running, FirstProofs!Running, First!This,
         FirstProofs!This, First!Bulk, FirstProofs!Bulk, First!Prefix,
         FirstProofs!Prefix, First!PrefixRead, FirstProofs!PrefixRead,
         First!AfterPrefix, FirstProofs!AfterPrefix, First!Empty,
         FirstProofs!Empty, First!InSlice, FirstProofs!InSlice,
         First!Indexable, FirstProofs!Indexable, First!Sliceable,
         FirstProofs!Sliceable, First!GuardN, FirstProofs!GuardN,
         First!GuardLen, FirstProofs!GuardLen, First!ToInt, FirstProofs!ToInt,
         First!ToUint, FirstProofs!ToUint, First!ByteCount,
         FirstProofs!ByteCount, First!Advance, FirstProofs!Advance,
         First!Fail, FirstProofs!Fail, First!Panic, FirstProofs!Panic,
         First!Enter, FirstProofs!Enter, First!NoErr, FirstProofs!NoErr,
         First!ErrShortBuffer, FirstProofs!ErrShortBuffer,
         First!ErrUnknownUnionTag, FirstProofs!ErrUnknownUnionTag,
         First!ErrOwned, FirstProofs!ErrOwned

LEMMA SecondNext == SecondSafe!Next <=> SecondProofs!Next
  BY DEF SecondSafe!Next, SecondProofs!Next, SecondSafe!BadPrefix,
         SecondProofs!BadPrefix, SecondSafe!ShortLength,
         SecondProofs!ShortLength, SecondSafe!NilValue, SecondProofs!NilValue,
         SecondSafe!Payload, SecondProofs!Payload, SecondSafe!Slice,
         SecondProofs!Slice, SecondSafe!Map, SecondProofs!Map,
         SecondSafe!Union, SecondProofs!Union, SecondSafe!Fixed,
         SecondProofs!Fixed, SecondSafe!Block, SecondProofs!Block,
         SecondSafe!Array, SecondProofs!Array, SecondSafe!Pointer,
         SecondProofs!Pointer, SecondSafe!Struct, SecondProofs!Struct,
         SecondSafe!Owned, SecondProofs!Owned, SecondSafe!Return,
         SecondProofs!Return, SecondSafe!ReturnError,
         SecondProofs!ReturnError, SecondSafe!Finish, SecondProofs!Finish,
         SecondSafe!Running, SecondProofs!Running, SecondSafe!This,
         SecondProofs!This, SecondSafe!Bulk, SecondProofs!Bulk,
         SecondSafe!Prefix, SecondProofs!Prefix, SecondSafe!PrefixRead,
         SecondProofs!PrefixRead, SecondSafe!AfterPrefix,
         SecondProofs!AfterPrefix, SecondSafe!Empty, SecondProofs!Empty,
         SecondSafe!InSlice, SecondProofs!InSlice, SecondSafe!Indexable,
         SecondProofs!Indexable, SecondSafe!Sliceable, SecondProofs!Sliceable,
         SecondSafe!GuardN, SecondProofs!GuardN, SecondSafe!GuardLen,
         SecondProofs!GuardLen, SecondSafe!ToInt, SecondProofs!ToInt,
         SecondSafe!ToUint, SecondProofs!ToUint, SecondSafe!ByteCount,
         SecondProofs!ByteCount, SecondSafe!Advance, SecondProofs!Advance,
         SecondSafe!Fail, SecondProofs!Fail, SecondSafe!Panic,
         SecondProofs!Panic, SecondSafe!Enter, SecondProofs!Enter,
         SecondSafe!NoErr, SecondProofs!NoErr, SecondSafe!ErrShortBuffer,
         SecondProofs!ErrShortBuffer, SecondSafe!ErrUnknownUnionTag,
         SecondProofs!ErrUnknownUnionTag, SecondSafe!ErrOwned,
         SecondProofs!ErrOwned

LEMMA Assumptions ==
  /\ MaxInt \in Nat
  /\ Schema \in [Type -> First!Shape]
  /\ \A t \in Type :
       /\ Schema[t].kind \in { "slice", "array", "pointer" } => Len(Schema[t].elems) = 1
       /\ Schema[t].kind = "map" => Len(Schema[t].elems) = 2
       /\ Schema[t].kind = "fixed" => Schema[t].size > 0
  /\ Roots \subseteq { t \in Type : Schema[t].kind = "struct" }
  /\ Input \subseteq [data : Seq(Nat), len : Nat]
  /\ \A x \in Input : x.len <= Len(x.data) /\ Len(x.data) <= MaxInt
  /\ First!UvarintAssumption
  BY DecoderAssumption
     DEF First!MaxIntAssumption, First!SchemaAssumption, First!RootsAssumption,
         First!InputAssumption

LEMMA FirstAssumptions ==
  /\ FirstProofs!MaxIntAssumption /\ FirstProofs!SafeAssumption
  /\ FirstProofs!SchemaAssumption /\ FirstProofs!RootsAssumption
  /\ FirstProofs!InputAssumption /\ FirstProofs!UvarintAssumption
  BY Assumptions
     DEF FirstProofs!MaxIntAssumption, FirstProofs!SafeAssumption,
         FirstProofs!SchemaAssumption, FirstProofs!RootsAssumption,
         FirstProofs!InputAssumption, FirstProofs!UvarintAssumption,
         First!UvarintAssumption, First!Shape, FirstProofs!Shape, First!Kind,
         FirstProofs!Kind

LEMMA SecondAssumptions ==
  /\ SecondProofs!MaxIntAssumption /\ SecondProofs!SafeAssumption
  /\ SecondProofs!SchemaAssumption /\ SecondProofs!RootsAssumption
  /\ SecondProofs!InputAssumption /\ SecondProofs!UvarintAssumption
  BY Assumptions
     DEF SecondProofs!MaxIntAssumption, SecondProofs!SafeAssumption,
         SecondProofs!SchemaAssumption, SecondProofs!RootsAssumption,
         SecondProofs!InputAssumption, SecondProofs!UvarintAssumption,
         First!UvarintAssumption, First!Shape, SecondProofs!Shape, First!Kind,
         SecondProofs!Kind

\* Where a method is, what its guards say and where it goes next are one notion
\* in both.
Now1 == FirstProofs!Now
Now2 == SecondProofs!Now
Ended(c) == FirstProofs!Ended(c)
ShapeAt(c) == FirstProofs!ShapeAt(c)
PrefixAt(x, c) == FirstProofs!PrefixAt(x, c)
Fits(x, c) == FirstProofs!Fits(x, c)
Successor(x, c) == FirstProofs!Successor(x, c)

\* The method goes on from c in the buffer x.
GoesOn(x, c) == ~Ended(c) /\ (c.todo # <<>> => Fits(x, c))

LEMMA SameNotions ==
  \A x, c : /\ SecondProofs!Ended(c) <=> Ended(c)
            /\ SecondProofs!Fits(x, c) <=> Fits(x, c)
            /\ SecondProofs!Successor(x, c) = Successor(x, c)
  BY DEF Ended, Fits, Successor, SecondProofs!Ended, FirstProofs!Ended,
         SecondProofs!Fits, FirstProofs!Fits, SecondProofs!Successor,
         FirstProofs!Successor, SecondProofs!Returned, FirstProofs!Returned,
         SecondProofs!Called, FirstProofs!Called, SecondProofs!Decoded,
         FirstProofs!Decoded, SecondProofs!Behind, FirstProofs!Behind,
         SecondProofs!PartsAt, FirstProofs!PartsAt, SecondProofs!ShapeAt,
         FirstProofs!ShapeAt, SecondProofs!PrefixAt, FirstProofs!PrefixAt

LEMMA Now1Is ==
  /\ Now1.base = base /\ Now1.off = off /\ Now1.todo = todo /\ Now1.callers = callers
  /\ ShapeAt(Now1) = FirstProofs!This
  BY DEF Now1, FirstProofs!Now, ShapeAt, FirstProofs!ShapeAt, FirstProofs!This

LEMMA Now2Is ==
  /\ Now2.base = base2 /\ Now2.off = off2 /\ Now2.todo = todo2
  /\ Now2.callers = callers2
  /\ ShapeAt(Now2) = SecondProofs!This
  /\ PrefixAt(cut, Now2) = SecondProofs!Prefix
  BY DEF Now2, SecondProofs!Now, ShapeAt, FirstProofs!ShapeAt, SecondProofs!This,
         PrefixAt, FirstProofs!PrefixAt, SecondProofs!Prefix

-----------------------------------------------------------------------------
(***************************************************************************)
(* One step of safe mode, from c in the buffer x.                          *)
(***************************************************************************)

Frames(R) == [base : Nat, todo : Seq(R)]

Configs(R) == [base : Nat, off : Nat, todo : Seq(R), callers : Seq(Frames(R))]

Prefixed == { "string", "bytes", "slice", "map", "union" }

Buffer(x) == /\ x \in Input /\ x \in [data : Seq(Nat), len : Nat]
             /\ x.len <= Len(x.data)

LEMMA InputIsBuffer == \A x \in Input : Buffer(x)
  BY Assumptions DEF Buffer

\* The shape of the expression at hand.
LEMMA ShapeType ==
  ASSUME NEW R \in SUBSET Type, Generated(R), NEW c \in Configs(R), c.todo # <<>>
  PROVE  /\ Head(c.todo) \in R /\ Tail(c.todo) \in Seq(R)
         /\ ShapeAt(c) = Schema[Head(c.todo)]
         /\ ShapeAt(c).size \in Nat /\ ShapeAt(c).elems \in Seq(R)
         /\ ShapeAt(c).kind \in First!Kind \ { "owned" }
         /\ ShapeAt(c).kind \in { "slice", "array", "pointer" } =>
              Len(ShapeAt(c).elems) = 1
         /\ ShapeAt(c).kind = "map" => Len(ShapeAt(c).elems) = 2
         /\ ShapeAt(c).kind = "fixed" => ShapeAt(c).size > 0
  <1>1. c.todo \in Seq(R)
    BY DEF Configs
  <1>2. Head(c.todo) \in R /\ Tail(c.todo) \in Seq(R)
    BY <1>1
  <1>3. ShapeAt(c) = Schema[Head(c.todo)]
    BY DEF ShapeAt, FirstProofs!ShapeAt
  <1> DEFINE s == Schema[Head(c.todo)]
  <1>4. s \in First!Shape
    BY <1>2, Assumptions
  <1>5. s.elems \in Seq(Type) /\ \A k \in DOMAIN s.elems : s.elems[k] \in R
    BY <1>2, <1>4 DEF First!Shape, Generated
  <1>6. s.elems \in Seq(R)
    <2>1. s.elems = [k \in 1 .. Len(s.elems) |-> s.elems[k]] /\ Len(s.elems) \in Nat
          /\ DOMAIN s.elems = 1 .. Len(s.elems)
      BY <1>5
    <2> QED
      BY <1>5, <2>1, SeqDef
  <1> QED
    BY <1>2, <1>3, <1>4, <1>6, Assumptions DEF First!Shape, Generated

LEMMA PrefixType ==
  ASSUME NEW x, Buffer(x), NEW c, c.off \in 0 .. x.len
  PROVE  /\ PrefixAt(x, c).n \in Nat /\ PrefixAt(x, c).c \in Int
         /\ PrefixAt(x, c).c <= x.len - c.off
  BY Assumptions
     DEF First!UvarintAssumption, Buffer, PrefixAt, FirstProofs!PrefixAt

\* What the expression at hand is made of, and where that starts.
Parts(x, c) == FirstProofs!PartsAt(x, c)
Behind(x, c) == FirstProofs!Behind(x, c)

LEMMA PartsAre ==
  ASSUME NEW x, NEW c
  PROVE  LET s == ShapeAt(c)
             p == PrefixAt(x, c)
         IN  /\ s.kind \in { "fixed", "block" } =>
                  Behind(x, c) = c.off + s.size /\ Parts(x, c) = <<>>
             /\ s.kind \in { "string", "bytes" } =>
                  Behind(x, c) = c.off + p.c + p.n /\ Parts(x, c) = <<>>
             /\ s.kind = "pointer" =>
                  /\ Behind(x, c) = c.off + 1
                  /\ Parts(x, c) = s.elems \/ Parts(x, c) = <<>>
             /\ s.kind = "slice" =>
                  /\ Behind(x, c) = c.off + p.c
                  /\ Parts(x, c) = [k \in 1 .. p.n |-> s.elems[1]]
             /\ s.kind = "array" =>
                  /\ Behind(x, c) = c.off
                  /\ Parts(x, c) = [k \in 1 .. s.size |-> s.elems[1]]
             /\ s.kind = "map" =>
                  /\ Behind(x, c) = c.off + p.c
                  /\ Parts(x, c) =
                       [k \in 1 .. (2 * p.n) |-> s.elems[IF k % 2 = 1 THEN 1 ELSE 2]]
             /\ s.kind = "union" =>
                  /\ Behind(x, c) = c.off + p.c
                  /\ p.n = 0 => Parts(x, c) = <<>>
                  /\ p.n # 0 => Parts(x, c) = <<s.elems[p.n]>>
  BY DEF Parts, Behind, ShapeAt, PrefixAt, FirstProofs!PartsAt, FirstProofs!Behind

LEMMA PartsType ==
  ASSUME NEW R \in SUBSET Type, Generated(R), NEW x, Buffer(x),
         NEW c \in Configs(R), c.off <= x.len, c.todo # <<>>,
         ShapeAt(c).kind # "struct", Fits(x, c)
  PROVE  Parts(x, c) \in Seq(R) /\ Behind(x, c) \in Nat /\ Behind(x, c) >= c.off
  <1> DEFINE s == ShapeAt(c)
             p == PrefixAt(x, c)
             more == Parts(x, c)
             start == Behind(x, c)
  <1>1. /\ s.size \in Nat /\ s.elems \in Seq(R)
        /\ s.kind \in First!Kind \ { "owned", "struct" }
        /\ s.kind \in { "slice", "array", "pointer" } => Len(s.elems) = 1
        /\ s.kind = "map" => Len(s.elems) = 2
    BY ShapeType
  <1>2. c.off \in Nat /\ c.off \in 0 .. x.len
    BY DEF Configs, Buffer
  <1>3. p.n \in Nat /\ p.c \in Int
    BY <1>2, PrefixType
  <1>4. s = FirstProofs!ShapeAt(c) /\ p = FirstProofs!PrefixAt(x, c)
    BY DEF ShapeAt, PrefixAt
  <1>5. /\ s.kind \in Prefixed => p.c > 0
        /\ s.kind = "union" => p.n <= Len(s.elems)
    BY <1>4 DEF Fits, FirstProofs!Fits, Prefixed
  <1>6. /\ s.kind \in { "fixed", "block" } =>
             start = c.off + s.size /\ more = <<>>
        /\ s.kind \in { "string", "bytes" } =>
             start = c.off + p.c + p.n /\ more = <<>>
        /\ s.kind = "pointer" =>
             start = c.off + 1 /\ (more = s.elems \/ more = <<>>)
        /\ s.kind \in { "slice", "map", "union" } => start = c.off + p.c
        /\ s.kind = "array" => start = c.off
    BY PartsAre
  <1>7. /\ s.kind = "slice" => more = [k \in 1 .. p.n |-> s.elems[1]]
        /\ s.kind = "array" => more = [k \in 1 .. s.size |-> s.elems[1]]
        /\ s.kind = "map" =>
             more = [k \in 1 .. (2 * p.n) |-> s.elems[IF k % 2 = 1 THEN 1 ELSE 2]]
        /\ s.kind = "union" /\ p.n = 0 => more = <<>>
        /\ s.kind = "union" /\ p.n # 0 => more = <<s.elems[p.n]>>
    BY PartsAre
  <1> HIDE DEF s, p, more, start
  <1>8. start \in Nat /\ start >= c.off
    <2>1. c.off \in Nat /\ s.size \in Nat /\ p.n \in Nat /\ p.c \in Int
      BY <1>1, <1>2, <1>3
    <2>2. /\ s.kind \in { "fixed", "block" } => start = c.off + s.size
          /\ s.kind \in { "string", "bytes" } => start = c.off + p.c + p.n
          /\ s.kind = "pointer" => start = c.off + 1
          /\ s.kind \in { "slice", "map", "union" } => start = c.off + p.c
          /\ s.kind = "array" => start = c.off
      BY <1>6
    <2>3. s.kind \in First!Kind \ { "owned", "struct" }
      BY <1>1
    <2>4. s.kind \in Prefixed => p.c > 0
      BY <1>5
    <2> QED
      BY ONLY <2>1, <2>2, <2>3, <2>4 DEF First!Kind, Prefixed
  <1> SUFFICES more \in Seq(R)
    BY <1>8 DEF more, start
  <1>none. <<>> \in Seq(R) /\ \A e \in R : <<e>> \in Seq(R)
    OBVIOUS
  <1>9. CASE s.kind \in { "fixed", "block", "string", "bytes", "pointer" }
    BY ONLY <1>1, <1>6, <1>9, <1>none
  <1>10. CASE s.kind \in { "slice", "array" }
    <2>1. s.elems[1] \in R
      BY <1>1, <1>10
    <2>2. \A n \in Nat : [k \in 1 .. n |-> s.elems[1]] \in Seq(R)
      BY <2>1
    <2> QED
      BY <1>1, <1>3, <1>7, <1>10, <2>2
  <1>11. CASE s.kind = "map"
    <2>1. s.elems[1] \in R /\ s.elems[2] \in R
      BY <1>1, <1>11
    <2>2. [k \in 1 .. (2 * p.n) |-> s.elems[IF k % 2 = 1 THEN 1 ELSE 2]] \in Seq(R)
      BY <1>3, <2>1
    <2> QED
      BY <1>7, <1>11, <2>2
  <1>12. CASE s.kind = "union"
    <2>1. p.n # 0 => s.elems[p.n] \in R
      BY <1>1, <1>3, <1>5, <1>12
    <2> QED
      BY ONLY <1>7, <1>12, <1>none, <2>1
  <1> QED
    BY <1>1, <1>9, <1>10, <1>11, <1>12 DEF First!Kind

\* A value that takes a byte is paid for by its prefix, its bytes or its parts.
LEMMA PartsWeigh ==
  ASSUME NEW R \in SUBSET Type, Generated(R), NEW W, TakesByte(W), NEW x, Buffer(x),
         NEW c \in Configs(R), c.off <= x.len, c.todo # <<>>,
         ShapeAt(c).kind # "struct", Fits(x, c)
  PROVE  Behind(x, c) + Weight(W, Parts(x, c)) >=
           c.off + (IF Head(c.todo) \in W THEN 1 ELSE 0)
  <1> DEFINE s == ShapeAt(c)
             p == PrefixAt(x, c)
  <1>1. /\ s.size \in Nat /\ s.elems \in Seq(R) /\ s = Schema[Head(c.todo)]
        /\ s.kind \in First!Kind \ { "owned", "struct" }
        /\ s.kind = "fixed" => s.size > 0
    BY ShapeType
  <1>2. c.off \in Nat /\ c.off \in 0 .. x.len
    BY DEF Configs, Buffer
  <1>3. p.n \in Nat /\ p.c \in Int
    BY <1>2, PrefixType
  <1>4. s = FirstProofs!ShapeAt(c) /\ p = FirstProofs!PrefixAt(x, c)
    BY DEF ShapeAt, PrefixAt
  <1>5. s.kind \in Prefixed => p.c > 0
    BY <1>4 DEF Fits, FirstProofs!Fits, Prefixed
  <1>6. Parts(x, c) \in Seq(R) /\ Behind(x, c) \in Nat /\ Behind(x, c) >= c.off
    BY PartsType
  <1>7. Weight(W, Parts(x, c)) \in Nat
    BY <1>6, WeightType, LenProperties
  <1>8. CASE Behind(x, c) > c.off \/ Head(c.todo) \notin W
    BY <1>2, <1>6, <1>7, <1>8
  <1>9. CASE Behind(x, c) = c.off /\ Head(c.todo) \in W
    <2>1. /\ s.kind = "block" => s.size > 0
          /\ s.kind = "array" => s.size > 0 /\ s.elems[1] \in W
      BY <1>1, <1>9 DEF TakesByte
    <2>2. s.kind = "array"
      <3>1. /\ s.kind \in { "fixed", "block" } => c.off = c.off + s.size
            /\ s.kind \in { "string", "bytes" } => c.off = c.off + p.c + p.n
            /\ s.kind = "pointer" => c.off = c.off + 1
            /\ s.kind \in { "slice", "map", "union" } => c.off = c.off + p.c
        BY <1>9, PartsAre
      <3> HIDE DEF s, p
      <3>2. /\ s.kind \in { "fixed", "block" } => s.size > 0
            /\ s.kind \in First!Kind \ { "owned", "struct" }
            /\ s.size \in Nat /\ c.off \in Nat
        BY <1>1, <1>2, <2>1
      <3>3. s.kind \notin { "fixed", "block", "pointer" }
        BY ONLY <3>1, <3>2
      <3>4. s.kind \notin { "string", "bytes" }
        <4>1. p.n \in Nat /\ p.c \in Int
          BY <1>3
        <4> QED
          BY ONLY <1>5, <3>1, <3>2, <4>1 DEF Prefixed
      <3>5. s.kind \notin { "slice", "map", "union" }
        BY ONLY <1>3, <1>5, <3>1, <3>2 DEF Prefixed
      <3> DEFINE k == s.kind
      <3>6. /\ k \in { "fixed", "block", "string", "bytes", "slice", "array",
                      "pointer", "map", "struct", "union", "owned" }
            /\ k \notin { "owned", "struct" }
        BY <3>2 DEF First!Kind
      <3>7. k \notin { "fixed", "block", "pointer", "string", "bytes", "slice", "map", "union" }
        BY ONLY <3>3, <3>4, <3>5
      <3> HIDE DEF k
      <3>8. k = "array"
        BY ONLY <3>6, <3>7
      <3> QED
        BY <3>8 DEF k
    <2>3. Parts(x, c) = [k \in 1 .. s.size |-> s.elems[1]]
      BY <2>2, PartsAre
    <2>4. Weight(W, Parts(x, c)) = s.size
      <3> DEFINE n == s.size
                 e == s.elems[1]
      <3>1. n \in Nat /\ e \in W
        BY <1>1, <2>1, <2>2
      <3> HIDE DEF n, e
      <3>2. Weight(W, [k \in 1 .. n |-> e]) = n
        BY <3>1, WeightAll
      <3> QED
        BY <2>3, <3>2 DEF n, e
    <2> QED
      BY <1>1, <1>2, <1>9, <2>1, <2>2, <2>4
  <1> QED
    BY <1>2, <1>6, <1>8, <1>9

\* sums[k] is the weight of what the k-th waiting method and those that wait for
\* it have to do.
Sums(W, callers1, sums) ==
  /\ sums \in [1 .. Len(callers1) + 1 -> Nat]
  /\ sums[Len(callers1) + 1] = 0
  /\ \A k \in 1 .. Len(callers1) : sums[k] = Weight(W, callers1[k].todo) + sums[k + 1]

LEMMA SumsPush ==
  ASSUME NEW R, NEW W, NEW callers1 \in Seq(Frames(R)), NEW frame \in Frames(R),
         NEW sums, Sums(W, callers1, sums)
  PROVE  \E more : /\ Sums(W, <<frame>> \o callers1, more)
                   /\ more[1] = Weight(W, frame.todo) + sums[1]
  <1> DEFINE n == Len(callers1)
             longer == <<frame>> \o callers1
             first1 == Weight(W, frame.todo) + sums[1]
             more == [k \in 1 .. (n + 2) |-> IF k = 1 THEN first1 ELSE sums[k - 1]]
  <1>1. /\ n \in Nat /\ Len(longer) = n + 1 /\ longer[1] = frame
        /\ \A k \in 2 .. n + 1 : longer[k] = callers1[k - 1]
    OBVIOUS
  <1>2. frame.todo \in Seq(R)
    BY DEF Frames
  <1>3. Weight(W, frame.todo) \in Nat
    BY <1>2, WeightType, LenProperties
  <1>4. /\ \A k \in 1 .. n + 1 : sums[k] \in Nat
        /\ sums[n + 1] = 0
        /\ \A k \in 1 .. n : sums[k] = Weight(W, callers1[k].todo) + sums[k + 1]
    BY DEF Sums
  <1>5. first1 \in Nat
    BY <1>1, <1>3, <1>4
  <1> HIDE DEF longer, first1
  <1>6. more \in [1 .. Len(longer) + 1 -> Nat]
    BY <1>1, <1>4, <1>5
  <1>7. more[Len(longer) + 1] = 0
    BY <1>1, <1>4
  <1>8. ASSUME NEW k \in 1 .. Len(longer)
        PROVE  more[k] = Weight(W, longer[k].todo) + more[k + 1]
    <2>1. CASE k = 1
      BY <1>1, <2>1 DEF first1
    <2>2. CASE k # 1
      <3>1. k - 1 \in 1 .. n /\ k \in 2 .. n + 1 /\ k \in 1 .. n + 2 /\ k + 1 \in 1 .. n + 2
            /\ (k - 1) + 1 = k /\ (k + 1) - 1 = k /\ k + 1 # 1
        BY <1>1, <2>2
      <3>2. more[k] = sums[k - 1] /\ more[k + 1] = sums[k]
        BY <2>2, <3>1
      <3>3. longer[k] = callers1[k - 1]
        BY <1>1, <3>1
      <3>4. sums[k - 1] = Weight(W, callers1[k - 1].todo) + sums[(k - 1) + 1]
        BY <1>4, <3>1
      <3> QED
        BY <3>1, <3>2, <3>3, <3>4
    <2> QED
      BY <2>1, <2>2
  <1>9. more[1] = first1
    BY <1>1
  <1> HIDE DEF more
  <1>10. Sums(W, longer, more)
    BY <1>6, <1>7, <1>8 DEF Sums
  <1> QED
    BY <1>9, <1>10 DEF longer, first1

LEMMA SumsPop ==
  ASSUME NEW R, NEW W, NEW callers1 \in Seq(Frames(R)), callers1 # <<>>,
         NEW sums, Sums(W, callers1, sums)
  PROVE  \E fewer : /\ Sums(W, Tail(callers1), fewer)
                    /\ sums[1] = Weight(W, Head(callers1).todo) + fewer[1]
  <1> DEFINE n == Len(callers1)
             fewer == [k \in 1 .. n |-> sums[k + 1]]
  <1>1. /\ n \in Nat /\ n >= 1 /\ Len(Tail(callers1)) = n - 1
        /\ Head(callers1) = callers1[1]
        /\ \A k \in 1 .. n - 1 : Tail(callers1)[k] = callers1[k + 1]
    OBVIOUS
  <1>2. /\ \A k \in 1 .. n + 1 : sums[k] \in Nat
        /\ sums[n + 1] = 0
        /\ \A k \in 1 .. n : sums[k] = Weight(W, callers1[k].todo) + sums[k + 1]
    BY DEF Sums
  <1>3. fewer \in [1 .. Len(Tail(callers1)) + 1 -> Nat]
    BY <1>1, <1>2
  <1>4. fewer[Len(Tail(callers1)) + 1] = 0
    BY <1>1, <1>2
  <1>5. ASSUME NEW k \in 1 .. Len(Tail(callers1))
        PROVE  fewer[k] = Weight(W, Tail(callers1)[k].todo) + fewer[k + 1]
    BY <1>1, <1>2
  <1>6. fewer[1] = sums[2]
    BY <1>1
  <1> HIDE DEF fewer
  <1>7. Sums(W, Tail(callers1), fewer)
    BY <1>3, <1>4, <1>5 DEF Sums
  <1>8. sums[1] = Weight(W, Head(callers1).todo) + fewer[1]
    BY <1>1, <1>2, <1>6
  <1> QED
    BY <1>7, <1>8

\* The offset and the weight of all that is still to do: what they come to never
\* falls, so that at the end there are as many bytes as values that take one.
LEMMA DecodedOwes ==
  ASSUME NEW R \in SUBSET Type, Generated(R), NEW W, TakesByte(W), NEW x, Buffer(x),
         NEW c \in Configs(R), c.off <= x.len, c.todo # <<>>,
         ShapeAt(c).kind # "struct", Fits(x, c)
  PROVE  /\ Successor(x, c) = [base |-> c.base, off |-> Behind(x, c),
                               todo |-> Parts(x, c) \o Tail(c.todo),
                               callers |-> c.callers]
         /\ Successor(x, c) \in Configs(R)
         /\ Behind(x, c) + Weight(W, Parts(x, c) \o Tail(c.todo)) >=
              c.off + Weight(W, c.todo)
  <1>1. Successor(x, c) = [base |-> c.base, off |-> Behind(x, c),
                           todo |-> Parts(x, c) \o Tail(c.todo),
                           callers |-> c.callers]
    BY DEF Successor, FirstProofs!Successor, FirstProofs!Decoded, Behind, Parts,
           ShapeAt
  <1>2. Parts(x, c) \in Seq(R) /\ Behind(x, c) \in Nat
    BY PartsType
  <1>3. c.todo \in Seq(R) /\ Tail(c.todo) \in Seq(R)
    BY DEF Configs
  <1>4. Parts(x, c) \o Tail(c.todo) \in Seq(R)
    BY <1>2, <1>3
  <1>5. Successor(x, c) \in Configs(R)
    BY <1>1, <1>2, <1>4 DEF Configs
  <1>6. Weight(W, Parts(x, c) \o Tail(c.todo)) =
          Weight(W, Parts(x, c)) + Weight(W, Tail(c.todo))
    BY <1>2, <1>3, WeightConcat
  <1>7. Weight(W, c.todo) = (IF Head(c.todo) \in W THEN 1 ELSE 0) + Weight(W, Tail(c.todo))
    BY <1>3, WeightTail
  <1>8. Behind(x, c) + Weight(W, Parts(x, c)) >=
          c.off + (IF Head(c.todo) \in W THEN 1 ELSE 0)
    BY PartsWeigh
  <1>9. /\ Weight(W, Parts(x, c)) \in Nat /\ Weight(W, Tail(c.todo)) \in Nat
        /\ c.off \in Nat
    BY <1>2, <1>3, WeightType, LenProperties DEF Configs
  <1> QED
    BY <1>1, <1>2, <1>5, <1>6, <1>7, <1>8, <1>9

LEMMA CalledOwes ==
  ASSUME NEW R \in SUBSET Type, Generated(R), NEW W, TakesByte(W),
         NEW c \in Configs(R), c.todo # <<>>, ShapeAt(c).kind = "struct", NEW x
  PROVE  LET frame == [base |-> c.base, todo |-> Tail(c.todo)]
         IN  /\ Successor(x, c) = [base |-> c.off, off |-> c.off,
                                   todo |-> ShapeAt(c).elems,
                                   callers |-> <<frame>> \o c.callers]
             /\ frame \in Frames(R) /\ c.callers \in Seq(Frames(R))
             /\ Successor(x, c) \in Configs(R)
             /\ Weight(W, ShapeAt(c).elems) + Weight(W, Tail(c.todo)) >= Weight(W, c.todo)
  <1> DEFINE frame == [base |-> c.base, todo |-> Tail(c.todo)]
             s == ShapeAt(c)
  <1>1. Successor(x, c) = [base |-> c.off, off |-> c.off, todo |-> s.elems,
                           callers |-> <<frame>> \o c.callers]
    BY DEF Successor, FirstProofs!Successor, FirstProofs!Called, ShapeAt
  <1>2. s.elems \in Seq(R) /\ s = Schema[Head(c.todo)] /\ c.todo \in Seq(R)
        /\ Tail(c.todo) \in Seq(R)
    BY ShapeType DEF Configs
  <1>3. c.base \in Nat /\ c.off \in Nat /\ c.callers \in Seq(Frames(R))
    BY DEF Configs
  <1>4. frame \in Frames(R)
    BY <1>2, <1>3 DEF Frames
  <1>5. <<frame>> \o c.callers \in Seq(Frames(R))
    <2> HIDE DEF frame
    <2> QED
      BY <1>3, <1>4
  <1>6. Successor(x, c) \in Configs(R)
    <2> HIDE DEF frame, s
    <2> QED
      BY <1>1, <1>2, <1>3, <1>5 DEF Configs
  <1>7. Weight(W, c.todo) = (IF Head(c.todo) \in W THEN 1 ELSE 0) + Weight(W, Tail(c.todo))
    BY <1>2, WeightTail
  <1>8. Weight(W, s.elems) \in Nat /\ Weight(W, Tail(c.todo)) \in Nat
    BY <1>2, WeightType, LenProperties
  <1>9. Head(c.todo) \in W => Weight(W, s.elems) >= 1
    <2> SUFFICES ASSUME Head(c.todo) \in W PROVE Weight(W, s.elems) >= 1
      OBVIOUS
    <2>1. PICK k \in DOMAIN s.elems : s.elems[k] \in W
      BY <1>2 DEF TakesByte
    <2>2. k \in 1 .. Len(s.elems)
      BY <1>2
    <2> QED
      BY <1>2, <2>1, <2>2, WeightSome
  <1> QED
    BY <1>1, <1>3, <1>4, <1>6, <1>7, <1>8, <1>9

LEMMA ReturnedOwes ==
  ASSUME NEW R, NEW c \in Configs(R), c.todo = <<>>, c.callers # <<>>, NEW x
  PROVE  /\ Successor(x, c) = [base |-> Head(c.callers).base, off |-> c.off,
                               todo |-> Head(c.callers).todo,
                               callers |-> Tail(c.callers)]
         /\ Successor(x, c) \in Configs(R)
         /\ c.callers \in Seq(Frames(R))
  <1>1. Successor(x, c) = [base |-> Head(c.callers).base, off |-> c.off,
                           todo |-> Head(c.callers).todo,
                           callers |-> Tail(c.callers)]
    BY DEF Successor, FirstProofs!Successor, FirstProofs!Returned
  <1>2. c.callers \in Seq(Frames(R)) /\ c.off \in Nat
    BY DEF Configs
  <1>3. Head(c.callers) \in Frames(R) /\ Tail(c.callers) \in Seq(Frames(R))
    BY <1>2
  <1> QED
    BY <1>1, <1>2, <1>3 DEF Configs, Frames

Owed(W, c, sums) == c.off + Weight(W, c.todo) + sums[1]

LEMMA SuccessorOwes ==
  ASSUME NEW R \in SUBSET Type, Generated(R), NEW W, TakesByte(W), NEW x, Buffer(x),
         NEW c \in Configs(R), c.off <= x.len, GoesOn(x, c),
         NEW sums, Sums(W, c.callers, sums)
  PROVE  /\ Successor(x, c) \in Configs(R)
         /\ \E more : /\ Sums(W, Successor(x, c).callers, more)
                      /\ Owed(W, Successor(x, c), more) >= Owed(W, c, sums)
  <1> DEFINE d == Successor(x, c)
  <1>1. /\ c.off \in Nat /\ c.todo \in Seq(R) /\ c.callers \in Seq(Frames(R))
        /\ c.todo = <<>> => c.callers # <<>>
        /\ c.todo # <<>> => Fits(x, c)
    BY DEF Configs, GoesOn, Ended, FirstProofs!Ended
  <1>2. sums[1] \in Nat /\ Weight(W, c.todo) \in Nat
    <2>1. 1 \in 1 .. Len(c.callers) + 1
      BY <1>1
    <2> QED
      BY <1>1, <2>1, WeightType, LenProperties DEF Sums
  <1>3. CASE c.todo # <<>> /\ ShapeAt(c).kind # "struct"
    <2> DEFINE s == Parts(x, c) \o Tail(c.todo)
    <2>1. /\ d.callers = c.callers /\ d.off = Behind(x, c) /\ d.todo = s
          /\ d \in Configs(R)
          /\ Behind(x, c) + Weight(W, s) >= c.off + Weight(W, c.todo)
      BY <1>1, <1>3, DecodedOwes
    <2>2. d.todo \in Seq(R) /\ d.off \in Nat
      BY <2>1 DEF Configs
    <2>3. Weight(W, d.todo) \in Nat
      BY <2>2, WeightType, LenProperties
    <2>4. Owed(W, d, sums) >= Owed(W, c, sums)
      <3>1. d.off + Weight(W, d.todo) >= c.off + Weight(W, c.todo)
        BY <2>1
      <3> HIDE DEF d
      <3> QED
        BY <1>1, <1>2, <2>2, <2>3, <3>1 DEF Owed
    <2> HIDE DEF d, s
    <2> QED
      BY <2>1, <2>4 DEF d
  <1>4. CASE c.todo # <<>> /\ ShapeAt(c).kind = "struct"
    <2> DEFINE frame == [base |-> c.base, todo |-> Tail(c.todo)]
    <2>1. /\ d.callers = <<frame>> \o c.callers /\ d.off = c.off
          /\ d.todo = ShapeAt(c).elems /\ d \in Configs(R)
          /\ frame \in Frames(R) /\ frame.todo = Tail(c.todo)
          /\ Weight(W, ShapeAt(c).elems) + Weight(W, Tail(c.todo)) >= Weight(W, c.todo)
      BY <1>4, CalledOwes
    <2> HIDE DEF frame
    <2>2. PICK more : /\ Sums(W, <<frame>> \o c.callers, more)
                      /\ more[1] = Weight(W, frame.todo) + sums[1]
      BY <1>1, <2>1, SumsPush
    <2>3. d.todo \in Seq(R) /\ Tail(c.todo) \in Seq(R)
      BY <1>1, <1>4, <2>1 DEF Configs
    <2>4. Weight(W, d.todo) \in Nat /\ Weight(W, Tail(c.todo)) \in Nat
      BY <2>3, WeightType, LenProperties
    <2>5. Owed(W, d, more) >= Owed(W, c, sums)
      <3>1. /\ d.off = c.off /\ more[1] = Weight(W, Tail(c.todo)) + sums[1]
            /\ Weight(W, d.todo) + Weight(W, Tail(c.todo)) >= Weight(W, c.todo)
        BY <2>1, <2>2
      <3> HIDE DEF d
      <3> QED
        BY <1>1, <1>2, <2>4, <3>1 DEF Owed
    <2> HIDE DEF d
    <2> QED
      BY <2>1, <2>2, <2>5 DEF d
  <1>5. CASE c.todo = <<>>
    <2>1. /\ d.callers = Tail(c.callers) /\ d.off = c.off
          /\ d.todo = Head(c.callers).todo /\ d \in Configs(R)
      <3>1. c.callers # <<>>
        BY <1>1, <1>5
      <3>2. /\ d = [base |-> Head(c.callers).base, off |-> c.off,
                    todo |-> Head(c.callers).todo, callers |-> Tail(c.callers)]
            /\ d \in Configs(R)
        BY <1>5, <3>1, ReturnedOwes
      <3> HIDE DEF d
      <3> QED
        BY <3>2
    <2>2. PICK fewer : /\ Sums(W, Tail(c.callers), fewer)
                       /\ sums[1] = Weight(W, Head(c.callers).todo) + fewer[1]
      BY <1>1, <1>5, SumsPop
    <2>3. Weight(W, c.todo) = 0
      BY <1>5, WeightEmpty
    <2>4. d.todo \in Seq(R) /\ Tail(c.callers) \in Seq(Frames(R))
      BY <1>1, <1>5, <2>1 DEF Configs
    <2>5. Weight(W, d.todo) \in Nat /\ fewer[1] \in Nat
      <3>1. 1 \in 1 .. Len(Tail(c.callers)) + 1
        BY <2>4, LenProperties
      <3> QED
        BY <2>2, <2>4, <3>1, WeightType, LenProperties DEF Sums
    <2>6. Owed(W, d, fewer) >= Owed(W, c, sums)
      <3>1. d.off = c.off /\ sums[1] = Weight(W, d.todo) + fewer[1]
        BY <2>1, <2>2
      <3> HIDE DEF d
      <3> QED
        BY <1>1, <1>2, <2>3, <2>5, <3>1 DEF Owed
    <2> HIDE DEF d
    <2> QED
      BY <2>1, <2>2, <2>6 DEF d
  <1> QED
    BY <1>3, <1>4, <1>5

-----------------------------------------------------------------------------
(***************************************************************************)
(* The same step from the same place in a prefix of the buffer.            *)
(***************************************************************************)

Prefix(y, x) == Buffer(x) /\ Buffer(y) /\ y.data = x.data /\ y.len <= x.len

\* What a varint that ends in the prefix says there.
LEMMA SamePrefix ==
  ASSUME NEW x, NEW y, Prefix(y, x), NEW c, c.off \in 0 .. y.len,
         PrefixAt(x, c).c > 0
  PROVE  IF c.off + PrefixAt(x, c).c <= y.len
         THEN PrefixAt(y, c) = PrefixAt(x, c) ELSE PrefixAt(y, c).c <= 0
  <1>1. /\ x \in Input /\ c.off \in 0 .. x.len /\ y.len \in c.off .. x.len
        /\ x.len \in Nat /\ y.len \in Nat
    BY DEF Prefix, Buffer
  <1>2. PrefixAt(x, c) = ReadUvarint(SubSeq(x.data, c.off + 1, x.len))
    BY DEF PrefixAt, FirstProofs!PrefixAt
  <1>3. PrefixAt(y, c) = ReadUvarint(SubSeq(x.data, c.off + 1, y.len))
    BY DEF PrefixAt, FirstProofs!PrefixAt, Prefix
  <1>4. PrefixAt(x, c).c \in Int
    BY <1>1, PrefixType DEF Prefix
  <1>5. IF PrefixAt(x, c).c <= y.len - c.off
        THEN PrefixAt(y, c) = PrefixAt(x, c) ELSE PrefixAt(y, c).c <= 0
    BY <1>1, <1>2, <1>3, VarintAssumption
  <1> QED
    BY <1>1, <1>4, <1>5

\* Guards that pass in the prefix passed in the buffer to the same effect.
LEMMA SameSuccessor ==
  ASSUME NEW R \in SUBSET Type, Generated(R), NEW x, NEW y, Prefix(y, x),
         NEW c \in Configs(R), c.off <= y.len, GoesOn(x, c), GoesOn(y, c)
  PROVE  Successor(y, c) = Successor(x, c)
  <1>1. CASE c.todo # <<>> /\ ShapeAt(c).kind \in Prefixed
    <2>1. PrefixAt(x, c).c > 0 /\ PrefixAt(y, c).c > 0
      BY <1>1 DEF GoesOn, Fits, FirstProofs!Fits, PrefixAt, ShapeAt, Prefixed
    <2>2. c.off \in 0 .. y.len
      BY DEF Configs, Prefix, Buffer
    <2>3. PrefixAt(y, c).c \in Int
      BY <2>2, PrefixType DEF Prefix
    <2>4. PrefixAt(y, c) = PrefixAt(x, c)
      BY <2>1, <2>2, <2>3, SamePrefix
    <2> QED
      BY <2>4 DEF Successor, FirstProofs!Successor, FirstProofs!Returned,
         FirstProofs!Called, FirstProofs!Decoded, FirstProofs!Behind,
         FirstProofs!PartsAt, FirstProofs!ShapeAt, PrefixAt, Prefix
  <1>2. CASE c.todo = <<>> \/ ShapeAt(c).kind \notin Prefixed
    BY <1>2 DEF Successor, FirstProofs!Successor, FirstProofs!Returned,
       FirstProofs!Called, FirstProofs!Decoded, FirstProofs!Behind,
       FirstProofs!PartsAt, ShapeAt, FirstProofs!ShapeAt, Prefixed, Prefix
  <1> QED
    BY <1>1, <1>2

\* A tag that is read in the prefix is the one that was known in the buffer.
LEMMA KnownTag ==
  ASSUME NEW R \in SUBSET Type, NEW x, NEW y, Prefix(y, x),
         NEW c \in Configs(R), c.off <= y.len, Fits(x, c),
         ShapeAt(c).kind = "union", PrefixAt(y, c).c > 0
  PROVE  Fits(y, c)
  <1>1. PrefixAt(x, c).c > 0 /\ PrefixAt(x, c).n <= Len(ShapeAt(c).elems)
    BY DEF Fits, FirstProofs!Fits, PrefixAt, ShapeAt
  <1>2. c.off \in 0 .. y.len
    BY DEF Configs, Prefix, Buffer
  <1>3. PrefixAt(y, c).c \in Int
    BY <1>2, PrefixType DEF Prefix
  <1>4. PrefixAt(y, c) = PrefixAt(x, c)
    BY <1>1, <1>2, <1>3, SamePrefix
  <1> QED
    BY <1>1, <1>4 DEF Fits, FirstProofs!Fits, PrefixAt, ShapeAt

\* Guards pass in a prefix that has the bytes of all that is still to do.
LEMMA EnoughFits ==
  ASSUME NEW R \in SUBSET Type, Generated(R), NEW W, ElementsTakeBytes(R, W),
         NEW x, NEW y, Prefix(y, x), NEW c \in Configs(R), c.off <= y.len,
         c.todo # <<>>, Fits(x, c),
         Successor(x, c).off + Weight(W, Successor(x, c).todo) <= y.len
  PROVE  Fits(y, c)
  <1> DEFINE s == ShapeAt(c)
             p == PrefixAt(x, c)
             q == PrefixAt(y, c)
             start == Behind(x, c)
             more == Parts(x, c)
  <1>1. /\ c.off \in Nat /\ c.off \in 0 .. y.len /\ c.off \in 0 .. x.len
        /\ c.off <= x.len /\ y.len \in Nat /\ Buffer(x)
    BY DEF Configs, Prefix, Buffer
  <1>2. p.n \in Nat /\ p.c \in Int
    BY <1>1, PrefixType
  <1>3. /\ s.kind \in Prefixed => p.c > 0
        /\ s.kind = "union" => p.n <= Len(s.elems)
    BY DEF Fits, FirstProofs!Fits, Prefixed, PrefixAt, ShapeAt
  <1>4. s.kind \in Prefixed /\ c.off + p.c <= y.len => q = p
    BY <1>1, <1>3, SamePrefix
  <1>5. SUFFICES
          /\ s.kind \in { "fixed", "block" } => c.off + s.size <= y.len
          /\ s.kind = "pointer" => c.off + 1 <= y.len
          /\ s.kind \in { "string", "bytes", "slice", "map" } =>
               q.c > 0 /\ c.off + q.c + q.n <= y.len
          /\ s.kind = "union" => q.c > 0 /\ q.n <= Len(s.elems)
    BY DEF Fits, FirstProofs!Fits, PrefixAt, ShapeAt
  <1>6. CASE s.kind = "struct"
    BY <1>6
  <1>7. CASE s.kind # "struct"
    <2>1. TakesByte(W)
      BY DEF ElementsTakeBytes
    <2>2. /\ s.size \in Nat /\ s.elems \in Seq(R) /\ Tail(c.todo) \in Seq(R)
          /\ s.kind \in { "slice", "map" } => s.elems[1] \in W
      BY ShapeType DEF ElementsTakeBytes
    <2>3. more \in Seq(R) /\ start \in Nat
      BY <1>1, <1>7, PartsType
    <2>4. /\ Successor(x, c).off = start
          /\ Successor(x, c).todo = more \o Tail(c.todo)
      BY <1>1, <1>7, <2>1, DecodedOwes
    <2>5. Weight(W, more \o Tail(c.todo)) = Weight(W, more) + Weight(W, Tail(c.todo))
      BY <2>2, <2>3, WeightConcat
    <2>6. Weight(W, more) \in Nat /\ Weight(W, Tail(c.todo)) \in Nat
      BY <2>2, <2>3, WeightType, LenProperties
    <2>7. start + Weight(W, more) <= y.len
      BY <1>1, <2>3, <2>4, <2>5, <2>6
    <2>8. /\ s.kind \in { "fixed", "block" } => start = c.off + s.size
          /\ s.kind \in { "string", "bytes" } => start = c.off + p.c + p.n
          /\ s.kind = "pointer" => start = c.off + 1
          /\ s.kind \in { "slice", "map", "union" } => start = c.off + p.c
          /\ s.kind = "slice" => more = [k \in 1 .. p.n |-> s.elems[1]]
          /\ s.kind = "map" =>
               more = [k \in 1 .. (2 * p.n) |-> s.elems[IF k % 2 = 1 THEN 1 ELSE 2]]
      BY PartsAre
    <2>9. s.kind = "slice" => Weight(W, more) = p.n
      <3> SUFFICES ASSUME s.kind = "slice" PROVE Weight(W, more) = p.n
        OBVIOUS
      <3>1. Weight(W, [k \in 1 .. p.n |-> s.elems[1]]) = p.n
        <4> DEFINE n == p.n
                   e == s.elems[1]
        <4>1. n \in Nat /\ e \in W
          BY <1>2, <2>2
        <4> HIDE DEF n, e
        <4>2. Weight(W, [k \in 1 .. n |-> e]) = n
          BY <4>1, WeightAll
        <4> QED
          BY <4>2 DEF n, e
      <3> QED
        BY <2>8, <3>1
    <2>10. s.kind = "map" => Weight(W, more) >= p.n
      <3> SUFFICES ASSUME s.kind = "map" PROVE Weight(W, more) >= p.n
        OBVIOUS
      <3>1. Weight(W, [k \in 1 .. (2 * p.n) |-> s.elems[IF k % 2 = 1 THEN 1 ELSE 2]]) >= p.n
        <4> DEFINE n == p.n
                   e == s.elems
        <4>1. n \in Nat /\ e[1] \in W
          BY <1>2, <2>2
        <4> HIDE DEF n, e
        <4>2. Weight(W, [k \in 1 .. (2 * n) |-> e[IF k % 2 = 1 THEN 1 ELSE 2]]) >= n
          BY <4>1, WeightAlternating
        <4> QED
          BY <4>2 DEF n, e
      <3> QED
        BY <2>8, <3>1
    <2> DEFINE w == Weight(W, more)
               i == c.off
               limit == y.len
    <2>11. /\ s.kind \in { "fixed", "block" } => start = i + s.size
           /\ s.kind \in { "string", "bytes" } => start = i + p.c + p.n
           /\ s.kind = "pointer" => start = i + 1
           /\ s.kind \in { "slice", "map", "union" } => start = i + p.c
           /\ s.kind \in { "slice", "map" } => w >= p.n
           /\ start + w <= limit
           /\ s.kind \in Prefixed => p.c > 0
           /\ s.kind = "union" => p.n <= Len(s.elems)
           /\ s.kind \in Prefixed /\ i + p.c <= limit => q = p
      BY <1>2, <1>3, <1>4, <2>6, <2>7, <2>8, <2>9, <2>10
    <2>12. i \in Nat /\ limit \in Nat /\ w \in Nat /\ start \in Nat /\ s.size \in Nat
      BY <1>1, <2>2, <2>3, <2>6
    <2> HIDE DEF s, p, q, start, more, w, i, limit
    <2>13. /\ s.kind \in { "fixed", "block" } => i + s.size <= limit
           /\ s.kind = "pointer" => i + 1 <= limit
           /\ s.kind \in { "string", "bytes", "slice", "map" } =>
                q.c > 0 /\ i + q.c + q.n <= limit
           /\ s.kind = "union" => q.c > 0 /\ q.n <= Len(s.elems)
      BY ONLY <1>2, <2>11, <2>12 DEF Prefixed
    <2> QED
      BY <2>13 DEF i, limit
  <1> QED
    BY <1>6, <1>7

-----------------------------------------------------------------------------
(***************************************************************************)
(* The inductive invariant: the places the first decode has been at, each  *)
(* but the last with the next, and the second decode at one of them.       *)
(***************************************************************************)

Start == [base |-> 0, off |-> 0, todo |-> <<root>>, callers |-> <<>>]

\* S holds start and every place from there to c in the buffer x.  No place in S
\* owes more than c does.
Trace(R, W, x, start, c, S, sums) ==
  /\ S \subseteq Configs(R)
  /\ start \in S /\ c \in S
  /\ \A d \in S : d = c \/ (GoesOn(x, d) /\ Successor(x, d) \in S)
  /\ Sums(W, c.callers, sums)
  /\ \A d \in S : d.off + Weight(W, d.todo) <= Owed(W, c, sums)

FirstOK ==
  /\ FirstProofs!TypeOK /\ FirstProofs!SafeInv
  /\ phase = "failed" => err # First!NoErr
  /\ Accepted => Ended(Now1)

SecondOK ==
  /\ SecondProofs!TypeOK /\ SecondProofs!SafeInv
  /\ Prefix(cut, in)
  /\ ~Over(phase) => Now2 = Start /\ phase2 = "run"

\* What the second decode makes of bytes the first has accepted.
Follows(R, W) ==
  /\ phase2 = "done" /\ err2 = First!NoErr => Ended(Now2)
  /\ phase2 = "failed" \/ (phase2 = "done" /\ err2 # First!NoErr) =>
       /\ err2 = First!ErrShortBuffer
       /\ ElementsTakeBytes(R, W) => cut.len < off

\* The second decode is where the first has been.
Retraces == phase2 = "run" \/ (phase2 = "done" /\ err2 = First!NoErr)

PairInv(R, W) ==
  /\ FirstOK
  /\ ~fast => SecondOK
  /\ phase = "run" \/ Accepted =>
       \E S, sums : /\ Trace(R, W, in, Start, Now1, S, sums)
                    /\ ~fast /\ Retraces => Now2 \in S
  /\ Accepted /\ ~fast => Follows(R, W)

LEMMA SameErrors ==
  /\ FirstProofs!NoErr = First!NoErr /\ SecondProofs!NoErr = First!NoErr
  /\ SecondProofs!ErrShortBuffer = First!ErrShortBuffer
  /\ First!ErrShortBuffer # First!NoErr
  BY DEF FirstProofs!NoErr, First!NoErr, SecondProofs!NoErr, First!ErrShortBuffer,
         SecondProofs!ErrShortBuffer

LEMMA InitPair ==
  ASSUME NEW R \in SUBSET Type, Generated(R), NEW W, Init
  PROVE  PairInv(R, W)
  <1>1. FirstProofs!Init /\ in \in Input /\ root \in Roots /\ root \in R
    BY DEF Init, First!Init, FirstProofs!Init, First!NoErr, FirstProofs!NoErr, Generated
  <1>2. FirstProofs!TypeOK /\ FirstProofs!SafeInv
    BY <1>1, FirstAssumptions, FirstProofs!InitType, FirstProofs!InitSafe
  <1>3. PICK n \in 0 .. in.len : cut = [in EXCEPT !.len = n]
    BY DEF Init
  <1>4. cut \in Input
    BY <1>1, <1>3, PrefixAssumption
  <1>5. cut.data = in.data /\ cut.len = n /\ Buffer(in) /\ Buffer(cut)
    <2>1. Buffer(in) /\ Buffer(cut)
      BY <1>1, <1>4, InputIsBuffer
    <2>2. in \in [data : Seq(Nat), len : Nat]
      BY <2>1 DEF Buffer
    <2> QED
      BY <1>3, <2>1, <2>2
  <1>6. Prefix(cut, in)
    BY <1>5 DEF Prefix, Buffer
  <1>7. SecondProofs!Init
    BY <1>1, <1>4 DEF Init, SecondProofs!Init, First!NoErr, SecondProofs!NoErr
  <1>8. SecondProofs!TypeOK /\ SecondProofs!SafeInv
    BY <1>7, SecondAssumptions, SecondProofs!InitType, SecondProofs!InitSafe
  <1>9. /\ base = 0 /\ off = 0 /\ todo = <<root>> /\ callers = <<>>
        /\ base2 = 0 /\ off2 = 0 /\ todo2 = <<root>> /\ callers2 = <<>>
        /\ phase = "run" /\ phase2 = "run"
    BY DEF Init, First!Init
  <1>10. Now1 = Start /\ Now2 = Start
    BY <1>9 DEF Now1, Now2, Start, FirstProofs!Now, SecondProofs!Now
  <1>11. Start \in Configs(R)
    <2>1. <<root>> \in Seq(R) /\ <<>> \in Seq(Frames(R))
      BY <1>1
    <2> QED
      BY <2>1 DEF Start, Configs
  <1> DEFINE zeros == [k \in 1 .. 1 |-> 0]
  <1>12. Sums(W, callers, zeros)
    BY <1>9 DEF Sums
  <1>13. Start.off + Weight(W, Start.todo) <= Owed(W, Start, zeros)
    <2>1. Start.off = 0 /\ zeros[1] = 0 /\ Weight(W, Start.todo) \in Nat
      <3> DEFINE s == Start.todo
      <3>1. s \in Seq(R)
        BY <1>11 DEF Configs
      <3>2. Start.off = 0 /\ zeros[1] = 0
        BY DEF Start
      <3> HIDE DEF s
      <3>3. Weight(W, s) \in Nat
        BY <3>1, WeightType, LenProperties
      <3> QED
        BY <3>2, <3>3 DEF s
    <2> QED
      BY <2>1 DEF Owed
  <1> HIDE DEF zeros
  <1>14. Trace(R, W, in, Start, Now1, { Start }, zeros)
    <2>1. Start.callers = callers
      BY <1>9 DEF Start
    <2> QED
      BY <1>10, <1>11, <1>12, <1>13, <2>1 DEF Trace
  <1>15. FirstOK
    BY <1>2, <1>9 DEF FirstOK, Accepted
  <1>16. SecondOK
    BY <1>6, <1>8, <1>9, <1>10 DEF SecondOK
  <1>17. \E S, sums : /\ Trace(R, W, in, Start, Now1, S, sums)
                      /\ ~fast /\ Retraces => Now2 \in S
    BY <1>10, <1>14
  <1>18. ~Accepted
    BY <1>9 DEF Accepted
  <1>19. SecondOK /\ FirstOK
    BY <1>15, <1>16
  <1> QED
    BY ONLY <1>17, <1>18, <1>19 DEF PairInv

\* The first decode is at an expression of a type with a generated codec.
LEMMA FirstGenerated ==
  ASSUME NEW R \in SUBSET Type, Generated(R), Now1 \in Configs(R)
  PROVE  FirstProofs!Running => FirstProofs!This.kind # "owned"
  <1>1. Now1.todo = todo /\ ShapeAt(Now1) = FirstProofs!This
    BY Now1Is
  <1>2. ASSUME todo # <<>> PROVE ShapeAt(Now1).kind # "owned"
    <2>1. ShapeAt(Now1).kind \in First!Kind \ { "owned" }
      BY <1>1, <1>2, ShapeType
    <2> QED
      BY <2>1
  <1> QED
    BY <1>1, <1>2 DEF FirstProofs!Running

LEMMA SecondGenerated ==
  ASSUME NEW R \in SUBSET Type, Generated(R), Now2 \in Configs(R)
  PROVE  SecondProofs!Running => SecondProofs!This.kind # "owned"
  <1>1. Now2.todo = todo2 /\ ShapeAt(Now2) = SecondProofs!This
    BY Now2Is
  <1>2. ASSUME todo2 # <<>> PROVE ShapeAt(Now2).kind # "owned"
    <2>1. ShapeAt(Now2).kind \in First!Kind \ { "owned" }
      BY <1>1, <1>2, ShapeType
    <2> QED
      BY <2>1
  <1> QED
    BY <1>1, <1>2 DEF SecondProofs!Running

\* Where the decode goes next is added to where it has been.
LEMMA TraceGrows ==
  ASSUME NEW R \in SUBSET Type, Generated(R), NEW W, TakesByte(W),
         NEW x, Buffer(x), NEW start, NEW c, c.off <= x.len, GoesOn(x, c),
         NEW S, NEW sums, Trace(R, W, x, start, c, S, sums)
  PROVE  LET d == Successor(x, c)
         IN  \E more : Trace(R, W, x, start, d, S \cup { d }, more)
  <1> DEFINE d == Successor(x, c)
             T == S \cup { d }
  <1>1. /\ S \subseteq Configs(R) /\ start \in S /\ c \in S /\ c \in Configs(R)
        /\ \A e \in S : e = c \/ (GoesOn(x, e) /\ Successor(x, e) \in S)
        /\ Sums(W, c.callers, sums)
        /\ \A e \in S : e.off + Weight(W, e.todo) <= Owed(W, c, sums)
    BY DEF Trace
  <1>2. PICK more : /\ d \in Configs(R) /\ Sums(W, d.callers, more)
                    /\ Owed(W, d, more) >= Owed(W, c, sums)
    BY <1>1, SuccessorOwes
  <1>3. \A e \in S : GoesOn(x, e) /\ Successor(x, e) \in T
    BY <1>1
  <1> HIDE DEF d
  <1>4. \A e \in Configs(R) : e.off \in Nat /\ Weight(W, e.todo) \in Nat
    <2> SUFFICES ASSUME NEW e \in Configs(R) PROVE e.off \in Nat /\ Weight(W, e.todo) \in Nat
      OBVIOUS
    <2>1. e.off \in Nat /\ e.todo \in Seq(R)
      BY DEF Configs
    <2> QED
      BY <2>1, WeightType, LenProperties
  <1>5. sums[1] \in Nat /\ more[1] \in Nat
    <2>1. c.callers \in Seq(Frames(R)) /\ d.callers \in Seq(Frames(R))
      BY <1>1, <1>2 DEF Configs
    <2>2. 1 \in 1 .. Len(c.callers) + 1 /\ 1 \in 1 .. Len(d.callers) + 1
      BY <2>1, LenProperties
    <2> QED
      BY <1>1, <1>2, <2>2 DEF Sums
  <1>6. \A e \in T : e.off + Weight(W, e.todo) <= Owed(W, d, more)
    <2>1. Owed(W, d, more) \in Nat /\ Owed(W, c, sums) \in Nat
      BY <1>1, <1>2, <1>4, <1>5 DEF Owed
    <2>2. d.off + Weight(W, d.todo) <= Owed(W, d, more)
      BY <1>2, <1>4, <1>5 DEF Owed
    <2>3. ASSUME NEW e \in S PROVE e.off + Weight(W, e.todo) <= Owed(W, d, more)
      <3>1. e.off + Weight(W, e.todo) <= Owed(W, c, sums)
        BY <1>1
      <3>2. e.off + Weight(W, e.todo) \in Nat
        BY <1>1, <1>4
      <3> QED
        BY <1>2, <2>1, <3>1, <3>2
    <2> QED
      BY <2>2, <2>3
  <1>7. /\ T \subseteq Configs(R) /\ start \in T /\ d \in T
        /\ \A e \in T : e = d \/ (GoesOn(x, e) /\ Successor(x, e) \in T)
    BY <1>1, <1>2, <1>3
  <1> HIDE DEF T
  <1>8. Trace(R, W, x, start, d, T, more)
    BY <1>2, <1>6, <1>7 DEF Trace
  <1> QED
    BY <1>8 DEF T, d

-----------------------------------------------------------------------------
(***************************************************************************)
(* The steps.                                                              *)
(***************************************************************************)

LEMMA FirstStepIs ==
  ASSUME FirstProofs!TypeOK, FirstProofs!SafeInv, First!Next, phase = "run",
         FirstProofs!Running => FirstProofs!This.kind # "owned"
  PROVE  /\ in' = in /\ root' = root
         /\ \/ /\ Ended(Now1) /\ Now1' = Now1
               /\ phase' = "done" /\ err' = err
            \/ /\ GoesOn(in, Now1) /\ Now1' = Successor(in, Now1)
               /\ phase' = "run" /\ err' = err
            \/ phase' = "failed" /\ err' # First!NoErr
  <1>1. FirstProofs!Next
    BY FirstNext
  <1>2. FirstProofs!Finishes \/ FirstProofs!Proceeds \/ FirstProofs!FailsShort
    BY <1>1, FirstAssumptions, FirstProofs!SafeStepIs
  <1>3. CASE FirstProofs!Finishes
    BY <1>3 DEF FirstProofs!Finishes, Ended, Now1
  <1>4. CASE FirstProofs!Proceeds
    <2>1. GoesOn(in, Now1)
      BY <1>4, Now1Is DEF FirstProofs!Proceeds, GoesOn, Ended, Fits, Now1
    <2> QED
      BY <1>4, <2>1 DEF FirstProofs!Proceeds, Successor, Now1
  <1>5. CASE FirstProofs!FailsShort
    BY <1>5, SameErrors DEF FirstProofs!FailsShort
  <1> QED
    BY <1>2, <1>3, <1>4, <1>5

LEMMA SecondStepIs ==
  ASSUME SecondProofs!TypeOK, SecondProofs!SafeInv, SecondSafe!Next, phase2 = "run",
         SecondProofs!Running => SecondProofs!This.kind # "owned"
  PROVE  \/ /\ Ended(Now2) /\ Now2' = Now2
            /\ phase2' = "done" /\ err2' = err2
         \/ /\ GoesOn(cut, Now2) /\ Now2' = Successor(cut, Now2)
            /\ phase2' = "run" /\ err2' = err2
         \/ /\ todo2 # <<>> /\ ~Fits(cut, Now2)
            /\ phase2' = "failed" /\ err2' # First!NoErr
            /\ \/ err2' = First!ErrShortBuffer
               \/ ShapeAt(Now2).kind = "union" /\ PrefixAt(cut, Now2).c > 0
  <1>1. SecondProofs!Next
    BY SecondNext
  <1>2. SecondProofs!Finishes \/ SecondProofs!Proceeds \/ SecondProofs!FailsShort
    BY <1>1, SecondAssumptions, SecondProofs!SafeStepIs
  <1>3. CASE SecondProofs!Finishes
    <2>1. Ended(Now2)
      BY <1>3, SameNotions DEF SecondProofs!Finishes, Now2
    <2> QED
      BY <1>3, <2>1 DEF SecondProofs!Finishes, Now2
  <1>4. CASE SecondProofs!Proceeds
    <2>1. ~Ended(Now2) /\ (todo2 # <<>> => Fits(cut, Now2))
      BY <1>4, SameNotions DEF SecondProofs!Proceeds, Now2
    <2>2. GoesOn(cut, Now2)
      BY <2>1, Now2Is DEF GoesOn
    <2>3. Now2' = Successor(cut, Now2)
      BY <1>4, SameNotions DEF SecondProofs!Proceeds, Now2
    <2> QED
      BY <1>4, <2>2, <2>3 DEF SecondProofs!Proceeds
  <1>5. CASE SecondProofs!FailsShort
    <2>1. todo2 # <<>> /\ ~Fits(cut, Now2)
      BY <1>5, SameNotions DEF SecondProofs!FailsShort, Now2
    <2>2. err2' = First!ErrShortBuffer
          \/ (ShapeAt(Now2).kind = "union" /\ PrefixAt(cut, Now2).c > 0)
      BY <1>5, SameErrors, Now2Is DEF SecondProofs!FailsShort
    <2> QED
      BY <1>5, <2>1, <2>2, SameErrors DEF SecondProofs!FailsShort
  <1> QED
    BY <1>2, <1>3, <1>4, <1>5

LEMMA FirstKeeps ==
  ASSUME FirstProofs!TypeOK, FirstProofs!SafeInv, First!Next \/ UNCHANGED first
  PROVE  FirstProofs!TypeOK' /\ FirstProofs!SafeInv'
  <1>1. [FirstProofs!Next]_FirstProofs!vars
    BY FirstNext DEF first, FirstProofs!vars
  <1> QED
    BY <1>1, FirstAssumptions, FirstProofs!NextType, FirstProofs!NextSafe

LEMMA SecondKeeps ==
  ASSUME SecondProofs!TypeOK, SecondProofs!SafeInv,
         SecondSafe!Next \/ (UNCHANGED second /\ root' = root)
  PROVE  SecondProofs!TypeOK' /\ SecondProofs!SafeInv'
  <1>1. [SecondProofs!Next]_SecondProofs!vars
    BY SecondNext DEF second, SecondProofs!vars
  <1> QED
    BY <1>1, SecondAssumptions, SecondProofs!NextType, SecondProofs!NextSafe

\* The buffer, the prefix and the user's type stay.
LEMMA FirstLeaves ==
  ASSUME First!Next, UNCHANGED second
  PROVE  /\ in' = in /\ root' = root /\ cut' = cut /\ fast' = fast
         /\ Start' = Start /\ Now2' = Now2 /\ phase2' = phase2 /\ err2' = err2
  <1>1. FirstProofs!Next
    BY FirstNext
  <1>2. in' = in /\ root' = root
    BY <1>1, FirstAssumptions, FirstProofs!BufferStays, FirstProofs!RootStays
  <1> QED
    BY <1>2 DEF second, Start, Now2, SecondProofs!Now

LEMMA SecondLeaves ==
  ASSUME SecondSafe!Next, UNCHANGED <<first, fast>>
  PROVE  /\ in' = in /\ root' = root /\ cut' = cut /\ fast' = fast
         /\ Start' = Start /\ Now1' = Now1 /\ phase' = phase /\ err' = err
         /\ UNCHANGED first
  <1>1. SecondProofs!Next
    BY SecondNext
  <1>2. cut' = cut
    BY <1>1, SecondAssumptions, SecondProofs!BufferStays
  <1> QED
    BY <1>2 DEF first, Start, Now1, FirstProofs!Now

LEMMA FirstSteps ==
  ASSUME First!Next, UNCHANGED second, NEW R \in SUBSET Type, Generated(R),
         NEW W, TakesByte(W), PairInv(R, W)
  PROVE  PairInv(R, W)'
  <1>1. /\ in' = in /\ root' = root /\ cut' = cut /\ fast' = fast
        /\ Start' = Start /\ Now2' = Now2 /\ phase2' = phase2 /\ err2' = err2
    BY FirstLeaves
  <1>2. /\ FirstProofs!TypeOK /\ FirstProofs!SafeInv
        /\ phase = "failed" => err # First!NoErr
    BY DEF PairInv, FirstOK
  <1>3. FirstProofs!TypeOK' /\ FirstProofs!SafeInv'
    BY <1>2, FirstKeeps
  <1>4. phase \in { "run", "failed" }
        /\ (phase = "failed" => phase' \in { "failed", "done" } /\ err' = err)
    <2>1. CASE phase = "run"
      BY <2>1
    <2>2. CASE phase # "run"
      <3>1. FirstProofs!Next
        BY FirstNext
      <3> QED
        BY <2>2, <3>1, FirstAssumptions, FirstProofs!FailedStep
    <2> QED
      BY <2>1, <2>2
  <1>5. ~fast' => SecondOK' /\ Now2' = Start' /\ phase2' = "run"
    <2> SUFFICES ASSUME ~fast' PROVE SecondOK' /\ Now2' = Start' /\ phase2' = "run"
      OBVIOUS
    <2>1. SecondOK
      BY <1>1 DEF PairInv
    <2>2. ~Over(phase)
      BY <1>4 DEF Over
    <2>3. Now2 = Start /\ phase2 = "run" /\ Prefix(cut, in)
      BY <2>1, <2>2 DEF SecondOK
    <2>4. SecondProofs!TypeOK' /\ SecondProofs!SafeInv'
      BY <1>1, <2>1, SecondKeeps DEF SecondOK
    <2>5. Prefix(cut, in)'
      BY <1>1, <2>3 DEF Prefix, Buffer
    <2> QED
      BY <1>1, <2>3, <2>4, <2>5 DEF SecondOK
  <1>6. (Accepted /\ ~fast => Follows(R, W))'
    BY <1>5, <1>1 DEF Follows
  <1>7. CASE phase = "failed"
    <2>1. ~Accepted' /\ phase' # "run" /\ err' # First!NoErr
      BY <1>2, <1>4, <1>7, SameErrors DEF Accepted, First!NoErr
    <2>2. FirstOK'
      BY <1>3, <2>1 DEF FirstOK, First!NoErr
    <2> QED
      BY <1>5, <1>6, <2>1, <2>2 DEF PairInv
  <1>8. CASE phase = "run"
    <2>1. PICK S, sums : Trace(R, W, in, Start, Now1, S, sums)
      BY <1>8 DEF PairInv
    <2>2. Now1 \in Configs(R) /\ Start \in S
      BY <2>1 DEF Trace
    <2>3. FirstProofs!Running => FirstProofs!This.kind # "owned"
      BY <2>2, FirstGenerated
    <2>4. CASE Ended(Now1) /\ Now1' = Now1 /\ phase' = "done" /\ err' = err
      <3>1. FirstOK'
        BY <1>3, <2>4 DEF FirstOK, Accepted
      <3>2. \E T, more : /\ Trace(R, W, in', Start', Now1', T, more)
                         /\ ~fast' => Now2' \in T
        BY <1>1, <1>5, <2>1, <2>2, <2>4
      <3> QED
        BY <1>5, <1>6, <3>1, <3>2 DEF PairInv
    <2>5. CASE GoesOn(in, Now1) /\ Now1' = Successor(in, Now1) /\ phase' = "run"
      <3>1. FirstOK'
        BY <1>3, <2>5 DEF FirstOK, Accepted
      <3>2. Buffer(in) /\ Now1.off <= in.len
        <4>1. in \in Input /\ off <= in.len
          BY <1>2 DEF FirstProofs!TypeOK, FirstProofs!SafeInv, FirstProofs!SafeInBounds
        <4> QED
          BY <4>1, InputIsBuffer, Now1Is
      <3> DEFINE d == Successor(in, Now1)
      <3>3. PICK more : Trace(R, W, in, Start, d, S \cup { d }, more)
        BY <2>1, <2>5, <3>2, TraceGrows
      <3>4. \E T, some : /\ Trace(R, W, in', Start', Now1', T, some)
                         /\ ~fast' => Now2' \in T
        <4>1. Now1' = d
          BY <2>5
        <4>2. Trace(R, W, in', Start', Now1', S \cup { d }, more)
          BY <1>1, <3>3, <4>1
        <4>3. ~fast' => Now2' \in S \cup { d }
          BY <1>1, <1>5, <2>2
        <4> QED
          BY <4>2, <4>3
      <3> QED
        BY <1>5, <1>6, <3>1, <3>4 DEF PairInv
    <2>6. CASE phase' = "failed" /\ err' # First!NoErr
      <3>1. ~Accepted' /\ phase' # "run"
        BY <2>6 DEF Accepted
      <3>2. FirstOK'
        BY <1>3, <2>6, <3>1 DEF FirstOK, First!NoErr
      <3> QED
        BY <1>5, <1>6, <3>1, <3>2 DEF PairInv
    <2> QED
      BY <1>2, <1>8, <2>3, <2>4, <2>5, <2>6, FirstStepIs
  <1> QED
    BY <1>4, <1>7, <1>8

\* The second decode is refused where the first went on, only for want of bytes.
LEMMA RefusedIsShort ==
  ASSUME NEW R \in SUBSET Type, Generated(R), NEW W, Prefix(cut, in), Accepted,
         Ended(Now1), NEW S, NEW sums, Trace(R, W, in, Start, Now1, S, sums),
         Now2 \in S, off2 <= cut.len, todo2 # <<>>, ~Fits(cut, Now2)
  PROVE  /\ ~(ShapeAt(Now2).kind = "union" /\ PrefixAt(cut, Now2).c > 0)
         /\ ElementsTakeBytes(R, W) => cut.len < off
  <1>1. /\ Now2 \in Configs(R) /\ Now2.todo = todo2 /\ Now2.off = off2
        /\ Now2.off <= cut.len
    BY Now2Is DEF Trace
  <1>2. Fits(in, Now2) /\ Successor(in, Now2) \in S
    <2>1. ~Ended(Now2)
      BY <1>1 DEF Ended, FirstProofs!Ended
    <2>2. Now2 = Now1 \/ (GoesOn(in, Now2) /\ Successor(in, Now2) \in S)
      BY DEF Trace
    <2> QED
      BY <1>1, <2>1, <2>2 DEF GoesOn
  <1>3. ~(ShapeAt(Now2).kind = "union" /\ PrefixAt(cut, Now2).c > 0)
    BY <1>1, <1>2, KnownTag
  <1>4. ASSUME ElementsTakeBytes(R, W) PROVE cut.len < off
    <2> DEFINE d == Successor(in, Now2)
    <2>1. /\ Now1 \in Configs(R) /\ d \in Configs(R)
          /\ d.off + Weight(W, d.todo) <= Owed(W, Now1, sums)
          /\ Sums(W, Now1.callers, sums)
      BY <1>2 DEF Trace
    <2>2. Now1.todo = <<>> /\ Now1.callers = <<>> /\ Now1.off = off
      BY Now1Is DEF Ended, FirstProofs!Ended
    <2>3. sums[1] = 0
      BY <2>1, <2>2 DEF Sums
    <2>4. off \in Nat
      BY <2>1, <2>2 DEF Configs
    <2>5. Owed(W, Now1, sums) = off
      BY <2>2, <2>3, <2>4, WeightEmpty DEF Owed
    <2>6. d.off + Weight(W, d.todo) <= off
      BY <2>1, <2>5
    <2>7. d.off + Weight(W, d.todo) \in Nat
      <3>1. d.off \in Nat /\ d.todo \in Seq(R)
        BY <2>1 DEF Configs
      <3> HIDE DEF d
      <3>2. Weight(W, d.todo) \in Nat
        BY <3>1, WeightType, LenProperties
      <3> QED
        BY <3>1, <3>2
    <2>8. cut.len \in Nat
      BY DEF Prefix, Buffer
    <2>9. ~(d.off + Weight(W, d.todo) <= cut.len)
      BY <1>1, <1>2, <1>4, EnoughFits
    <2> HIDE DEF d
    <2> QED
      BY <2>4, <2>6, <2>7, <2>8, <2>9
  <1> QED
    BY <1>3, <1>4

LEMMA SecondSteps ==
  ASSUME ~fast, Over(phase), SecondSafe!Next, UNCHANGED <<first, fast>>,
         NEW R \in SUBSET Type, Generated(R), NEW W, PairInv(R, W)
  PROVE  PairInv(R, W)'
  <1>1. /\ in' = in /\ root' = root /\ cut' = cut /\ fast' = fast
        /\ Start' = Start /\ Now1' = Now1 /\ phase' = phase /\ err' = err
        /\ UNCHANGED first
    BY SecondLeaves
  <1>2. FirstOK'
    <2>1. FirstProofs!TypeOK' /\ FirstProofs!SafeInv'
      BY <1>1, FirstKeeps DEF PairInv, FirstOK
    <2> QED
      BY <1>1, <2>1 DEF PairInv, FirstOK, Accepted, First!NoErr
  <1>3. /\ SecondProofs!TypeOK /\ SecondProofs!SafeInv /\ Prefix(cut, in)
    BY DEF PairInv, SecondOK
  <1>4. SecondOK'
    <2>1. SecondProofs!TypeOK' /\ SecondProofs!SafeInv'
      BY <1>3, SecondKeeps
    <2>2. Prefix(cut, in)' /\ Over(phase)'
      BY <1>1, <1>3 DEF Prefix, Buffer, Over
    <2> QED
      BY <2>1, <2>2 DEF SecondOK
  <1>5. Accepted' <=> Accepted
    BY <1>1 DEF Accepted, First!NoErr
  <1>6. phase # "run" /\ phase' # "run"
    BY <1>1 DEF Over
  <1>7. CASE ~Accepted
    BY <1>2, <1>4, <1>5, <1>6, <1>7 DEF PairInv
  <1>8. CASE Accepted
    <2>1. PICK S, sums : /\ Trace(R, W, in, Start, Now1, S, sums)
                         /\ Retraces => Now2 \in S
      BY <1>8 DEF PairInv
    <2>2. Ended(Now1) /\ Follows(R, W)
      BY <1>8 DEF PairInv, FirstOK
    <2>3. off' = off
      BY DEF first
    <2>4. SUFFICES (Retraces => Now2 \in S)' /\ Follows(R, W)'
      <3>1. Trace(R, W, in, Start, Now1, S, sums)'
        BY <1>1, <2>1
      <3>2. \E T, more : /\ Trace(R, W, in', Start', Now1', T, more)
                         /\ Retraces' => Now2' \in T
        BY <2>4, <1>1, <2>1
      <3> QED
        BY <1>2, <1>4, <2>4, <3>2 DEF PairInv
    <2>5. CASE phase2 # "run"
      <3>1. SecondProofs!Next
        BY SecondNext
      <3>2. /\ phase2 = "failed" /\ phase2' \in { "failed", "done" } /\ err2' = err2
        BY <2>5, <3>1, SecondAssumptions, SecondProofs!FailedStep
      <3>3. /\ err2' = First!ErrShortBuffer /\ err2' # First!NoErr
            /\ ElementsTakeBytes(R, W) => cut.len < off
        BY <2>2, <3>2, SameErrors DEF Follows
      <3>4. ~Retraces'
        BY <3>2, <3>3 DEF Retraces, First!NoErr
      <3>5. Follows(R, W)'
        BY <1>1, <2>3, <3>2, <3>3 DEF Follows, First!NoErr, First!ErrShortBuffer
      <3> QED
        BY <3>4, <3>5
    <2>6. CASE phase2 = "run"
      <3>1. Now2 \in S /\ Now2 \in Configs(R)
        BY <2>1, <2>6 DEF Retraces, Trace
      <3>2. SecondProofs!Running => SecondProofs!This.kind # "owned"
        BY <3>1, SecondGenerated
      <3>3. off2 <= cut.len /\ Now2.off <= cut.len /\ err2 = First!NoErr
        BY <1>3, <2>6, Now2Is, SameErrors
           DEF SecondProofs!SafeInv, SecondProofs!SafeInBounds
      <3>4. CASE Ended(Now2) /\ Now2' = Now2 /\ phase2' = "done" /\ err2' = err2
        <4>1. Ended(Now2)'
          BY <3>4
        <4>2. Follows(R, W)'
          BY <3>3, <3>4, <4>1 DEF Follows, First!NoErr
        <4> QED
          BY <3>1, <3>4, <4>2
      <3>5. CASE GoesOn(cut, Now2) /\ Now2' = Successor(cut, Now2) /\ phase2' = "run"
        <4>1. ~Ended(Now2)
          BY <3>5 DEF GoesOn
        <4>2. Now2 # Now1
          BY <2>2, <4>1
        <4>3. GoesOn(in, Now2) /\ Successor(in, Now2) \in S
          BY <2>1, <3>1, <4>2 DEF Trace
        <4>4. Successor(cut, Now2) = Successor(in, Now2)
          BY <1>3, <3>1, <3>3, <3>5, <4>3, SameSuccessor
        <4>5. Now2' \in S
          BY <3>5, <4>3, <4>4
        <4>6. Follows(R, W)'
          BY <3>5 DEF Follows
        <4> QED
          BY <4>5, <4>6
      <3>6. CASE /\ todo2 # <<>> /\ ~Fits(cut, Now2)
                 /\ phase2' = "failed" /\ err2' # First!NoErr
                 /\ \/ err2' = First!ErrShortBuffer
                    \/ ShapeAt(Now2).kind = "union" /\ PrefixAt(cut, Now2).c > 0
        <4>1. /\ ~(ShapeAt(Now2).kind = "union" /\ PrefixAt(cut, Now2).c > 0)
              /\ ElementsTakeBytes(R, W) => cut.len < off
          BY <1>3, <1>8, <2>1, <2>2, <3>1, <3>3, <3>6, RefusedIsShort
        <4>2. err2' = First!ErrShortBuffer
          BY <3>6, <4>1
        <4>3. Follows(R, W)'
          BY <1>1, <2>3, <3>6, <4>1, <4>2 DEF Follows, First!ErrShortBuffer
        <4>4. ~Retraces'
          BY <3>6 DEF Retraces
        <4> QED
          BY <4>3, <4>4
      <3> QED
        BY <1>3, <2>6, <3>2, <3>4, <3>5, <3>6, SecondStepIs
    <2> QED
      BY <2>5, <2>6
  <1> QED
    BY <1>7, <1>8

LEMMA NextPair ==
  ASSUME NEW R \in SUBSET Type, Generated(R), NEW W, TakesByte(W),
         PairInv(R, W), [Next]_vars
  PROVE  PairInv(R, W)'
  <1>1. CASE First!Next /\ UNCHANGED second
    BY <1>1, FirstSteps
  <1>2. CASE Over(phase) /\ ~fast /\ SecondSafe!Next /\ UNCHANGED <<first, fast>>
    BY <1>2, SecondSteps
  <1>3. CASE Over(phase) /\ fast /\ SecondFast!Next /\ UNCHANGED <<first, fast>>
    <2>1. /\ in' = in /\ Start' = Start /\ Now1' = Now1 /\ phase' = phase /\ err' = err
          /\ fast /\ fast' = fast /\ UNCHANGED first
      BY <1>3 DEF first, Start, Now1, FirstProofs!Now
    <2>2. FirstProofs!TypeOK' /\ FirstProofs!SafeInv'
      BY <2>1, FirstKeeps DEF PairInv, FirstOK
    <2>3. FirstOK' /\ (Accepted' <=> Accepted)
      BY <2>1, <2>2 DEF PairInv, FirstOK, Accepted, First!NoErr
    <2>4. phase' = "run" \/ Accepted' =>
            \E S, sums : Trace(R, W, in', Start', Now1', S, sums)
      BY <2>1, <2>3 DEF PairInv
    <2> QED
      BY <2>1, <2>3, <2>4 DEF PairInv
  <1>4. CASE UNCHANGED vars
    <2>1. /\ in' = in /\ root' = root /\ cut' = cut /\ fast' = fast /\ off' = off
          /\ phase' = phase /\ err' = err /\ phase2' = phase2 /\ err2' = err2
          /\ Start' = Start /\ Now1' = Now1 /\ Now2' = Now2
          /\ UNCHANGED first /\ UNCHANGED second
      BY <1>4 DEF vars, first, second, Start, Now1, FirstProofs!Now, Now2,
                  SecondProofs!Now
    <2>2. FirstProofs!TypeOK' /\ FirstProofs!SafeInv'
      BY <2>1, FirstKeeps DEF PairInv, FirstOK
    <2>3. FirstOK' /\ (Accepted' <=> Accepted)
      BY <2>1, <2>2 DEF PairInv, FirstOK, Accepted, First!NoErr
    <2>4. ~fast => SecondOK'
      <3> SUFFICES ASSUME ~fast PROVE SecondOK'
        OBVIOUS
      <3>1. SecondProofs!TypeOK' /\ SecondProofs!SafeInv'
        BY <2>1, SecondKeeps DEF PairInv, SecondOK
      <3> QED
        BY <2>1, <3>1 DEF PairInv, SecondOK, Prefix, Buffer, Over
    <2>5. (Retraces' <=> Retraces) /\ (Follows(R, W)' <=> Follows(R, W))
      BY <2>1 DEF Retraces, Follows, First!NoErr, First!ErrShortBuffer
    <2>6. phase' = "run" \/ Accepted' =>
            \E S, sums : /\ Trace(R, W, in', Start', Now1', S, sums)
                         /\ ~fast' /\ Retraces' => Now2' \in S
      BY <2>1, <2>3, <2>5 DEF PairInv
    <2> QED
      BY <2>1, <2>3, <2>4, <2>5, <2>6 DEF PairInv
  <1> QED
    BY <1>1, <1>2, <1>3, <1>4 DEF Next

-----------------------------------------------------------------------------
(***************************************************************************)
(* The properties of the runs.                                             *)
(***************************************************************************)

LEMMA PairInvariant ==
  ASSUME NEW R \in SUBSET Type, Generated(R), NEW W, TakesByte(W)
  PROVE  Spec => []PairInv(R, W)
  <1>1. Init => PairInv(R, W)
    BY InitPair
  <1>2. PairInv(R, W) /\ [Next]_vars => PairInv(R, W)'
    BY NextPair
  <1> QED
    BY <1>1, <1>2, PTL DEF Spec

\* The second decode panics nowhere, and where it accepts it is where the first
\* one was when it did.
LEMMA AcceptedAlike ==
  ASSUME NEW R \in SUBSET Type, NEW W, PairInv(R, W), Accepted, ~fast
  PROVE  /\ phase2 # "panic"
         /\ off2 <= cut.len
         /\ phase2 = "done" /\ err2 = First!NoErr => off2 = off
         /\ phase2 = "done" /\ err2 # First!NoErr =>
              /\ err2 = First!ErrShortBuffer
              /\ ElementsTakeBytes(R, W) => cut.len < off
  <1>1. phase2 # "panic" /\ off2 <= cut.len
    BY DEF PairInv, SecondOK, SecondProofs!SafeInv, SecondProofs!SafeInBounds
  <1>2. Ended(Now1) /\ Follows(R, W)
    BY DEF PairInv, FirstOK
  <1>3. ASSUME phase2 = "done", err2 = First!NoErr PROVE off2 = off
    <2>1. PICK S, sums : Trace(R, W, in, Start, Now1, S, sums) /\ Now2 \in S
      BY <1>3 DEF PairInv, Retraces
    <2>2. Ended(Now2)
      BY <1>2, <1>3 DEF Follows
    <2>3. Now2 = Now1 \/ GoesOn(in, Now2)
      BY <2>1 DEF Trace
    <2>4. Now2 = Now1
      BY <2>2, <2>3 DEF GoesOn
    <2> QED
      BY <2>4, Now1Is, Now2Is
  <1> QED
    BY <1>1, <1>2, <1>3 DEF Follows

\* Safe mode answers every encoding that is cut short with ErrShortBuffer,
\* whatever the types of the package and wherever the cut is: no value takes
\* another meaning when its tail is missing.
THEOREM TruncatedNotAccepted ==
  (\E R \in SUBSET Type : Generated(R)) => (Spec => []TruncatedIsShort)
  <1> SUFFICES ASSUME NEW R \in SUBSET Type, Generated(R)
               PROVE  Spec => []TruncatedIsShort
    OBVIOUS
  <1>1. PICK W : TakesByte(W)
    <2>1. TakesByte({})
      BY DEF TakesByte
    <2> QED
      BY <2>1
  <1>2. Spec => []PairInv(R, W)
    BY <1>1, PairInvariant
  <1>3. PairInv(R, W) => TruncatedIsShort
    <2> SUFFICES ASSUME PairInv(R, W), Accepted, ~fast, cut.len < off
                 PROVE  /\ phase2 # "panic"
                        /\ phase2 = "done" => err2 = First!ErrShortBuffer
      BY DEF TruncatedIsShort
    <2>1. cut.len \in Nat /\ off \in Int
      BY DEF PairInv, FirstOK, SecondOK, Prefix, Buffer, FirstProofs!TypeOK
    <2>2. phase2 = "done" => err2 # First!NoErr
      BY <2>1, AcceptedAlike
    <2> QED
      BY <2>2, AcceptedAlike
  <1> QED
    BY <1>2, <1>3, PTL

\* What follows an encoding does not change what safe mode makes of it: every
\* buffer with the bytes the first decode consumed decodes, to the same count,
\* where elements of slices and keys of maps take a byte at least.
THEOREM PrefixesDecodeAlike ==
  (\E R, W \in SUBSET Type : Generated(R) /\ ElementsTakeBytes(R, W))
    => (Spec => []PrefixStable)
  <1> SUFFICES ASSUME NEW R \in SUBSET Type, NEW W \in SUBSET Type,
                      Generated(R), ElementsTakeBytes(R, W)
               PROVE  Spec => []PrefixStable
    OBVIOUS
  <1>1. TakesByte(W)
    BY DEF ElementsTakeBytes
  <1>2. Spec => []PairInv(R, W)
    BY <1>1, PairInvariant
  <1>3. PairInv(R, W) => PrefixStable
    <2> SUFFICES ASSUME PairInv(R, W), Accepted, ~fast, cut.len >= off
                 PROVE  /\ phase2 # "panic"
                        /\ phase2 = "done" => err2 = First!NoErr /\ off2 = off
      BY DEF PrefixStable
    <2>1. cut.len \in Nat /\ off \in Int
      BY DEF PairInv, FirstOK, SecondOK, Prefix, Buffer, FirstProofs!TypeOK
    <2>2. phase2 = "done" => err2 = First!NoErr
      BY <2>1, AcceptedAlike
    <2> QED
      BY <2>2, AcceptedAlike
  <1> QED
    BY <1>2, <1>3, PTL
=============================================================================
