-------------------------- MODULE EncodeDecodeProofs --------------------------
(***************************************************************************)
(* The byte counts of Size, Marshal and Append agree in EncodeDecode, and  *)
(* so do the bytes of Marshal and Append, in both modes: what              *)
(* EncoderProofs says of each, in the composition.  Then one step: what    *)
(* Unmarshal reads where Marshal or Append wrote a part of the value.      *)
(***************************************************************************)
EXTENDS EncodeDecode, SequenceTheorems, TLAPS

SafeProofs == INSTANCE EncoderProofs WITH Safe <- TRUE
FastProofs == INSTANCE EncoderProofs WITH Safe <- FALSE

-----------------------------------------------------------------------------
\* The definitions of Encoder are the same in both instances.
LEMMA SafeNext == Enc!Next <=> SafeProofs!Next
  <1>1. /\ Enc!This = SafeProofs!This
        /\ Enc!Val = SafeProofs!Val
    BY DEF Enc!This, SafeProofs!This, Enc!Val, SafeProofs!Val
  <1>2. /\ Enc!Elem = SafeProofs!Elem
        /\ Enc!Bulk <=> SafeProofs!Bulk
        /\ Enc!Tag = SafeProofs!Tag
        /\ Enc!Declared <=> SafeProofs!Declared
    BY <1>1
       DEF Enc!Elem, SafeProofs!Elem, Enc!Bulk, SafeProofs!Bulk, Enc!Tag,
           SafeProofs!Tag, Enc!Declared, SafeProofs!Declared
  <1>3. /\ Enc!Elements = SafeProofs!Elements
        /\ Enc!Fields = SafeProofs!Fields
        /\ Enc!Member = SafeProofs!Member
    BY <1>1, <1>2
       DEF Enc!Elements, SafeProofs!Elements, Enc!Fields, SafeProofs!Fields,
           Enc!Member, SafeProofs!Member, Enc!Item, SafeProofs!Item
  <1>4. /\ Enc!ElemSize = SafeProofs!ElemSize
        /\ Enc!FixedElem <=> SafeProofs!FixedElem
    BY <1>1
       DEF Enc!ElemSize, SafeProofs!ElemSize, Enc!FixedElem, SafeProofs!FixedElem,
           Enc!FixedSize, SafeProofs!FixedSize
  <1>5. Enc!Orders = SafeProofs!Orders
    BY <1>1
       DEF Enc!Orders, SafeProofs!Orders, Enc!SetToSeqs, SafeProofs!SetToSeqs,
           Enc!Cardinality, SafeProofs!Cardinality, Enc!IsFiniteSet,
           SafeProofs!IsFiniteSet
  <1>6. \A s : Enc!Entries(s) = SafeProofs!Entries(s)
    BY <1>1 DEF Enc!Entries, SafeProofs!Entries, Enc!Item, SafeProofs!Item
  <1>7. Enc!Memory = SafeProofs!Memory
    BY <1>1, <1>2
       DEF Enc!Memory, SafeProofs!Memory, Enc!StructMemory, SafeProofs!StructMemory,
           Enc!Flat, SafeProofs!Flat, Enc!Dimensions, SafeProofs!Dimensions,
           Enc!FlattenSeq, SafeProofs!FlattenSeq
  <1> USE <1>1, <1>2, <1>3
  <1>8. /\ Enc!SizeSlice <=> SafeProofs!SizeSlice
        /\ Enc!SizeArray <=> SafeProofs!SizeArray
        /\ Enc!SizeMap <=> SafeProofs!SizeMap
        /\ Enc!SizeUnion <=> SafeProofs!SizeUnion
        /\ Enc!SizeOther <=> SafeProofs!SizeOther
    <2>1. Enc!SizeSlice <=> SafeProofs!SizeSlice
      BY <1>4
         DEF Enc!SizeSlice, SafeProofs!SizeSlice, Enc!Visit, SafeProofs!Visit, Enc!Add,
             SafeProofs!Add
    <2>2. Enc!SizeArray <=> SafeProofs!SizeArray
      BY <1>4
         DEF Enc!SizeArray, SafeProofs!SizeArray, Enc!Visit, SafeProofs!Visit, Enc!Add,
             SafeProofs!Add
    <2>3. Enc!SizeMap <=> SafeProofs!SizeMap
      BY <1>5, <1>6
         DEF Enc!SizeMap, SafeProofs!SizeMap, Enc!Visit, SafeProofs!Visit, Enc!Add,
             SafeProofs!Add, Enc!Cardinality, SafeProofs!Cardinality, Enc!IsFiniteSet,
             SafeProofs!IsFiniteSet
    <2>4. Enc!SizeUnion <=> SafeProofs!SizeUnion
      BY DEF Enc!SizeUnion, SafeProofs!SizeUnion, Enc!Visit, SafeProofs!Visit, Enc!Add,
             SafeProofs!Add
    <2>5. Enc!SizeOther <=> SafeProofs!SizeOther
      BY DEF Enc!SizeOther, SafeProofs!SizeOther, Enc!Visit, SafeProofs!Visit, Enc!Add,
             SafeProofs!Add
    <2> QED
      BY <2>1, <2>2, <2>3, <2>4, <2>5
  <1>9. /\ Enc!MarshalSlice <=> SafeProofs!MarshalSlice
        /\ Enc!MarshalArray <=> SafeProofs!MarshalArray
        /\ Enc!MarshalMap <=> SafeProofs!MarshalMap
        /\ Enc!MarshalUnion <=> SafeProofs!MarshalUnion
        /\ Enc!MarshalStruct <=> SafeProofs!MarshalStruct
        /\ Enc!MarshalOther <=> SafeProofs!MarshalOther
    <2>1. Enc!MarshalSlice <=> SafeProofs!MarshalSlice
      BY <1>7
         DEF Enc!MarshalSlice, SafeProofs!MarshalSlice, Enc!Visit, SafeProofs!Visit,
             Enc!Write, SafeProofs!Write, Enc!Room, SafeProofs!Room, Enc!Over,
             SafeProofs!Over
    <2>2. Enc!MarshalArray <=> SafeProofs!MarshalArray
      BY <1>7
         DEF Enc!MarshalArray, SafeProofs!MarshalArray, Enc!Visit, SafeProofs!Visit,
             Enc!Write, SafeProofs!Write, Enc!Room, SafeProofs!Room, Enc!Over,
             SafeProofs!Over, Enc!Descend, SafeProofs!Descend
    <2>3. Enc!MarshalMap <=> SafeProofs!MarshalMap
      <3>1. \A bytes, copied, more :
              Enc!Write(bytes, copied, more) <=> SafeProofs!Write(bytes, copied, more)
        BY DEF Enc!Write, SafeProofs!Write, Enc!Room, SafeProofs!Room, Enc!Over,
               SafeProofs!Over
      <3>2. Enc!Cardinality(Enc!Val) = SafeProofs!Cardinality(SafeProofs!Val)
        BY DEF Enc!Cardinality, SafeProofs!Cardinality, Enc!IsFiniteSet,
               SafeProofs!IsFiniteSet
      <3> QED
        BY <3>1, <3>2, <1>5, <1>6
           DEF Enc!MarshalMap, SafeProofs!MarshalMap, Enc!Visit, SafeProofs!Visit
    <2>4. Enc!MarshalUnion <=> SafeProofs!MarshalUnion
      BY DEF Enc!MarshalUnion, SafeProofs!MarshalUnion, Enc!Visit, SafeProofs!Visit,
             Enc!Write, SafeProofs!Write, Enc!Room, SafeProofs!Room, Enc!Over,
             SafeProofs!Over
    <2>5. Enc!MarshalStruct <=> SafeProofs!MarshalStruct
      <3>1. /\ Enc!Room = SafeProofs!Room
            /\ \A b : Enc!Fits(b) = SafeProofs!Fits(b)
            /\ \A b, o, bytes : Enc!Over(b, o, bytes) = SafeProofs!Over(b, o, bytes)
        BY DEF Enc!Room, SafeProofs!Room, Enc!Fits, SafeProofs!Fits, Enc!Over,
               SafeProofs!Over
      <3> QED
        BY <3>1, <1>7
           DEF Enc!MarshalStruct, SafeProofs!MarshalStruct, Enc!Visit,
               SafeProofs!Visit, Enc!Descend, SafeProofs!Descend
    <2>6. Enc!MarshalOther <=> SafeProofs!MarshalOther
      BY DEF Enc!MarshalOther, SafeProofs!MarshalOther, Enc!Visit, SafeProofs!Visit,
             Enc!Write, SafeProofs!Write, Enc!Room, SafeProofs!Room, Enc!Over,
             SafeProofs!Over
    <2> QED
      BY <2>1, <2>2, <2>3, <2>4, <2>5, <2>6
  <1>10. /\ Enc!AppendSlice <=> SafeProofs!AppendSlice
         /\ Enc!AppendArray <=> SafeProofs!AppendArray
         /\ Enc!AppendMap <=> SafeProofs!AppendMap
         /\ Enc!AppendUnion <=> SafeProofs!AppendUnion
         /\ Enc!AppendOther <=> SafeProofs!AppendOther
    <2>1. Enc!AppendSlice <=> SafeProofs!AppendSlice
      BY <1>7
         DEF Enc!AppendSlice, SafeProofs!AppendSlice, Enc!Visit, SafeProofs!Visit,
             Enc!Push, SafeProofs!Push
    <2>2. Enc!AppendArray <=> SafeProofs!AppendArray
      BY <1>7
         DEF Enc!AppendArray, SafeProofs!AppendArray, Enc!Visit, SafeProofs!Visit,
             Enc!Push, SafeProofs!Push
    <2>3. Enc!AppendMap <=> SafeProofs!AppendMap
      BY <1>5, <1>6
         DEF Enc!AppendMap, SafeProofs!AppendMap, Enc!Visit, SafeProofs!Visit,
             Enc!Push, SafeProofs!Push, Enc!Cardinality, SafeProofs!Cardinality,
             Enc!IsFiniteSet, SafeProofs!IsFiniteSet
    <2>4. Enc!AppendUnion <=> SafeProofs!AppendUnion
      BY DEF Enc!AppendUnion, SafeProofs!AppendUnion, Enc!Visit, SafeProofs!Visit,
             Enc!Push, SafeProofs!Push
    <2>5. Enc!AppendOther <=> SafeProofs!AppendOther
      BY <1>7
         DEF Enc!AppendOther, SafeProofs!AppendOther, Enc!Visit, SafeProofs!Visit,
             Enc!Push, SafeProofs!Push
    <2> QED
      BY <2>1, <2>2, <2>3, <2>4, <2>5
  <1>11. /\ Enc!NotAMember <=> SafeProofs!NotAMember
         /\ Enc!CallMarshal <=> SafeProofs!CallMarshal
         /\ Enc!CallAppend <=> SafeProofs!CallAppend
         /\ Enc!Finish <=> SafeProofs!Finish
    BY DEF Enc!NotAMember, SafeProofs!NotAMember, Enc!CallMarshal,
           SafeProofs!CallMarshal, Enc!CallAppend, SafeProofs!CallAppend, Enc!Finish,
           SafeProofs!Finish, Enc!Item, SafeProofs!Item
  <1> QED
    BY <1>8, <1>9, <1>10, <1>11 DEF Enc!Next, SafeProofs!Next

LEMMA FastNext == EncFast!Next <=> FastProofs!Next
  <1>1. /\ EncFast!This = FastProofs!This
        /\ EncFast!Val = FastProofs!Val
    BY DEF EncFast!This, FastProofs!This, EncFast!Val, FastProofs!Val
  <1>2. /\ EncFast!Elem = FastProofs!Elem
        /\ EncFast!Bulk <=> FastProofs!Bulk
        /\ EncFast!Tag = FastProofs!Tag
        /\ EncFast!Declared <=> FastProofs!Declared
    BY <1>1
       DEF EncFast!Elem, FastProofs!Elem, EncFast!Bulk, FastProofs!Bulk, EncFast!Tag,
           FastProofs!Tag, EncFast!Declared, FastProofs!Declared
  <1>3. /\ EncFast!Elements = FastProofs!Elements
        /\ EncFast!Fields = FastProofs!Fields
        /\ EncFast!Member = FastProofs!Member
    BY <1>1, <1>2
       DEF EncFast!Elements, FastProofs!Elements, EncFast!Fields, FastProofs!Fields,
           EncFast!Member, FastProofs!Member, EncFast!Item, FastProofs!Item
  <1>4. /\ EncFast!ElemSize = FastProofs!ElemSize
        /\ EncFast!FixedElem <=> FastProofs!FixedElem
    BY <1>1
       DEF EncFast!ElemSize, FastProofs!ElemSize, EncFast!FixedElem,
           FastProofs!FixedElem, EncFast!FixedSize, FastProofs!FixedSize
  <1>5. EncFast!Orders = FastProofs!Orders
    BY <1>1
       DEF EncFast!Orders, FastProofs!Orders, EncFast!SetToSeqs, FastProofs!SetToSeqs,
           EncFast!Cardinality, FastProofs!Cardinality, EncFast!IsFiniteSet,
           FastProofs!IsFiniteSet
  <1>6. \A s : EncFast!Entries(s) = FastProofs!Entries(s)
    BY <1>1 DEF EncFast!Entries, FastProofs!Entries, EncFast!Item, FastProofs!Item
  <1>7. EncFast!Memory = FastProofs!Memory
    BY <1>1, <1>2
       DEF EncFast!Memory, FastProofs!Memory, EncFast!StructMemory,
           FastProofs!StructMemory, EncFast!Flat, FastProofs!Flat, EncFast!Dimensions,
           FastProofs!Dimensions, EncFast!FlattenSeq, FastProofs!FlattenSeq
  <1> USE <1>1, <1>2, <1>3
  <1>8. /\ EncFast!SizeSlice <=> FastProofs!SizeSlice
        /\ EncFast!SizeArray <=> FastProofs!SizeArray
        /\ EncFast!SizeMap <=> FastProofs!SizeMap
        /\ EncFast!SizeUnion <=> FastProofs!SizeUnion
        /\ EncFast!SizeOther <=> FastProofs!SizeOther
    <2>1. EncFast!SizeSlice <=> FastProofs!SizeSlice
      BY <1>4
         DEF EncFast!SizeSlice, FastProofs!SizeSlice, EncFast!Visit, FastProofs!Visit,
             EncFast!Add, FastProofs!Add
    <2>2. EncFast!SizeArray <=> FastProofs!SizeArray
      BY <1>4
         DEF EncFast!SizeArray, FastProofs!SizeArray, EncFast!Visit, FastProofs!Visit,
             EncFast!Add, FastProofs!Add
    <2>3. EncFast!SizeMap <=> FastProofs!SizeMap
      BY <1>5, <1>6
         DEF EncFast!SizeMap, FastProofs!SizeMap, EncFast!Visit, FastProofs!Visit,
             EncFast!Add, FastProofs!Add, EncFast!Cardinality, FastProofs!Cardinality,
             EncFast!IsFiniteSet, FastProofs!IsFiniteSet
    <2>4. EncFast!SizeUnion <=> FastProofs!SizeUnion
      BY DEF EncFast!SizeUnion, FastProofs!SizeUnion, EncFast!Visit, FastProofs!Visit,
             EncFast!Add, FastProofs!Add
    <2>5. EncFast!SizeOther <=> FastProofs!SizeOther
      BY DEF EncFast!SizeOther, FastProofs!SizeOther, EncFast!Visit, FastProofs!Visit,
             EncFast!Add, FastProofs!Add
    <2> QED
      BY <2>1, <2>2, <2>3, <2>4, <2>5
  <1>9. /\ EncFast!MarshalSlice <=> FastProofs!MarshalSlice
        /\ EncFast!MarshalArray <=> FastProofs!MarshalArray
        /\ EncFast!MarshalMap <=> FastProofs!MarshalMap
        /\ EncFast!MarshalUnion <=> FastProofs!MarshalUnion
        /\ EncFast!MarshalStruct <=> FastProofs!MarshalStruct
        /\ EncFast!MarshalOther <=> FastProofs!MarshalOther
    <2>1. EncFast!MarshalSlice <=> FastProofs!MarshalSlice
      BY <1>7
         DEF EncFast!MarshalSlice, FastProofs!MarshalSlice, EncFast!Visit,
             FastProofs!Visit, EncFast!Write, FastProofs!Write, EncFast!Room,
             FastProofs!Room, EncFast!Over, FastProofs!Over
    <2>2. EncFast!MarshalArray <=> FastProofs!MarshalArray
      BY <1>7
         DEF EncFast!MarshalArray, FastProofs!MarshalArray, EncFast!Visit,
             FastProofs!Visit, EncFast!Write, FastProofs!Write, EncFast!Room,
             FastProofs!Room, EncFast!Over, FastProofs!Over, EncFast!Descend,
             FastProofs!Descend
    <2>3. EncFast!MarshalMap <=> FastProofs!MarshalMap
      <3>1. \A bytes, copied, more :
              EncFast!Write(bytes, copied, more) <=> FastProofs!Write(bytes, copied, more)
        BY DEF EncFast!Write, FastProofs!Write, EncFast!Room, FastProofs!Room,
               EncFast!Over, FastProofs!Over
      <3>2. EncFast!Cardinality(EncFast!Val) = FastProofs!Cardinality(FastProofs!Val)
        BY DEF EncFast!Cardinality, FastProofs!Cardinality, EncFast!IsFiniteSet,
               FastProofs!IsFiniteSet
      <3> QED
        BY <3>1, <3>2, <1>5, <1>6
           DEF EncFast!MarshalMap, FastProofs!MarshalMap, EncFast!Visit,
               FastProofs!Visit
    <2>4. EncFast!MarshalUnion <=> FastProofs!MarshalUnion
      BY DEF EncFast!MarshalUnion, FastProofs!MarshalUnion, EncFast!Visit,
             FastProofs!Visit, EncFast!Write, FastProofs!Write, EncFast!Room,
             FastProofs!Room, EncFast!Over, FastProofs!Over
    <2>5. EncFast!MarshalStruct <=> FastProofs!MarshalStruct
      <3>1. /\ EncFast!Room = FastProofs!Room
            /\ \A b : EncFast!Fits(b) = FastProofs!Fits(b)
            /\ \A b, o, bytes : EncFast!Over(b, o, bytes) = FastProofs!Over(b, o, bytes)
        BY DEF EncFast!Room, FastProofs!Room, EncFast!Fits, FastProofs!Fits,
               EncFast!Over, FastProofs!Over
      <3> QED
        BY <3>1, <1>7
           DEF EncFast!MarshalStruct, FastProofs!MarshalStruct, EncFast!Visit,
               FastProofs!Visit, EncFast!Descend, FastProofs!Descend
    <2>6. EncFast!MarshalOther <=> FastProofs!MarshalOther
      BY DEF EncFast!MarshalOther, FastProofs!MarshalOther, EncFast!Visit,
             FastProofs!Visit, EncFast!Write, FastProofs!Write, EncFast!Room,
             FastProofs!Room, EncFast!Over, FastProofs!Over
    <2> QED
      BY <2>1, <2>2, <2>3, <2>4, <2>5, <2>6
  <1>10. /\ EncFast!AppendSlice <=> FastProofs!AppendSlice
         /\ EncFast!AppendArray <=> FastProofs!AppendArray
         /\ EncFast!AppendMap <=> FastProofs!AppendMap
         /\ EncFast!AppendUnion <=> FastProofs!AppendUnion
         /\ EncFast!AppendOther <=> FastProofs!AppendOther
    <2>1. EncFast!AppendSlice <=> FastProofs!AppendSlice
      BY <1>7
         DEF EncFast!AppendSlice, FastProofs!AppendSlice, EncFast!Visit,
             FastProofs!Visit, EncFast!Push, FastProofs!Push
    <2>2. EncFast!AppendArray <=> FastProofs!AppendArray
      BY <1>7
         DEF EncFast!AppendArray, FastProofs!AppendArray, EncFast!Visit,
             FastProofs!Visit, EncFast!Push, FastProofs!Push
    <2>3. EncFast!AppendMap <=> FastProofs!AppendMap
      BY <1>5, <1>6
         DEF EncFast!AppendMap, FastProofs!AppendMap, EncFast!Visit, FastProofs!Visit,
             EncFast!Push, FastProofs!Push, EncFast!Cardinality,
             FastProofs!Cardinality, EncFast!IsFiniteSet, FastProofs!IsFiniteSet
    <2>4. EncFast!AppendUnion <=> FastProofs!AppendUnion
      BY DEF EncFast!AppendUnion, FastProofs!AppendUnion, EncFast!Visit,
             FastProofs!Visit, EncFast!Push, FastProofs!Push
    <2>5. EncFast!AppendOther <=> FastProofs!AppendOther
      BY <1>7
         DEF EncFast!AppendOther, FastProofs!AppendOther, EncFast!Visit,
             FastProofs!Visit, EncFast!Push, FastProofs!Push
    <2> QED
      BY <2>1, <2>2, <2>3, <2>4, <2>5
  <1>11. /\ EncFast!NotAMember <=> FastProofs!NotAMember
         /\ EncFast!CallMarshal <=> FastProofs!CallMarshal
         /\ EncFast!CallAppend <=> FastProofs!CallAppend
         /\ EncFast!Finish <=> FastProofs!Finish
    BY DEF EncFast!NotAMember, FastProofs!NotAMember, EncFast!CallMarshal,
           FastProofs!CallMarshal, EncFast!CallAppend, FastProofs!CallAppend,
           EncFast!Finish, FastProofs!Finish, EncFast!Item, FastProofs!Item
  <1> QED
    BY <1>8, <1>9, <1>10, <1>11 DEF EncFast!Next, FastProofs!Next

LEMMA SafeInit == Enc!Init <=> SafeProofs!Init
  BY DEF Enc!Init, SafeProofs!Init, Enc!Item, SafeProofs!Item

-----------------------------------------------------------------------------
\* Nothing that is assumed, or kept, depends on the mode.
LEMMA SameHypotheses ==
  ASSUME NEW Items, NEW depth, NEW rank
  PROVE  /\ Enc!Encodable(Items, depth, rank) <=> SafeProofs!Encodable(Items, depth, rank)
         /\ Enc!Encodable(Items, depth, rank) <=> FastProofs!Encodable(Items, depth, rank)
  BY DEF Enc!Encodable, SafeProofs!Encodable, FastProofs!Encodable, Enc!Schemas,
         SafeProofs!Schemas, FastProofs!Schemas, Enc!ArraysEnd, SafeProofs!ArraysEnd,
         FastProofs!ArraysEnd, Enc!Total, SafeProofs!Total, FastProofs!Total,
         Enc!FlatStruct, SafeProofs!FlatStruct, FastProofs!FlatStruct, Enc!BlocksAreFlat,
         SafeProofs!BlocksAreFlat, FastProofs!BlocksAreFlat, Enc!IsSeq, SafeProofs!IsSeq,
         FastProofs!IsSeq, Enc!WellFormed, SafeProofs!WellFormed, FastProofs!WellFormed,
         Enc!Parts, SafeProofs!Parts, FastProofs!Parts, Enc!Trees, SafeProofs!Trees,
         FastProofs!Trees, Enc!Count, SafeProofs!Count, FastProofs!Count, Enc!PrefixesFit,
         SafeProofs!PrefixesFit, FastProofs!PrefixesFit, Enc!Item, SafeProofs!Item,
         FastProofs!Item, Enc!FixedSize, SafeProofs!FixedSize, FastProofs!FixedSize,
         Enc!IsFiniteSet, SafeProofs!IsFiniteSet, FastProofs!IsFiniteSet, Enc!Cardinality,
         SafeProofs!Cardinality, FastProofs!Cardinality

LEMMA SameWeights ==
  ASSUME NEW Items, NEW W, NEW U
  PROVE  SafeProofs!Weighed(Items, W, U) <=> FastProofs!Weighed(Items, W, U)
  BY DEF SafeProofs!Weighed, FastProofs!Weighed, SafeProofs!Bytes, FastProofs!Bytes,
         SafeProofs!Stops, FastProofs!Stops, SafeProofs!Weighs, FastProofs!Weighs,
         SafeProofs!OwnBytes, FastProofs!OwnBytes, SafeProofs!OwnStops,
         FastProofs!OwnStops, SafeProofs!Load, FastProofs!Load, SafeProofs!Total,
         FastProofs!Total, SafeProofs!InOrder, FastProofs!InOrder, SafeProofs!ElementsOf,
         FastProofs!ElementsOf, SafeProofs!FieldsOf, FastProofs!FieldsOf,
         SafeProofs!EntriesOf, FastProofs!EntriesOf, SafeProofs!MemberOf,
         FastProofs!MemberOf, SafeProofs!IsDeclared, FastProofs!IsDeclared,
         SafeProofs!Item, FastProofs!Item, SafeProofs!SetToSeqs, FastProofs!SetToSeqs,
         SafeProofs!Cardinality, FastProofs!Cardinality, SafeProofs!IsFiniteSet,
         FastProofs!IsFiniteSet

LEMMA SameInvariant ==
  ASSUME NEW Items, NEW W, NEW U
  PROVE  /\ SafeProofs!Agree(Items, W, U) <=> FastProofs!Agree(Items, W, U)
         /\ SafeProofs!Agree(Items, W, U)' <=> FastProofs!Agree(Items, W, U)'
  BY DEF SafeProofs!Agree, FastProofs!Agree, SafeProofs!Typed, FastProofs!Typed,
         SafeProofs!Whole, FastProofs!Whole, SafeProofs!Measuring, FastProofs!Measuring,
         SafeProofs!Measured, FastProofs!Measured, SafeProofs!Marshalling,
         FastProofs!Marshalling, SafeProofs!Appending, FastProofs!Appending,
         SafeProofs!Panicked, FastProofs!Panicked, SafeProofs!Behind, FastProofs!Behind,
         SafeProofs!Ahead, FastProofs!Ahead, SafeProofs!IsSeq, FastProofs!IsSeq,
         SafeProofs!Item, FastProofs!Item, SafeProofs!Load, FastProofs!Load,
         SafeProofs!Total, FastProofs!Total

\* A step of Unmarshal leaves the encoder's variables alone.
LEMMA DecodeKeepsRoot == Decode => root' = root
  <1>1. Dec!Next => root' = root
    BY DEF Dec!Next, Dec!BadPrefix, Dec!ShortLength, Dec!NilValue, Dec!Payload, Dec!Slice,
         Dec!Map, Dec!Union, Dec!Fixed, Dec!Block, Dec!Array, Dec!Pointer, Dec!Struct,
         Dec!Owned, Dec!Return, Dec!ReturnError, Dec!Finish, Dec!Advance, Dec!Fail,
         Dec!Panic, Dec!Enter
  <1>2. DecFast!Next => root' = root
    BY DEF DecFast!Next, DecFast!BadPrefix, DecFast!ShortLength, DecFast!NilValue,
         DecFast!Payload, DecFast!Slice, DecFast!Map, DecFast!Union, DecFast!Fixed,
         DecFast!Block, DecFast!Array, DecFast!Pointer, DecFast!Struct, DecFast!Owned,
         DecFast!Return, DecFast!ReturnError, DecFast!Finish, DecFast!Advance,
         DecFast!Fail, DecFast!Panic, DecFast!Enter
  <1> QED
    BY <1>1, <1>2 DEF Decode

-----------------------------------------------------------------------------
(***************************************************************************)
(* The invariant of EncoderProofs, in EncodeDecode.                        *)
(***************************************************************************)
LEMMA AgreeAtInit ==
  ASSUME NEW Items, NEW depth, NEW rank, Enc!Encodable(Items, depth, rank),
         NEW W, NEW U, SafeProofs!Weighed(Items, W, U), Init
  PROVE  SafeProofs!Agree(Items, W, U)
  <1>1. SafeProofs!Encodable(Items, depth, rank)
    BY SameHypotheses
  <1>2. W \in [Items -> Nat] /\ U \in [Items -> Nat]
    BY DEF SafeProofs!Weighed, SafeProofs!Bytes, SafeProofs!Stops, SafeProofs!Weighs
  <1>3. SafeProofs!Init
    BY SafeInit DEF Init
  <1> QED
    BY <1>1, <1>2, <1>3, SafeProofs!AgreeAtInit

LEMMA AgreeStutters ==
  ASSUME NEW Items, NEW W, NEW U, SafeProofs!Agree(Items, W, U),
         root' = root, encoder' = encoder
  PROVE  SafeProofs!Agree(Items, W, U)'
  <1>1. UNCHANGED SafeProofs!vars
    BY DEF encoder, SafeProofs!vars
  <1> QED
    BY <1>1, SafeProofs!AgreeStutters

LEMMA AgreeNext ==
  ASSUME NEW Items, NEW depth, NEW rank, Enc!Encodable(Items, depth, rank),
         NEW W, NEW U, SafeProofs!Weighed(Items, W, U), SafeProofs!Agree(Items, W, U),
         [Next]_vars
  PROVE  SafeProofs!Agree(Items, W, U)'
  <1>1. /\ SafeProofs!Encodable(Items, depth, rank)
        /\ FastProofs!Encodable(Items, depth, rank)
    BY SameHypotheses
  <1>2. FastProofs!Weighed(Items, W, U) /\ FastProofs!Agree(Items, W, U)
    BY SameWeights, SameInvariant
  <1>3. CASE Encode
    <2>1. CASE Enc!Next
      <3>1. SafeProofs!Next
        BY <2>1, SafeNext
      <3> QED
        BY <3>1, <1>1, SpareAssumption, BeforeAssumption, SafeProofs!AgreeNext
    <2>2. CASE EncFast!Next
      <3>1. FastProofs!Next
        BY <2>2, FastNext
      <3>2. FastProofs!Agree(Items, W, U)'
        BY <3>1, <1>1, <1>2, SpareAssumption, BeforeAssumption, FastProofs!AgreeNext
      <3> QED
        BY <3>2, SameInvariant
    <2> QED
      BY <1>3, <2>1, <2>2 DEF Encode
  <1>4. CASE DeliverMarshalled \/ DeliverAppended
    BY <1>4, AgreeStutters DEF DeliverMarshalled, DeliverAppended, Give
  <1>5. CASE Decode
    BY <1>5, DecodeKeepsRoot, AgreeStutters DEF Decode
  <1>6. CASE UNCHANGED vars
    BY <1>6, AgreeStutters DEF vars
  <1> QED
    BY <1>3, <1>4, <1>5, <1>6 DEF Next

LEMMA AgreeSays ==
  ASSUME NEW Items, NEW W, NEW U, SafeProofs!Agree(Items, W, U)
  PROVE  SizeExact /\ NoPanicInSize /\ WritesInPlace /\ AppendsSize
  <1>1. /\ SafeProofs!SizeExact /\ SafeProofs!NoPanicInSize
        /\ SafeProofs!WritesInPlace /\ SafeProofs!AppendsSize
    BY SafeProofs!AgreeSays
  <1> QED
    BY <1>1
       DEF SizeExact, NoPanicInSize, WritesInPlace, AppendsSize,
           Enc!SizeExact, Enc!NoPanicInSize, Enc!WritesInPlace, Enc!AppendsSize, Enc!Marshalled,
           SafeProofs!SizeExact, SafeProofs!NoPanicInSize, SafeProofs!WritesInPlace,
           SafeProofs!AppendsSize, SafeProofs!Marshalled

\* Of a package and values as TypeClass and the type system make them, every
\* method agrees with Size at every step.
LEMMA Agrees ==
  ASSUME NEW Items, NEW depth, NEW rank, Enc!Encodable(Items, depth, rank)
  PROVE  Spec => [](SizeExact /\ NoPanicInSize /\ WritesInPlace /\ AppendsSize)
  <1>1. SafeProofs!Encodable(Items, depth, rank)
    BY SameHypotheses
  <1>2. /\ \E W : SafeProofs!Bytes(W, Items)
        /\ \E U : SafeProofs!Stops(U, Items)
    BY <1>1, SafeProofs!BytesExist
  <1>3. PICK W : SafeProofs!Bytes(W, Items)
    BY <1>2
  <1>4. PICK U : SafeProofs!Stops(U, Items)
    BY <1>2
  <1>5. SafeProofs!Weighed(Items, W, U)
    BY <1>3, <1>4 DEF SafeProofs!Weighed
  <1>6. Init => SafeProofs!Agree(Items, W, U)
    BY <1>5, AgreeAtInit
  <1>7. SafeProofs!Agree(Items, W, U) /\ [Next]_vars => SafeProofs!Agree(Items, W, U)'
    BY <1>5, AgreeNext
  <1>8. SafeProofs!Agree(Items, W, U) => SizeExact /\ NoPanicInSize /\ WritesInPlace /\ AppendsSize
    BY AgreeSays
  <1> QED
    BY <1>6, <1>7, <1>8, PTL DEF Spec

-----------------------------------------------------------------------------
\* Marshal of a buffer of at least Size bytes returns Size, in both modes, for
\* every package, every value and every order the maps of the value are visited
\* in, in each of the two calls.
THEOREM SizeIsExact ==
  ASSUME NEW Items, NEW depth, NEW rank, Enc!Encodable(Items, depth, rank)
  PROVE  Spec => []SizeExact
  <1>1. Spec => [](SizeExact /\ NoPanicInSize /\ WritesInPlace /\ AppendsSize)
    BY Agrees
  <1> QED
    BY <1>1, PTL

\* Marshal of a buffer of at least Size bytes does not panic.
THEOREM NoPanicWithSize ==
  ASSUME NEW Items, NEW depth, NEW rank, Enc!Encodable(Items, depth, rank)
  PROVE  Spec => []NoPanicInSize
  <1>1. Spec => [](SizeExact /\ NoPanicInSize /\ WritesInPlace /\ AppendsSize)
    BY Agrees
  <1> QED
    BY <1>1, PTL

\* Marshal leaves a longer buffer alone behind the bytes of the value, a shorter
\* one never grows, and Append keeps what it is given.
THEOREM BytesInPlace ==
  ASSUME NEW Items, NEW depth, NEW rank, Enc!Encodable(Items, depth, rank)
  PROVE  Spec => []WritesInPlace
  <1>1. Spec => [](SizeExact /\ NoPanicInSize /\ WritesInPlace /\ AppendsSize)
    BY Agrees
  <1> QED
    BY <1>1, PTL

\* Append appends Size bytes.
THEOREM AppendIsSize ==
  ASSUME NEW Items, NEW depth, NEW rank, Enc!Encodable(Items, depth, rank)
  PROVE  Spec => []AppendsSize
  <1>1. Spec => [](SizeExact /\ NoPanicInSize /\ WritesInPlace /\ AppendsSize)
    BY Agrees
  <1> QED
    BY <1>1, PTL

-----------------------------------------------------------------------------
(***************************************************************************)
(* The trails of EncoderProofs, in EncodeDecode: what Marshal and Append   *)
(* record is what the trails say of their steps.                           *)
(***************************************************************************)
LEMMA SameMemory == Enc!Memory = SafeProofs!MemoryOf(Head(todo))
  <1>1. Enc!Memory = SafeProofs!Memory
    <2>1. Enc!This = SafeProofs!This /\ Enc!Val = SafeProofs!Val
      BY DEF Enc!This, SafeProofs!This, Enc!Val, SafeProofs!Val
    <2> QED
      BY <2>1
         DEF Enc!Memory, SafeProofs!Memory, Enc!StructMemory, SafeProofs!StructMemory,
             Enc!Flat, SafeProofs!Flat, Enc!Dimensions, SafeProofs!Dimensions,
             Enc!FlattenSeq, SafeProofs!FlattenSeq, Enc!Elem, SafeProofs!Elem
  <1> QED
    BY <1>1, SafeProofs!Here

LEMMA SameTurns ==
  ASSUME NEW fast, NEW x
  PROVE  /\ SafeProofs!PartsOf(fast, x) = FastProofs!PartsOf(fast, x)
         /\ \A bytes, more :
              SafeProofs!Turn(fast, x, bytes, more) <=> FastProofs!Turn(fast, x, bytes, more)
  <1>1. SafeProofs!MemoryOf(x) = FastProofs!MemoryOf(x)
    BY DEF SafeProofs!MemoryOf, FastProofs!MemoryOf, SafeProofs!StructMemory,
           FastProofs!StructMemory, SafeProofs!Flat, FastProofs!Flat, SafeProofs!Dimensions,
           FastProofs!Dimensions, SafeProofs!FlattenSeq, FastProofs!FlattenSeq
  <1>2. /\ SafeProofs!ElementsOf(x) = FastProofs!ElementsOf(x)
        /\ SafeProofs!FieldsOf(x) = FastProofs!FieldsOf(x)
        /\ SafeProofs!MemberOf(x) = FastProofs!MemberOf(x)
        /\ \A s : SafeProofs!EntriesOf(x, s) = FastProofs!EntriesOf(x, s)
    BY DEF SafeProofs!ElementsOf, FastProofs!ElementsOf, SafeProofs!FieldsOf,
           FastProofs!FieldsOf, SafeProofs!MemberOf, FastProofs!MemberOf,
           SafeProofs!EntriesOf, FastProofs!EntriesOf, SafeProofs!Item, FastProofs!Item
  <1>3. /\ SafeProofs!Cardinality(x.v) = FastProofs!Cardinality(x.v)
        /\ SafeProofs!SetToSeqs(x.v) = FastProofs!SetToSeqs(x.v)
    BY DEF SafeProofs!SetToSeqs, FastProofs!SetToSeqs, SafeProofs!Cardinality,
           FastProofs!Cardinality, SafeProofs!IsFiniteSet, FastProofs!IsFiniteSet
  <1>4. SafeProofs!Copied(fast, x) <=> FastProofs!Copied(fast, x)
    BY DEF SafeProofs!Copied, FastProofs!Copied
  <1>5. SafeProofs!PartsOf(fast, x) = FastProofs!PartsOf(fast, x)
    BY <1>1, <1>3, <1>4 DEF SafeProofs!PartsOf, FastProofs!PartsOf
  <1>6. ASSUME NEW bytes, NEW more
        PROVE  SafeProofs!Turn(fast, x, bytes, more) <=> FastProofs!Turn(fast, x, bytes, more)
    BY <1>1, <1>2, <1>3, <1>4
       DEF SafeProofs!Turn, FastProofs!Turn, SafeProofs!BasicTurn, FastProofs!BasicTurn,
           SafeProofs!SliceTurn, FastProofs!SliceTurn, SafeProofs!ArrayTurn,
           FastProofs!ArrayTurn, SafeProofs!StructTurn, FastProofs!StructTurn,
           SafeProofs!PointerTurn, FastProofs!PointerTurn, SafeProofs!MapTurn,
           FastProofs!MapTurn, SafeProofs!UnionTurn, FastProofs!UnionTurn
  <1> QED
    BY <1>5, <1>6

LEMMA SameTrails ==
  ASSUME NEW Items, NEW W, NEW fast, NEW x, NEW T, NEW last
  PROVE  SafeProofs!Trail(Items, W, fast, x, T, last) <=> FastProofs!Trail(Items, W, fast, x, T, last)
  <1>1. \A s, w, b : SafeProofs!Point(s, w, b) = FastProofs!Point(s, w, b)
    BY DEF SafeProofs!Point, FastProofs!Point
  <1>2. SafeProofs!Points(Items) = FastProofs!Points(Items)
    BY DEF SafeProofs!Points, FastProofs!Points
  <1>3. \A e, d : SafeProofs!Passes(fast, e, d) <=> FastProofs!Passes(fast, e, d)
    BY <1>1, SameTurns DEF SafeProofs!Passes, FastProofs!Passes
  <1>4. \A e, d : SafeProofs!OnTrail(W, x, e, d) <=> FastProofs!OnTrail(W, x, e, d)
    BY DEF SafeProofs!OnTrail, FastProofs!OnTrail, SafeProofs!Starts, FastProofs!Starts,
           SafeProofs!Load, FastProofs!Load, SafeProofs!Total, FastProofs!Total
  <1> QED
    BY <1>1, <1>2, <1>3, <1>4 DEF SafeProofs!Trail, FastProofs!Trail

LEMMA SameTraced ==
  ASSUME NEW Items, NEW W, NEW fast, NEW w, NEW m
  PROVE  /\ SafeProofs!Traced(Items, W, fast, w, m) <=> FastProofs!Traced(Items, W, fast, w, m)
         /\ SafeProofs!TracedThen(Items, W, fast, w, m)
              <=> FastProofs!TracedThen(Items, W, fast, w, m)
  <1>1. \A s, p, b : SafeProofs!Point(s, p, b) = FastProofs!Point(s, p, b)
    BY DEF SafeProofs!Point, FastProofs!Point
  <1>2. \A T, s, p, b : SafeProofs!Met(T, s, p, b) <=> FastProofs!Met(T, s, p, b)
    BY DEF SafeProofs!Met, FastProofs!Met, SafeProofs!Kinds, FastProofs!Kinds
  <1>3. \A p, q : SafeProofs!Starts(p, q) <=> FastProofs!Starts(p, q)
    BY DEF SafeProofs!Starts, FastProofs!Starts
  <1>4. \A x, s, p, b : SafeProofs!Reached(Items, W, fast, x, s, p, b)
                        <=> FastProofs!Reached(Items, W, fast, x, s, p, b)
    BY <1>1, SameTrails DEF SafeProofs!Reached, FastProofs!Reached
  <1>5. \A x, f, s, p, b : SafeProofs!Follows(Items, W, fast, x, m, f, s, p, b)
                           <=> FastProofs!Follows(Items, W, fast, x, m, f, s, p, b)
    BY <1>1, <1>2, <1>3, SameTrails DEF SafeProofs!Follows, FastProofs!Follows
  <1>6. \A b, n : SafeProofs!First(b, n) = FastProofs!First(b, n)
    BY DEF SafeProofs!First, FastProofs!First
  <1>7. /\ SafeProofs!Whole = FastProofs!Whole /\ SafeProofs!Whole' = FastProofs!Whole'
        /\ SafeProofs!Appended = FastProofs!Appended
        /\ SafeProofs!Appended' = FastProofs!Appended'
    BY DEF SafeProofs!Whole, FastProofs!Whole, SafeProofs!Item, FastProofs!Item,
           SafeProofs!Appended, FastProofs!Appended
  <1> QED
    BY <1>4, <1>5, <1>6, <1>7
       DEF SafeProofs!Traced, FastProofs!Traced, SafeProofs!TracedThen, FastProofs!TracedThen

\* What EncodeDecode records of a step are the parts that it writes.
LEMMA WritesParts ==
  ASSUME NEW fast, fast = ~safe, todo # << >>,
         Schema[Head(todo).t].kind \in
           { "fixed", "block", "string", "bytes", "slice", "array", "struct", "pointer",
             "map", "union" }
  PROVE  Writes = SafeProofs!PartsOf(fast, Head(todo))
  <1> DEFINE x == Head(todo)
             kind == Schema[x.t].kind
             m == SafeProofs!MemoryOf(x)
  <1>1. Enc!This = Schema[x.t] /\ Enc!Val = x.v /\ Enc!Memory = m
    BY SameMemory DEF Enc!This, Enc!Val
  <1>2. EncBulk <=> SafeProofs!Copied(fast, x)
    BY <1>1 DEF EncBulk, SafeProofs!Copied
  <1>3. SafeProofs!Cardinality(x.v) = Cardinality(x.v)
    BY DEF SafeProofs!Cardinality, Cardinality, SafeProofs!IsFiniteSet, IsFiniteSet
  <1> HIDE DEF m
  <1>4. << <<Len(x.v)>> >> \o << >> = << <<Len(x.v)>> >>
    OBVIOUS
  <1> QED
    BY <1>1, <1>2, <1>3, <1>4 DEF Writes, SafeProofs!PartsOf, m

\* One step of the encoder, in either mode.
LEMMA EncodeTraced ==
  ASSUME NEW Items, NEW depth, NEW rank, Enc!Encodable(Items, depth, rank),
         NEW W, NEW U, SafeProofs!Weighed(Items, W, U), SafeProofs!Agree(Items, W, U),
         SafeProofs!Traced(Items, W, ~safe, written, marshalled), Encode
  PROVE  SafeProofs!Traced(Items, W, ~safe, written, marshalled)'
  <1> DEFINE fast == ~safe
             w == written
             m == marshalled
             v == written'
             n == marshalled'
  <1>1. /\ SafeProofs!Encodable(Items, depth, rank)
        /\ FastProofs!Encodable(Items, depth, rank)
    BY SameHypotheses
  <1>2. FastProofs!Weighed(Items, W, U) /\ FastProofs!Agree(Items, W, U)
    BY SameWeights, SameInvariant
  <1>3. (SafeProofs!Next /\ safe) \/ (FastProofs!Next /\ ~safe)
    <2>1. (safe /\ Enc!Next) \/ (~safe /\ EncFast!Next)
      BY DEF Encode
    <2> QED
      BY <2>1, SafeNext, FastNext
  <1>4. todo # << >> => Writes = SafeProofs!PartsOf(fast, Head(todo))
    <2>1. todo # << >> =>
            Schema[Head(todo).t].kind \in
              { "fixed", "block", "string", "bytes", "slice", "array", "struct", "pointer",
                "map", "union" }
      BY <1>3, SafeProofs!NextKind, FastProofs!NextKind
    <2> QED
      BY <2>1, WritesParts
  <1>5. /\ pass = "size" => v = << >>
        /\ pass = "marshal" /\ pass' = "append" => v = << >> /\ n = w
        /\ ~ (pass = "size") /\ ~ (pass = "marshal" /\ pass' = "append") =>
             n = m /\ v = w \o (IF todo = << >> THEN << >> ELSE Writes)
    <2>1. todo = << >> => Writes = << >>
      BY DEF Writes
    <2> QED
      BY <2>1 DEF Encode
  <1>6. SafeProofs!Recorded(fast, w, m, v, n) /\ FastProofs!Recorded(fast, w, m, v, n)
    <2>1. SafeProofs!PartsOf(fast, Head(todo)) = FastProofs!PartsOf(fast, Head(todo))
      BY SameTurns
    <2> QED
      BY <1>4, <1>5, <2>1 DEF SafeProofs!Recorded, FastProofs!Recorded
  <1>7. safe' = safe
    BY DEF Encode
  <1>8. SafeProofs!Traced(Items, W, fast, w, m)
    OBVIOUS
  <1>9. FastProofs!Traced(Items, W, fast, w, m)
    BY <1>8, SameTraced
  <1> HIDE DEF fast, w, m, v, n
  <1>10. ASSUME SafeProofs!Next, safe
         PROVE  SafeProofs!TracedThen(Items, W, fast, v, n)
    <2>1. fast = ~TRUE
      BY <1>10 DEF fast
    <2> QED
      BY <1>1, <1>6, <1>8, <1>10, <2>1, BeforeAssumption, SafeProofs!TracedStep
  <1>11. ASSUME FastProofs!Next, ~safe
         PROVE  SafeProofs!TracedThen(Items, W, fast, v, n)
    <2>1. fast = ~FALSE
      BY <1>11 DEF fast
    <2>2. FastProofs!TracedThen(Items, W, fast, v, n)
      BY <1>1, <1>2, <1>6, <1>9, <1>11, <2>1, BeforeAssumption, FastProofs!TracedStep
    <2> QED
      BY <2>2, SameTraced
  <1>12. SafeProofs!TracedThen(Items, W, fast, v, n)
    BY <1>3, <1>10, <1>11
  <1> QED
    BY <1>7, <1>12 DEF SafeProofs!TracedThen, SafeProofs!Traced, fast, v, n

\* The rest of the program leaves the trails alone.
LEMMA TracedStutters ==
  ASSUME NEW Items, NEW W, SafeProofs!Traced(Items, W, ~safe, written, marshalled),
         safe' = safe, root' = root, encoder' = encoder,
         written' = written, marshalled' = marshalled
  PROVE  SafeProofs!Traced(Items, W, ~safe, written, marshalled)'
  <1>1. /\ val' = val /\ pass' = pass /\ todo' = todo /\ size' = size /\ buf' = buf
        /\ i' = i /\ out' = out /\ before' = before
    BY DEF encoder
  <1> QED
    BY <1>1 DEF SafeProofs!Traced, SafeProofs!Whole, SafeProofs!Appended

LEMMA TracedNext ==
  ASSUME NEW Items, NEW depth, NEW rank, Enc!Encodable(Items, depth, rank),
         NEW W, NEW U, SafeProofs!Weighed(Items, W, U), SafeProofs!Agree(Items, W, U),
         SafeProofs!Traced(Items, W, ~safe, written, marshalled), [Next]_vars
  PROVE  SafeProofs!Traced(Items, W, ~safe, written, marshalled)'
  <1>1. CASE Encode
    BY <1>1, EncodeTraced
  <1>2. CASE DeliverMarshalled \/ DeliverAppended
    BY <1>2, TracedStutters DEF DeliverMarshalled, DeliverAppended, Give
  <1>3. CASE Decode
    BY <1>3, DecodeKeepsRoot, TracedStutters DEF Decode
  <1>4. CASE UNCHANGED vars
    BY <1>4, TracedStutters DEF vars
  <1> QED
    BY <1>1, <1>2, <1>3, <1>4 DEF Next

LEMMA TracedAtInit ==
  ASSUME NEW Items, NEW W, Init
  PROVE  SafeProofs!Traced(Items, W, ~safe, written, marshalled)
  <1>1. pass = "size"
    BY DEF Init, Enc!Init
  <1> QED
    BY <1>1 DEF SafeProofs!Traced

LEMMA TracedSays ==
  ASSUME NEW Items, NEW W, NEW U, SafeProofs!Agree(Items, W, U),
         SafeProofs!Traced(Items, W, ~safe, written, marshalled)
  PROVE  SameOrderSameBytes
  <1> SUFFICES ASSUME written = marshalled
               PROVE  Enc!AppendMatchesMarshal
    BY DEF SameOrderSameBytes
  <1> DEFINE fast == ~safe
             w == written
  <1>1. SafeProofs!Traced(Items, W, fast, w, w)
    OBVIOUS
  <1> HIDE DEF fast, w
  <1>2. SafeProofs!AppendMatchesMarshal
    BY <1>1, SafeProofs!TracedSays
  <1> QED
    BY <1>2 DEF Enc!AppendMatchesMarshal, SafeProofs!AppendMatchesMarshal

-----------------------------------------------------------------------------
\* Append writes the bytes that Marshal wrote whenever the two visit the maps of
\* the value in one order, in both modes, for every package and every value: the
\* parts that are recorded tell the bytes, and no map is written in any other
\* order than its parts are.
THEOREM OrderIsAll ==
  ASSUME NEW Items, NEW depth, NEW rank, Enc!Encodable(Items, depth, rank)
  PROVE  Spec => []SameOrderSameBytes
  <1>1. SafeProofs!Encodable(Items, depth, rank)
    BY SameHypotheses
  <1>2. /\ \E W : SafeProofs!Bytes(W, Items)
        /\ \E U : SafeProofs!Stops(U, Items)
    BY <1>1, SafeProofs!BytesExist
  <1>3. PICK W : SafeProofs!Bytes(W, Items)
    BY <1>2
  <1>4. PICK U : SafeProofs!Stops(U, Items)
    BY <1>2
  <1>5. SafeProofs!Weighed(Items, W, U)
    BY <1>3, <1>4 DEF SafeProofs!Weighed
  <1> DEFINE Inv == /\ SafeProofs!Agree(Items, W, U)
                    /\ SafeProofs!Traced(Items, W, ~safe, written, marshalled)
  <1>6. Init => Inv
    BY <1>5, AgreeAtInit, TracedAtInit
  <1>7. Inv /\ [Next]_vars => Inv'
    BY <1>5, AgreeNext, TracedNext
  <1>8. Inv => SameOrderSameBytes
    BY TracedSays
  <1> HIDE DEF Inv
  <1> QED
    BY <1>6, <1>7, <1>8, PTL DEF Spec

-----------------------------------------------------------------------------
(***************************************************************************)
(* What the hypotheses say of one value: its prefix reads back, it takes a *)
(* byte, and safe mode finds a byte for each of its elements.              *)
(***************************************************************************)
ReadsBack(n, Tails) ==
  LET w == PutUvarint(n)
  IN  /\ n <= MaxInt /\ w # <<>>
      /\ \A more \in Tails : ReadUvarint(w \o more) = [n |-> n, c |-> Len(w)]

LEMMA PrefixBack ==
  ASSUME NEW Items, NEW Tails, PrefixesRead(Items, Tails), NEW x \in Items
  PROVE  /\ Schema[x.t].kind \in { "string", "bytes", "slice" } => ReadsBack(Len(x.v), Tails)
         /\ Schema[x.t].kind = "map" => ReadsBack(SafeProofs!Cardinality(x.v), Tails)
         /\ Schema[x.t].kind = "union" /\ x.v[1] <= Len(Schema[x.t].elems) =>
              ReadsBack(x.v[1], Tails)
  <1> DEFINE kind == Schema[x.t].kind
  <1>1. /\ kind \in { "string", "bytes", "slice" } => Enc!Count(x) = Len(x.v)
        /\ kind = "map" => Enc!Count(x) = SafeProofs!Cardinality(x.v)
        /\ kind = "union" => Enc!Count(x) = x.v[1]
    BY DEF Enc!Count, Enc!Cardinality, SafeProofs!Cardinality, Enc!IsFiniteSet,
           SafeProofs!IsFiniteSet
  <1>2. kind \in { "string", "bytes", "slice", "map" }
          \/ (kind = "union" /\ Enc!Count(x) <= Len(Schema[x.t].elems)) =>
            ReadsBack(Enc!Count(x), Tails)
    BY DEF PrefixesRead, ReadsBack
  <1>3. ASSUME kind \in { "string", "bytes", "slice" }
        PROVE  ReadsBack(Len(x.v), Tails)
    BY <1>1, <1>2, <1>3
  <1>4. ASSUME kind = "map"
        PROVE  ReadsBack(SafeProofs!Cardinality(x.v), Tails)
    BY <1>1, <1>2, <1>4
  <1>5. ASSUME kind = "union", x.v[1] <= Len(Schema[x.t].elems)
        PROVE  ReadsBack(x.v[1], Tails)
    BY <1>1, <1>2, <1>5
  <1> QED
    BY <1>3, <1>4, <1>5

\* The hypotheses, taken together.
Survivable(Items, depth, rank, W, U, R, B) ==
  /\ Enc!Encodable(Items, depth, rank) /\ SafeProofs!Weighed(Items, W, U)
  /\ PrefixesRead(Items, Seq(Nat)) /\ LengthsFit(R, B)

LEMMA Hypotheses ==
  ASSUME NEW Items, NEW depth, NEW rank, NEW W, NEW U, NEW R, NEW B,
         Survivable(Items, depth, rank, W, U, R, B)
  PROVE  /\ SafeProofs!Encodable(Items, depth, rank) /\ SafeProofs!Weighed(Items, W, U)
         /\ SafeProofs!Schemas /\ SafeProofs!Trees(Items, depth)
         /\ SafeProofs!Bytes(W, Items) /\ SafeProofs!Stops(U, Items)
         /\ W \in [Items -> Nat] /\ U \in [Items -> Nat]
         /\ PrefixesRead(Items, Seq(Nat)) /\ TakesByte(B)
  BY SameHypotheses
     DEF Survivable, LengthsFit, SafeProofs!Encodable, SafeProofs!Weighed, SafeProofs!Bytes,
         SafeProofs!Stops, SafeProofs!Weighs

LEMMA NotEmpty ==
  ASSUME NEW w \in Seq(Nat), w # <<>>
  PROVE  Len(w) \in Nat /\ Len(w) > 0
  OBVIOUS

\* A value of a type in B takes a byte, unless it has a union that Size panics on.
LEMMA ValueTakesByte ==
  ASSUME NEW Items, NEW depth, NEW rank, NEW W, NEW U, NEW R, NEW B,
         Survivable(Items, depth, rank, W, U, R, B)
  PROVE  \A y \in Items : y.t \in B /\ U[y] = 0 => W[y] > 0
  <1>0. /\ SafeProofs!Encodable(Items, depth, rank) /\ SafeProofs!Weighed(Items, W, U)
        /\ SafeProofs!Schemas /\ SafeProofs!Trees(Items, depth)
        /\ SafeProofs!Bytes(W, Items) /\ SafeProofs!Stops(U, Items)
        /\ W \in [Items -> Nat] /\ U \in [Items -> Nat]
        /\ PrefixesRead(Items, Seq(Nat)) /\ TakesByte(B)
    BY Hypotheses
  <1> DEFINE Light == { y \in Items : y.t \in B /\ U[y] = 0 /\ ~ (W[y] > 0) }
             Depths == { depth[y] : y \in Light }
  <1> SUFFICES ASSUME Light # {} PROVE FALSE
    OBVIOUS
  <1>1. depth \in [Items -> Nat]
    BY <1>0 DEF SafeProofs!Trees
  <1>2. Depths \in SUBSET Nat /\ Depths # {}
    BY <1>1
  <1>3. PICK d \in Depths : \A n \in Depths : d <= n
    BY <1>2, SafeProofs!Least
  <1>4. PICK y \in Light : d = depth[y]
    BY <1>3
  <1>5. /\ y \in Items /\ y.t \in B /\ U[y] = 0 /\ W[y] = 0 /\ y.t \in Type
        /\ \A z \in Items : z.t \in B /\ U[z] = 0 /\ depth[z] < depth[y] => W[z] > 0
    <2>1. ASSUME NEW z \in Items, z.t \in B, U[z] = 0, depth[z] < depth[y]
          PROVE  W[z] > 0
      <3>1. z \notin Light
        <4> SUFFICES ASSUME z \in Light PROVE FALSE
          OBVIOUS
        <4>1. depth[z] \in Depths /\ depth[z] \in Nat /\ depth[y] \in Nat
          BY <1>1, <1>4
        <4>2. depth[y] <= depth[z]
          BY <1>3, <1>4, <4>1
        <4> QED
          BY <2>1, <4>1, <4>2
      <3> QED
        BY <2>1, <3>1
    <2>2. W[y] \in Nat /\ ~ (W[y] > 0)
      BY <1>0, <1>4
    <2>3. y.t \in Type
      BY <1>0, <1>4, SafeProofs!ItemIs
    <2> QED
      BY <1>4, <2>1, <2>2, <2>3
  <1> HIDE DEF Light, Depths
  <1> DEFINE s == Schema[y.t]
  <1>6. W[y] = SafeProofs!OwnBytes(y) + SafeProofs!Load(W, SafeProofs!InOrder(y))
        /\ U[y] = SafeProofs!OwnStops(y) + SafeProofs!Load(U, SafeProofs!InOrder(y))
    BY <1>0, <1>5, SafeProofs!BytesAre
  <1>7. /\ SafeProofs!OwnBytes(y) \in Nat /\ SafeProofs!OwnStops(y) \in Nat
        /\ SafeProofs!InOrder(y) \in Seq(Items)
        /\ \A k \in 1 .. Len(SafeProofs!InOrder(y)) :
             depth[SafeProofs!InOrder(y)[k]] < depth[y]
    BY <1>0, <1>5, SafeProofs!OwnNat, SafeProofs!InOrderIs DEF SafeProofs!Under
  <1> DEFINE O == SafeProofs!InOrder(y)
  <1>8. /\ SafeProofs!Load(W, O) \in Nat /\ SafeProofs!Load(U, O) \in Nat
    BY <1>0, <1>7, SafeProofs!LoadNat
  <1>9. /\ SafeProofs!OwnBytes(y) = 0 /\ SafeProofs!OwnStops(y) = 0
        /\ SafeProofs!Load(W, O) = 0 /\ SafeProofs!Load(U, O) = 0
    <2> HIDE DEF O
    <2>1. /\ 0 = SafeProofs!OwnBytes(y) + SafeProofs!Load(W, O)
          /\ 0 = SafeProofs!OwnStops(y) + SafeProofs!Load(U, O)
      BY <1>5, <1>6 DEF O
    <2> QED
      BY <1>7, <1>8, <2>1
  <1>10. ASSUME NEW k \in 1 .. Len(O)
         PROVE  ~ (O[k].t \in B)
    <2>1. O \in Seq(Items) /\ O[k] \in Items /\ depth[O[k]] < depth[y]
      BY <1>7
    <2> HIDE DEF O
    <2>2. U[O[k]] = 0 /\ W[O[k]] = 0
      BY <1>0, <1>9, <2>1, SafeProofs!NoneWeighs
    <2> QED
      BY <1>5, <2>1, <2>2
  <1>b. /\ s.kind # "owned"
        /\ s.kind \in { "fixed", "block" } => s.size > 0
        /\ s.kind = "array" => s.size > 0 /\ s.elems[1] \in B
        /\ s.kind = "struct" => \E k \in DOMAIN s.elems : s.elems[k] \in B
    BY <1>0, <1>5 DEF TakesByte
  <1>11. s.kind \notin { "fixed", "block" }
    <2>1. s.kind \in { "fixed", "block" } => SafeProofs!OwnBytes(y) = s.size
      BY DEF SafeProofs!OwnBytes
    <2>2. s.size \in Nat
      BY <1>0, <1>5, SafeProofs!SchemaIs
    <2> QED
      BY <1>9, <1>b, <2>1, <2>2
  <1>12. s.kind \notin { "string", "bytes", "slice" }
    <2> SUFFICES ASSUME s.kind \in { "string", "bytes", "slice" } PROVE FALSE
      OBVIOUS
    <2> DEFINE w == PutUvarint(Len(y.v))
    <2>1. w \in Seq(Nat) /\ SizeUvarint(Len(y.v)) = Len(w)
      BY <1>0, <1>5, SafeProofs!PrefixIs
    <2>2. w # <<>>
      BY <1>0, <1>5, PrefixBack DEF ReadsBack
    <2>3. Len(w) \in Nat /\ Len(w) > 0
      <3> HIDE DEF w
      <3> QED
        BY <2>1, <2>2, NotEmpty
    <2>4. /\ s.kind = "slice" => SafeProofs!OwnBytes(y) = Len(w)
          /\ s.kind \in { "string", "bytes" } => SafeProofs!OwnBytes(y) = Len(w) + Len(y.v)
      BY <2>1 DEF SafeProofs!OwnBytes
    <2>5. s.kind \in { "string", "bytes" } => Len(y.v) \in Nat
      <3>1. SafeProofs!WellFormed(y)
        BY <1>0, <1>5, SafeProofs!ItemIs
      <3>2. s.kind \in { "string", "bytes" } => y.v \in Seq(Nat)
        BY <3>1 DEF SafeProofs!WellFormed
      <3> QED
        BY <3>2
    <2> HIDE DEF w
    <2> QED
      BY <1>9, <2>3, <2>4, <2>5
  <1>13. s.kind # "map"
    <2> SUFFICES ASSUME s.kind = "map" PROVE FALSE
      OBVIOUS
    <2> DEFINE w == PutUvarint(SafeProofs!Cardinality(y.v))
    <2>1. w \in Seq(Nat) /\ SizeUvarint(SafeProofs!Cardinality(y.v)) = Len(w)
      BY <1>0, <1>5, SafeProofs!PrefixIs
    <2>2. w # <<>>
      BY <1>0, <1>5, PrefixBack DEF ReadsBack
    <2>3. Len(w) \in Nat /\ Len(w) > 0
      <3> HIDE DEF w
      <3> QED
        BY <2>1, <2>2, NotEmpty
    <2>4. SafeProofs!OwnBytes(y) = Len(w)
      BY <2>1 DEF SafeProofs!OwnBytes
    <2> HIDE DEF w
    <2> QED
      BY <1>9, <2>3, <2>4
  <1>14. s.kind # "pointer"
    BY <1>9 DEF SafeProofs!OwnBytes
  <1>15. s.kind # "union"
    <2> SUFFICES ASSUME s.kind = "union" PROVE FALSE
      OBVIOUS
    <2>0. y.v[1] <= Len(s.elems)
      BY <1>9 DEF SafeProofs!OwnStops
    <2> DEFINE w == PutUvarint(y.v[1])
    <2>1. w \in Seq(Nat) /\ TagLen(y.v[1]) = Len(w)
      BY <1>0, <1>5, <2>0, SafeProofs!PrefixIs
    <2>2. w # <<>>
      BY <1>0, <1>5, <2>0, PrefixBack DEF ReadsBack
    <2>3. Len(w) \in Nat /\ Len(w) > 0
      <3> HIDE DEF w
      <3> QED
        BY <2>1, <2>2, NotEmpty
    <2>4. SafeProofs!OwnBytes(y) = Len(w)
      BY <2>0, <2>1 DEF SafeProofs!OwnBytes
    <2> HIDE DEF w
    <2> QED
      BY <1>9, <2>3, <2>4
  <1>16. s.kind # "array"
    <2> SUFFICES ASSUME s.kind = "array" PROVE FALSE
      OBVIOUS
    <2>1. O = SafeProofs!ElementsOf(y)
      BY DEF SafeProofs!InOrder
    <2>2. /\ Len(O) = s.size
          /\ \A k \in 1 .. Len(y.v) : O[k] = SafeProofs!Item(s.elems[1], y.v[k])
          /\ Len(y.v) = s.size
      BY <1>0, <1>5, <2>1, SafeProofs!ElementsAre
    <2>3. s.size \in Nat
      BY <1>0, <1>5, SafeProofs!SchemaIs
    <2>4. 1 \in 1 .. Len(O) /\ O[1] = SafeProofs!Item(s.elems[1], y.v[1])
      BY <1>b, <2>2, <2>3
    <2>5. O[1].t = s.elems[1]
      BY <2>4, SafeProofs!ItemOf
    <2> QED
      BY <1>10, <1>b, <2>4, <2>5
  <1>17. s.kind # "struct"
    <2> SUFFICES ASSUME s.kind = "struct" PROVE FALSE
      OBVIOUS
    <2>1. O = SafeProofs!FieldsOf(y)
      BY DEF SafeProofs!InOrder
    <2>2. /\ Len(O) = Len(s.elems) /\ Len(y.v) = Len(s.elems)
          /\ \A k \in 1 .. Len(y.v) : O[k] = SafeProofs!Item(s.elems[k], y.v[k])
      BY <1>0, <1>5, <2>1, SafeProofs!FieldsAre
    <2>3. s.elems \in Seq(Type)
      BY <1>0, <1>5, SafeProofs!SchemaIs
    <2>4. PICK k \in DOMAIN s.elems : s.elems[k] \in B
      BY <1>b
    <2>5. k \in 1 .. Len(O) /\ O[k] = SafeProofs!Item(s.elems[k], y.v[k])
      BY <2>2, <2>3, <2>4
    <2>6. O[k].t = s.elems[k]
      BY <2>5, SafeProofs!ItemOf
    <2> QED
      BY <1>10, <2>4, <2>5, <2>6
  <1>18. s.kind \in { "fixed", "block", "string", "bytes", "slice", "array",
                      "pointer", "map", "struct", "union", "owned" }
    BY <1>0, <1>5 DEF SafeProofs!Schemas
  <1> QED
    BY <1>11, <1>12, <1>13, <1>14, <1>15, <1>16, <1>17, <1>18, <1>b

-----------------------------------------------------------------------------
(***************************************************************************)
(* What Unmarshal finds in a buffer that holds, at o, what a step of       *)
(* Marshal or Append wrote.                                                *)
(***************************************************************************)
SafeReads == INSTANCE DecoderProofs WITH Safe <- TRUE, todo <- left, Input <- {}
FastReads == INSTANCE DecoderProofs WITH Safe <- FALSE, todo <- left, Input <- {}

Holds(b, o, bytes) ==
  /\ b.data \in Seq(Nat) /\ b.len \in Nat /\ b.len <= Len(b.data)
  /\ o \in Nat /\ bytes \in Seq(Nat) /\ o + Len(bytes) <= b.len
  /\ \A k \in 1 .. Len(bytes) : b.data[o + k] = bytes[k]

LEMMA HoldsIs ==
  ASSUME NEW b, NEW o, NEW bytes, Holds(b, o, bytes)
  PROVE  /\ SubSeq(b.data, o + 1, o + Len(bytes)) = bytes
         /\ Len(bytes) \in Nat /\ o + Len(bytes) \in Nat
  <1> DEFINE d == b.data
             n == Len(bytes)
             z == SubSeq(d, o + 1, o + n)
  <1>1. /\ d \in Seq(Nat) /\ b.len \in Nat /\ b.len <= Len(d) /\ Len(d) \in Nat
        /\ o \in Nat /\ bytes \in Seq(Nat) /\ o + n <= b.len /\ n \in Nat
        /\ \A k \in 1 .. n : d[o + k] = bytes[k]
    BY DEF Holds
  <1> HIDE DEF d, n
  <1>2. o + 1 \in 1 .. Len(d) + 1 /\ o + n \in (o + 1) - 1 .. Len(d) /\ (o + n) - (o + 1) + 1 = n
    BY <1>1
  <1>3. /\ z \in Seq(Nat) /\ Len(z) = n
        /\ \A k \in 1 .. n : z[k] = d[o + 1 + k - 1]
    <2>1. \A k \in o + 1 .. o + n : d[k] \in Nat
      BY <1>1
    <2>2. o + 1 \in Int /\ o + n \in Int /\ (o + 1 <= o + n <=> 0 < n)
      BY <1>1
    <2>3. /\ z \in Seq(Nat)
          /\ Len(z) = (IF o + 1 <= o + n THEN (o + n) - (o + 1) + 1 ELSE 0)
          /\ \A k \in 1 .. (o + n) - (o + 1) + 1 : z[k] = d[o + 1 + k - 1]
      BY <2>1, <2>2, SubSeqProperties
    <2> HIDE DEF z
    <2> QED
      BY <1>1, <1>2, <2>2, <2>3
  <1> HIDE DEF z
  <1>4. \A k \in 1 .. n : z[k] = bytes[k]
    <2> TAKE k \in 1 .. n
    <2>1. o + 1 + k - 1 = o + k
      BY <1>1
    <2> QED
      BY <1>1, <1>3, <2>1
  <1>5. z = bytes
    BY <1>1, <1>3, <1>4, SeqEqual DEF n
  <1> QED
    BY <1>1, <1>5 DEF z, n, d

LEMMA HoldsBoth ==
  ASSUME NEW b, NEW o, NEW w \in Seq(Nat), NEW r \in Seq(Nat), Holds(b, o, w \o r)
  PROVE  /\ Holds(b, o, w) /\ Holds(b, o + Len(w), r)
         /\ Len(w) \in Nat /\ Len(r) \in Nat /\ Len(w \o r) = Len(w) + Len(r)
  <1> DEFINE B == w \o r
             n == Len(w)
             m == Len(r)
  <1>1. /\ n \in Nat /\ m \in Nat /\ Len(B) = n + m
        /\ \A k \in 1 .. n + m : B[k] = IF k <= n THEN w[k] ELSE r[k - n]
    BY ConcatProperties
  <1> HIDE DEF B
  <1>2. /\ b.data \in Seq(Nat) /\ b.len \in Nat /\ b.len <= Len(b.data)
        /\ o \in Nat /\ o + (n + m) <= b.len
        /\ \A k \in 1 .. n + m : b.data[o + k] = B[k]
    BY <1>1 DEF Holds, B
  <1>3. ASSUME NEW k \in 1 .. n
        PROVE  b.data[o + k] = w[k]
    <2>1. k \in 1 .. n + m /\ k <= n
      BY <1>1
    <2> QED
      BY <1>1, <1>2, <2>1
  <1>4. ASSUME NEW k \in 1 .. m
        PROVE  b.data[o + n + k] = r[k]
    <2>1. n + k \in 1 .. n + m /\ ~ (n + k <= n) /\ (n + k) - n = k /\ o + (n + k) = o + n + k
      BY <1>1, <1>2
    <2>2. b.data[o + (n + k)] = B[n + k] /\ B[n + k] = r[k]
      BY <1>1, <1>2, <2>1
    <2> QED
      BY <2>1, <2>2
  <1>5. o + n <= b.len /\ o + n \in Nat /\ o + n + m <= b.len
    BY <1>1, <1>2
  <1> QED
    BY <1>1, <1>2, <1>3, <1>4, <1>5 DEF Holds, B

\* A prefix that is there is read.
LEMMA PrefixHeld ==
  ASSUME NEW b, NEW o, NEW n, NEW w, w = PutUvarint(n), Holds(b, o, w), ReadsBack(n, Seq(Nat))
  PROVE  /\ ReadUvarint(SubSeq(b.data, o + 1, b.len)) = [n |-> n, c |-> Len(w)]
         /\ Len(w) \in Nat /\ Len(w) > 0 /\ n <= MaxInt
  <1> DEFINE d == b.data
             e == o + Len(w)
             rest == SubSeq(d, e + 1, b.len)
  <1>1. /\ d \in Seq(Nat) /\ b.len \in Nat /\ b.len <= Len(d) /\ Len(d) \in Nat
        /\ o \in Nat /\ w \in Seq(Nat) /\ e <= b.len /\ e \in Nat /\ o <= e
    BY DEF Holds
  <1>2. SubSeq(d, o + 1, e) = w
    BY HoldsIs
  <1> HIDE DEF d, e
  <1>3. rest \in Seq(Nat)
    <2>1. \A k \in e + 1 .. b.len : d[k] \in Nat
      BY <1>1
    <2>2. e + 1 \in Int /\ b.len \in Int
      BY <1>1
    <2> QED
      BY <2>1, <2>2, SubSeqProperties
  <1>4. SubSeq(d, o + 1, b.len) = w \o rest
    <2>1. o + 1 \in 1 .. Len(d) + 1 /\ e \in (o + 1) - 1 .. Len(d) /\ b.len \in e .. Len(d)
      BY <1>1
    <2>2. SubSeq(d, o + 1, e) \o SubSeq(d, e + 1, b.len) = SubSeq(d, o + 1, b.len)
      BY <1>1, <2>1, ConcatAdjacentSubSeq
    <2> QED
      BY <1>2, <2>2
  <1> HIDE DEF rest
  <1>5. /\ n <= MaxInt /\ w # <<>>
        /\ ReadUvarint(w \o rest) = [n |-> n, c |-> Len(w)]
    BY <1>3 DEF ReadsBack
  <1>6. Len(w) \in Nat /\ Len(w) > 0
    BY <1>1, <1>5, NotEmpty
  <1> QED
    BY <1>4, <1>5, <1>6 DEF d

\* What safe mode needs to take the length of x, of which more follows at o.
Covers(W, R, x, b, o, more) == x.t \in R /\ o + SafeProofs!Load(W, more) <= b.len

\* Each element of a slice, and each key of a map, has a byte in the buffer.
LEMMA ElementsTakeBytes ==
  ASSUME NEW Items, NEW depth, NEW rank, NEW W, NEW U, NEW R, NEW B,
         Survivable(Items, depth, rank, W, U, R, B), NEW x \in Items,
         x.t \in R, U[x] = 0, Schema[x.t].kind = "slice"
  PROVE  /\ Len(x.v) \in Nat /\ Len(x.v) <= SafeProofs!Load(W, SafeProofs!ElementsOf(x))
         /\ SafeProofs!Load(W, SafeProofs!ElementsOf(x)) \in Nat
  <1>0. /\ SafeProofs!Encodable(Items, depth, rank) /\ SafeProofs!Weighed(Items, W, U)
        /\ SafeProofs!Trees(Items, depth) /\ W \in [Items -> Nat] /\ U \in [Items -> Nat]
    BY Hypotheses
  <1>b. Schema[x.t].elems[1] \in B
    BY DEF Survivable, LengthsFit
  <1> DEFINE O == SafeProofs!ElementsOf(x)
             n == Len(x.v)
             e == Schema[x.t].elems[1]
  <1>k. Schema[x.t].kind \in { "slice", "array", "pointer" }
    OBVIOUS
  <1>1. /\ n \in Nat /\ Len(O) = n
        /\ \A k \in 1 .. n : O[k] = SafeProofs!Item(e, x.v[k])
    <2>1. SafeProofs!Trees(Items, depth)
      BY <1>0
    <2>2. /\ n \in Nat /\ Len(O) = n
          /\ \A k \in 1 .. n : /\ O[k] = SafeProofs!Item(e, x.v[k])
                             /\ SafeProofs!Item(e, x.v[k]) \in Items
      BY <2>1, <1>k, SafeProofs!ElementsAre
    <2> QED
      BY <2>2
  <1>2. O \in Seq(Items) /\ U[x] = SafeProofs!Load(U, O)
    BY <1>0, SafeProofs!SliceShares DEF SafeProofs!Share
  <1> HIDE DEF O, n
  <1>3. \A k \in 1 .. Len(O) : U[O[k]] = 0
    BY <1>0, <1>2, SafeProofs!NoneWeighs
  <1>4. \A k \in 1 .. Len(O) : O[k] \in Items /\ O[k].t = e
    BY <1>1, <1>2, SafeProofs!ItemOf
  <1>v. \A y \in Items : y.t \in B /\ U[y] = 0 => W[y] > 0
    BY ValueTakesByte
  <1>5. \A k \in 1 .. Len(O) : W[O[k]] > 0
    BY <1>3, <1>4, <1>b, <1>v
  <1>6. Len(O) <= SafeProofs!Load(W, O)
    BY <1>0, <1>2, <1>5, SafeProofs!LoadBounds
  <1>7. SafeProofs!Load(W, O) \in Nat
    BY <1>0, <1>2, SafeProofs!LoadNat
  <1> QED
    BY <1>1, <1>6, <1>7 DEF O, n

LEMMA KeysTakeBytes ==
  ASSUME NEW Items, NEW depth, NEW rank, NEW W, NEW U, NEW R, NEW B,
         Survivable(Items, depth, rank, W, U, R, B), NEW x \in Items,
         x.t \in R, U[x] = 0, Schema[x.t].kind = "map", NEW s \in SafeProofs!SetToSeqs(x.v)
  PROVE  /\ Len(s) \in Nat /\ Len(s) <= SafeProofs!Load(W, SafeProofs!EntriesOf(x, s))
         /\ SafeProofs!Load(W, SafeProofs!EntriesOf(x, s)) \in Nat
  <1>0. /\ SafeProofs!Encodable(Items, depth, rank) /\ SafeProofs!Weighed(Items, W, U)
        /\ SafeProofs!Trees(Items, depth) /\ W \in [Items -> Nat] /\ U \in [Items -> Nat]
    BY Hypotheses
  <1>b. Schema[x.t].elems[1] \in B
    BY DEF Survivable, LengthsFit
  <1> DEFINE O == SafeProofs!EntriesOf(x, s)
             e == Schema[x.t].elems[1]
  <1>1. /\ Len(s) \in Nat /\ Len(O) = 2 * Len(s)
        /\ \A k \in 1 .. Len(s) : O[2 * k - 1] = SafeProofs!Item(e, s[k][1])
    BY <1>0, SafeProofs!EntriesAre
  <1>2. O \in Seq(Items) /\ U[x] = SafeProofs!Load(U, O)
    BY <1>0, SafeProofs!MapShares DEF SafeProofs!Share
  <1> HIDE DEF O
  <1>z. \A k \in 1 .. Len(O) : U[O[k]] = 0
    BY <1>0, <1>2, SafeProofs!NoneWeighs
  <1>3. \A k \in 1 .. Len(O) : U[O[k]] = 0 /\ O[k] \in Items
    BY <1>2, <1>z
  <1>4. ASSUME NEW k \in 1 .. Len(s)
        PROVE  W[SafeProofs!Item(e, s[k][1])] > 0
    <2>1. 2 * k - 1 \in 1 .. Len(O)
      BY <1>1
    <2>2. U[O[2 * k - 1]] = 0 /\ O[2 * k - 1] \in Items /\ O[2 * k - 1].t = e
      BY <1>1, <1>3, <2>1, SafeProofs!ItemOf
    <2>3. \A y \in Items : y.t \in B /\ U[y] = 0 => W[y] > 0
      BY ValueTakesByte
    <2>4. W[O[2 * k - 1]] > 0
      BY <1>b, <2>2, <2>3
    <2> QED
      BY <1>1, <2>4
  <1>5. SafeProofs!KeysHave(W, x, s)
    BY <1>4 DEF SafeProofs!KeysHave
  <1>6. Len(s) <= SafeProofs!Load(W, O)
    BY <1>0, <1>5, SafeProofs!KeysWeigh DEF O
  <1>7. SafeProofs!Load(W, O) \in Nat
    BY <1>0, <1>2, SafeProofs!LoadNat
  <1> QED
    BY <1>1, <1>6, <1>7 DEF O

\* What a step of Unmarshal at c that leaves i at j reads of the buffer b.
ReadsAt(fast, b, c, j) ==
  LET Between(a) == SubSeq(b.data, a + 1, j)
      s == SafeReads!ShapeAt(c)
      p == SafeReads!PrefixAt(b, c)
      after == c.off + p.c
  IN  IF s.kind \in { "fixed", "block" } THEN <<Between(c.off)>>
      ELSE IF s.kind \in { "string", "bytes" } THEN <<Between(after)>>
      ELSE IF s.kind = "slice"
        THEN IF fast /\ s.bulk /\ p.n > 0 THEN <<<<p.n>>>> \o <<Between(after)>> ELSE <<<<p.n>>>>
      ELSE IF s.kind = "array"
        THEN IF fast /\ s.bulk /\ s.size > 0 THEN <<Between(c.off)>> ELSE <<>>
      ELSE IF s.kind = "struct" THEN IF fast /\ s.bulk THEN <<Between(c.off)>> ELSE <<>>
      ELSE IF s.kind = "pointer" THEN <<<<IF b.data[c.off + 1] # 0 THEN 1 ELSE 0>>>>
      ELSE <<<<p.n>>>>

\* Where the buffer holds what a step wrote of x, Unmarshal reads the same parts,
\* and goes on behind the bytes with the types of what the step left to visit.
Found(fast, b, c, x, bytes, more) ==
  /\ SafeReads!Takes(fast, b, c, c.off + Len(bytes), SafeProofs!Kinds(more))
  /\ ReadsAt(fast, b, c, c.off + Len(bytes)) = SafeProofs!PartsOf(fast, x)

\* The expression at c is of the type of x, of which b holds bytes.
At(b, c, x, bytes) == SafeReads!ShapeAt(c) = Schema[x.t] /\ Holds(b, c.off, bytes)

\* The prefix of n, and what follows it.
PrefixThere(b, c, n, w, r) ==
  /\ w \in Seq(Nat) /\ r \in Seq(Nat) /\ w = PutUvarint(n)
  /\ ReadsBack(n, Seq(Nat)) /\ Holds(b, c.off, w \o r)

PrefixTaken(b, c, n, w, r) ==
  /\ SafeReads!PrefixAt(b, c).n = n /\ SafeReads!PrefixAt(b, c).c = Len(w)
  /\ n <= MaxInt /\ Len(w) \in Nat /\ Len(w) > 0 /\ Len(r) \in Nat
  /\ c.off \in Nat /\ c.off + Len(w \o r) = c.off + Len(w) + Len(r)
  /\ SubSeq(b.data, c.off + Len(w) + 1, c.off + Len(w) + Len(r)) = r
  /\ n \in Nat => SafeReads!Prefixed(b, c)

LEMMA PrefixFound ==
  ASSUME NEW b, NEW c, NEW n, NEW w, NEW r, PrefixThere(b, c, n, w, r)
  PROVE  PrefixTaken(b, c, n, w, r)
  <1>0. /\ w \in Seq(Nat) /\ r \in Seq(Nat) /\ w = PutUvarint(n)
        /\ ReadsBack(n, Seq(Nat)) /\ Holds(b, c.off, w \o r)
    BY DEF PrefixThere
  <1>1. /\ Holds(b, c.off, w) /\ Holds(b, c.off + Len(w), r)
        /\ Len(w) \in Nat /\ Len(r) \in Nat /\ Len(w \o r) = Len(w) + Len(r)
    BY <1>0, HoldsBoth
  <1>2. /\ ReadUvarint(SubSeq(b.data, c.off + 1, b.len)) = [n |-> n, c |-> Len(w)]
        /\ Len(w) > 0 /\ n <= MaxInt
    BY <1>0, <1>1, PrefixHeld
  <1>3. SafeReads!PrefixAt(b, c) = [n |-> n, c |-> Len(w)]
    BY <1>2 DEF SafeReads!PrefixAt
  <1>4. SubSeq(b.data, c.off + Len(w) + 1, c.off + Len(w) + Len(r)) = r
    BY <1>1, HoldsIs
  <1>5. c.off \in Nat
    BY <1>1 DEF Holds
  <1>6. c.off + (Len(w) + Len(r)) = c.off + Len(w) + Len(r)
    BY <1>1, <1>5
  <1>7. /\ SafeReads!PrefixAt(b, c).n = n /\ SafeReads!PrefixAt(b, c).c = Len(w)
    BY <1>3
  <1>8. n \in Nat => SafeReads!Prefixed(b, c)
    BY <1>1, <1>2, <1>7 DEF SafeReads!Prefixed
  <1> QED
    BY <1>1, <1>2, <1>4, <1>5, <1>6, <1>7, <1>8 DEF PrefixTaken

LEMMA BasicFound ==
  ASSUME NEW Items, NEW depth, NEW rank, NEW W, NEW U, NEW R, NEW B,
         Survivable(Items, depth, rank, W, U, R, B), NEW x \in Items,
         NEW fast, NEW bytes, NEW more, SafeProofs!BasicTurn(x, bytes, more),
         NEW b, NEW c, At(b, c, x, bytes)
  PROVE  Found(fast, b, c, x, bytes, more)
  <1>0. /\ SafeProofs!Encodable(Items, depth, rank) /\ SafeProofs!Weighed(Items, W, U)
        /\ PrefixesRead(Items, Seq(Nat))
    BY Hypotheses
  <1> DEFINE s == Schema[x.t]
             w == PutUvarint(Len(x.v))
             K == SafeProofs!Kinds(more)
             j == c.off + Len(bytes)
  <1>1. /\ s.kind \in { "fixed", "block" } => x.v \in Seq(Nat) /\ Len(x.v) = s.size
        /\ s.kind \in { "string", "bytes" } => x.v \in Seq(Nat) /\ w \in Seq(Nat)
    BY <1>0, SafeProofs!BasicShares
  <1>2. more = <<>> /\ K = <<>>
    BY SafeProofs!KindsOfNone DEF SafeProofs!BasicTurn
  <1>3. SafeReads!ShapeAt(c) = s /\ Holds(b, c.off, bytes)
    BY DEF At
  <1>4. ASSUME s.kind \in { "fixed", "block" }
        PROVE  /\ SafeReads!TakesBasic(b, c, j, K)
               /\ ReadsAt(fast, b, c, j) = SafeProofs!PartsOf(fast, x)
    <2>1. bytes = x.v
      BY <1>4 DEF SafeProofs!BasicTurn
    <2>2. SubSeq(b.data, c.off + 1, j) = x.v
      BY <1>3, <2>1, HoldsIs
    <2>3. SafeReads!TakesBasic(b, c, j, K)
      BY <1>1, <1>2, <1>3, <1>4, <2>1 DEF SafeReads!TakesBasic
    <2>4. ReadsAt(fast, b, c, j) = <<x.v>>
      BY <1>3, <1>4, <2>2 DEF ReadsAt
    <2>5. SafeProofs!PartsOf(fast, x) = <<x.v>>
      BY <1>4 DEF SafeProofs!PartsOf
    <2> QED
      BY <2>3, <2>4, <2>5
  <1>5. ASSUME s.kind \in { "string", "bytes" }
        PROVE  /\ SafeReads!TakesBasic(b, c, j, K)
               /\ ReadsAt(fast, b, c, j) = SafeProofs!PartsOf(fast, x)
    <2>1. bytes = w \o x.v
      BY <1>5 DEF SafeProofs!BasicTurn
    <2>2. ReadsBack(Len(x.v), Seq(Nat))
      BY <1>0, <1>5, PrefixBack
    <2>3. w \in Seq(Nat) /\ x.v \in Seq(Nat) /\ Len(x.v) \in Nat /\ At(b, c, x, w \o x.v)
      BY <1>1, <1>5, <2>1
    <2>4. /\ SafeReads!PrefixAt(b, c).n = Len(x.v) /\ SafeReads!PrefixAt(b, c).c = Len(w)
          /\ j = c.off + Len(w) + Len(x.v)
          /\ SubSeq(b.data, c.off + Len(w) + 1, c.off + Len(w) + Len(x.v)) = x.v
          /\ SafeReads!Prefixed(b, c)
      <3>1. PrefixThere(b, c, Len(x.v), w, x.v)
        BY <2>2, <2>3 DEF PrefixThere, At
      <3>2. PrefixTaken(b, c, Len(x.v), w, x.v)
        BY <3>1, PrefixFound
      <3> QED
        BY <2>1, <2>3, <3>2 DEF PrefixTaken
    <2> HIDE DEF w, j
    <2>5. SafeReads!TakesBasic(b, c, j, K)
      BY <1>2, <1>3, <1>5, <2>4 DEF SafeReads!TakesBasic
    <2>6. ReadsAt(fast, b, c, j) = <<x.v>>
      BY <1>3, <1>5, <2>4 DEF ReadsAt
    <2>7. SafeProofs!PartsOf(fast, x) = <<x.v>>
      BY <1>5 DEF SafeProofs!PartsOf
    <2> QED
      BY <2>5, <2>6, <2>7
  <1>6. s.kind \in { "fixed", "block" } \/ s.kind \in { "string", "bytes" }
    BY DEF SafeProofs!BasicTurn
  <1> QED
    BY <1>4, <1>5, <1>6 DEF Found, SafeReads!Takes

LEMMA SliceFound ==
  ASSUME NEW Items, NEW depth, NEW rank, NEW W, NEW U, NEW R, NEW B,
         Survivable(Items, depth, rank, W, U, R, B), NEW x \in Items, U[x] = 0,
         NEW fast \in BOOLEAN, NEW bytes, NEW more, SafeProofs!SliceTurn(fast, x, bytes, more),
         NEW b, NEW c, At(b, c, x, bytes),
         ~fast => Covers(W, R, x, b, c.off + Len(bytes), more)
  PROVE  Found(fast, b, c, x, bytes, more)
  <1>0. /\ SafeProofs!Encodable(Items, depth, rank) /\ SafeProofs!Weighed(Items, W, U)
        /\ PrefixesRead(Items, Seq(Nat)) /\ SafeProofs!Trees(Items, depth)
    BY Hypotheses
  <1> DEFINE s == Schema[x.t]
             n == Len(x.v)
             w == PutUvarint(n)
             m == SafeProofs!MemoryOf(x)
             K == SafeProofs!Kinds(more)
             j == c.off + Len(bytes)
  <1>k. s.kind = "slice"
    BY DEF SafeProofs!SliceTurn
  <1>1. w \in Seq(Nat) /\ ReadsBack(n, Seq(Nat))
    BY <1>0, <1>k, SafeProofs!SliceShares, PrefixBack
  <1>2. n \in Nat /\ (n > 0 <=> x.v # <<>>)
    <2>1. n \in Nat /\ x.v = [k \in 1 .. n |-> x.v[k]]
      BY <1>0, <1>k, SafeProofs!ElementsAre
    <2> QED
      BY <2>1
  <1>3. SafeReads!ShapeAt(c) = s /\ Holds(b, c.off, bytes) /\ b.len \in Nat
    BY DEF At, Holds
  <1>4. ASSUME SafeProofs!Copied(fast, x)
        PROVE  Found(fast, b, c, x, bytes, more)
    <2>1. bytes = w \o m /\ more = <<>> /\ fast /\ s.bulk
      BY <1>4 DEF SafeProofs!SliceTurn, SafeProofs!Copied
    <2>2. m \in Seq(Nat) /\ Len(m) = s.raw * n
      BY <1>0, <1>k, <2>1, SafeProofs!MemoryIs
    <2>3. PrefixTaken(b, c, n, w, m)
      BY <1>1, <1>3, <2>1, <2>2, PrefixFound DEF PrefixThere
    <2>4. K = <<>>
      BY <2>1, SafeProofs!KindsOfNone
    <2> HIDE DEF w, n, m, s, K
    <2>5. /\ SafeReads!PrefixAt(b, c).n = n /\ SafeReads!PrefixAt(b, c).c = Len(w)
          /\ j = c.off + Len(w) + Len(m) /\ SafeReads!Prefixed(b, c)
          /\ SubSeq(b.data, c.off + Len(w) + 1, j) = m
      BY <1>2, <2>1, <2>3 DEF PrefixTaken
    <2> HIDE DEF j
    <2>6. SafeReads!TakesSlice(fast, b, c, j, K)
      BY <1>3, <1>k, <2>1, <2>2, <2>4, <2>5 DEF SafeReads!TakesSlice
    <2>7. ReadsAt(fast, b, c, j) = IF n > 0 THEN <<<<n>>>> \o <<m>> ELSE <<<<n>>>>
      BY <1>3, <1>k, <2>1, <2>5 DEF ReadsAt
    <2>8. SafeProofs!PartsOf(fast, x) = IF x.v # <<>> THEN <<<<n>>>> \o <<m>> ELSE <<<<n>>>>
      BY <1>4, <1>k DEF SafeProofs!PartsOf, n, m, s
    <2> QED
      BY <1>2, <2>6, <2>7, <2>8 DEF Found, SafeReads!Takes, j, K
  <1>5. ASSUME ~SafeProofs!Copied(fast, x)
        PROVE  Found(fast, b, c, x, bytes, more)
    <2>1. bytes = w /\ more = SafeProofs!ElementsOf(x) /\ ~ (fast /\ s.bulk)
      BY <1>5 DEF SafeProofs!SliceTurn, SafeProofs!Copied
    <2>2. w \o <<>> = w /\ <<>> \in Seq(Nat)
      BY <1>1
    <2>3. PrefixTaken(b, c, n, w, <<>>)
      BY <1>1, <1>3, <2>1, <2>2, PrefixFound DEF PrefixThere
    <2>4. K = [k \in 1 .. n |-> s.elems[1]]
      BY <1>0, <1>k, <2>1, SafeProofs!KindsOfElements
    <2>5. ASSUME ~fast
          PROVE  j + n <= b.len
      <3>1. x.t \in R /\ j + SafeProofs!Load(W, SafeProofs!ElementsOf(x)) <= b.len
        BY <2>1, <2>5 DEF Covers
      <3>2. /\ n <= SafeProofs!Load(W, SafeProofs!ElementsOf(x))
            /\ SafeProofs!Load(W, SafeProofs!ElementsOf(x)) \in Nat
        BY <1>k, <3>1, ElementsTakeBytes
      <3>3. j \in Nat
        BY <2>1, <2>3 DEF PrefixTaken
      <3> HIDE DEF j, n
      <3> QED
        BY <1>2, <1>3, <3>1, <3>2, <3>3
    <2> HIDE DEF w, n, s, K
    <2>6. /\ SafeReads!PrefixAt(b, c).n = n /\ SafeReads!PrefixAt(b, c).c = Len(w)
          /\ j = c.off + Len(w) /\ SafeReads!Prefixed(b, c)
      BY <1>2, <2>1, <2>3 DEF PrefixTaken
    <2> HIDE DEF j
    <2>7. SafeReads!TakesSlice(fast, b, c, j, K)
      BY <1>3, <1>k, <2>1, <2>4, <2>5, <2>6 DEF SafeReads!TakesSlice
    <2>8. ReadsAt(fast, b, c, j) = <<<<n>>>>
      BY <1>3, <1>k, <2>1, <2>6 DEF ReadsAt
    <2>9. SafeProofs!PartsOf(fast, x) = <<<<n>>>>
      BY <1>5, <1>k DEF SafeProofs!PartsOf, n, s
    <2> QED
      BY <2>7, <2>8, <2>9 DEF Found, SafeReads!Takes, j, K
  <1> QED
    BY <1>4, <1>5

LEMMA ArrayFound ==
  ASSUME NEW Items, NEW depth, NEW rank, NEW W, NEW U, NEW R, NEW B,
         Survivable(Items, depth, rank, W, U, R, B), NEW x \in Items,
         NEW fast \in BOOLEAN, NEW bytes, NEW more, SafeProofs!ArrayTurn(fast, x, bytes, more),
         NEW b, NEW c, At(b, c, x, bytes)
  PROVE  Found(fast, b, c, x, bytes, more)
  <1>0. /\ SafeProofs!Encodable(Items, depth, rank) /\ SafeProofs!Trees(Items, depth)
    BY Hypotheses
  <1> DEFINE s == Schema[x.t]
             n == Len(x.v)
             m == SafeProofs!MemoryOf(x)
             K == SafeProofs!Kinds(more)
             j == c.off + Len(bytes)
  <1>k. s.kind = "array"
    BY DEF SafeProofs!ArrayTurn
  <1>2. n \in Nat /\ n = s.size
    BY <1>0, <1>k, SafeProofs!ElementsAre
  <1>3. SafeReads!ShapeAt(c) = s /\ Holds(b, c.off, bytes) /\ c.off \in Nat
    BY DEF At, Holds
  <1>4. ASSUME SafeProofs!Copied(fast, x), s.size > 0
        PROVE  Found(fast, b, c, x, bytes, more)
    <2>1. bytes = m /\ more = <<>> /\ fast /\ s.bulk
      BY <1>4 DEF SafeProofs!ArrayTurn, SafeProofs!Copied
    <2>2. m \in Seq(Nat) /\ Len(m) = s.raw * n
      BY <1>0, <1>k, <2>1, SafeProofs!MemoryIs
    <2>3. SubSeq(b.data, c.off + 1, j) = m
      <3>1. Holds(b, c.off, bytes)
        BY <1>3
      <3>2. SubSeq(b.data, c.off + 1, j) = bytes
        BY <3>1, HoldsIs
      <3> QED
        BY <2>1, <3>2
    <2>4. K = <<>>
      BY <2>1, SafeProofs!KindsOfNone
    <2>5. SafeProofs!PartsOf(fast, x) = <<m>>
      BY <1>2, <1>4, <1>k DEF SafeProofs!PartsOf
    <2>6. j = c.off + s.raw * s.size
      BY <1>2, <2>1, <2>2
    <2> HIDE DEF n, m, s, K, j
    <2>7. SafeReads!TakesArray(fast, b, c, j, K)
      BY <1>3, <1>4, <1>k, <2>1, <2>4, <2>6 DEF SafeReads!TakesArray
    <2>8. ReadsAt(fast, b, c, j) = <<m>>
      BY <1>3, <1>4, <1>k, <2>1, <2>3 DEF ReadsAt
    <2> QED
      BY <2>5, <2>7, <2>8 DEF Found, SafeReads!Takes, j, K
  <1>5. ASSUME ~ (SafeProofs!Copied(fast, x) /\ s.size > 0)
        PROVE  Found(fast, b, c, x, bytes, more)
    <2>1. bytes = <<>> /\ more = SafeProofs!ElementsOf(x) /\ ~ (fast /\ s.bulk /\ s.size > 0)
      BY <1>5 DEF SafeProofs!ArrayTurn, SafeProofs!Copied
    <2>2. K = [k \in 1 .. s.size |-> s.elems[1]]
      <3>1. K = [k \in 1 .. n |-> s.elems[1]]
        BY <1>0, <1>k, <2>1, SafeProofs!KindsOfElements
      <3> QED
        BY <1>2, <3>1
    <2>3. j = c.off
      BY <1>3, <2>1
    <2>4. SafeProofs!PartsOf(fast, x) = <<>>
      BY <1>2, <1>5, <1>k DEF SafeProofs!PartsOf
    <2> HIDE DEF n, m, s, K, j
    <2>5. SafeReads!TakesArray(fast, b, c, j, K)
      BY <1>3, <1>k, <2>1, <2>2, <2>3 DEF SafeReads!TakesArray
    <2>6. ReadsAt(fast, b, c, j) = <<>>
      BY <1>3, <1>k, <2>1 DEF ReadsAt
    <2> QED
      BY <2>4, <2>5, <2>6 DEF Found, SafeReads!Takes, j, K
  <1> QED
    BY <1>4, <1>5

LEMMA PointerFound ==
  ASSUME NEW Items, NEW depth, NEW rank, NEW W, NEW U, NEW R, NEW B,
         Survivable(Items, depth, rank, W, U, R, B), NEW x \in Items,
         NEW fast \in BOOLEAN, NEW bytes, NEW more, SafeProofs!PointerTurn(x, bytes, more),
         NEW b, NEW c, At(b, c, x, bytes)
  PROVE  Found(fast, b, c, x, bytes, more)
  <1>0. /\ SafeProofs!Schemas /\ SafeProofs!Trees(Items, depth) /\ x.t \in Type
    BY Hypotheses, SafeProofs!ItemIs
  <1> DEFINE s == Schema[x.t]
             n == Len(x.v)
             K == SafeProofs!Kinds(more)
             j == c.off + Len(bytes)
  <1>k. s.kind = "pointer" /\ more = SafeProofs!ElementsOf(x)
    BY DEF SafeProofs!PointerTurn
  <1>1. n \in Nat /\ n <= 1 /\ (n > 0 <=> x.v # <<>>)
    <2>1. n \in Nat /\ n <= 1 /\ x.v = [k \in 1 .. n |-> x.v[k]]
      BY <1>0, <1>k, SafeProofs!ElementsAre
    <2> QED
      BY <2>1
  <1>2. s.elems \in Seq(Type) /\ Len(s.elems) = 1
    BY <1>0, <1>k, SafeProofs!SchemaIs
  <1>3. SafeReads!ShapeAt(c) = s /\ Holds(b, c.off, bytes) /\ c.off \in Nat
    BY DEF At, Holds
  <1>4. Len(bytes) = 1 /\ bytes[1] = n
    BY <1>1 DEF SafeProofs!PointerTurn
  <1>5. b.data[c.off + 1] = n
    <2>1. \A k \in 1 .. Len(bytes) : b.data[c.off + k] = bytes[k]
      BY <1>3 DEF Holds
    <2> QED
      BY <1>4, <2>1
  <1>6. K = [k \in 1 .. n |-> s.elems[1]]
    BY <1>0, <1>k, SafeProofs!KindsOfElements
  <1>7. SafeProofs!PartsOf(fast, x) = <<<<n>>>>
    BY <1>k DEF SafeProofs!PartsOf
  <1>8. j = c.off + 1
    BY <1>4
  <1> HIDE DEF n, s, K, j
  <1>9. K = IF n # 0 THEN s.elems ELSE <<>>
    <2>1. CASE n = 0
      BY <1>6, <2>1
    <2>2. CASE n = 1
      <3>1. K = <<s.elems[1]>>
        BY <1>6, <2>2
      <3> QED
        BY <1>2, <2>2, <3>1
    <2> QED
      BY <1>1, <2>1, <2>2
  <1>10. SafeReads!TakesPointer(b, c, j, K)
    BY <1>3, <1>5, <1>8, <1>9, <1>k DEF SafeReads!TakesPointer
  <1>11. ReadsAt(fast, b, c, j) = <<<<n>>>>
    <2>1. (IF b.data[c.off + 1] # 0 THEN 1 ELSE 0) = n
      BY <1>1, <1>5
    <2> QED
      BY <1>3, <1>k, <2>1 DEF ReadsAt
  <1> QED
    BY <1>7, <1>10, <1>11 DEF Found, SafeReads!Takes, j, K

LEMMA MapFound ==
  ASSUME NEW Items, NEW depth, NEW rank, NEW W, NEW U, NEW R, NEW B,
         Survivable(Items, depth, rank, W, U, R, B), NEW x \in Items, U[x] = 0,
         NEW fast \in BOOLEAN, NEW bytes, NEW more, SafeProofs!MapTurn(x, bytes, more),
         NEW b, NEW c, At(b, c, x, bytes),
         ~fast => Covers(W, R, x, b, c.off + Len(bytes), more)
  PROVE  Found(fast, b, c, x, bytes, more)
  <1>0. /\ SafeProofs!Encodable(Items, depth, rank) /\ SafeProofs!Weighed(Items, W, U)
        /\ PrefixesRead(Items, Seq(Nat)) /\ SafeProofs!Trees(Items, depth)
    BY Hypotheses
  <1> DEFINE s == Schema[x.t]
             n == SafeProofs!Cardinality(x.v)
             w == PutUvarint(n)
             K == SafeProofs!Kinds(more)
             j == c.off + Len(bytes)
  <1>k. s.kind = "map" /\ bytes = w
    BY DEF SafeProofs!MapTurn
  <1>o. PICK o \in SafeProofs!SetToSeqs(x.v) : more = SafeProofs!EntriesOf(x, o)
    BY DEF SafeProofs!MapTurn
  <1>1. w \in Seq(Nat) /\ ReadsBack(n, Seq(Nat))
    <2>1. ReadsBack(n, Seq(Nat))
      BY <1>0, <1>k, PrefixBack
    <2>2. w \in Seq(Nat)
      BY <1>0, <1>k, SafeProofs!PrefixIs
    <2> QED
      BY <2>1, <2>2
  <1>2. n \in Nat /\ Len(o) = n
    <2>1. SafeProofs!IsFiniteSet(x.v)
      BY <1>0, <1>k, <1>o, SafeProofs!EntriesAre
    <2> QED
      BY <2>1, <1>o, SafeProofs!OrderIs
  <1>3. SafeReads!ShapeAt(c) = s /\ Holds(b, c.off, bytes) /\ b.len \in Nat
    BY DEF At, Holds
  <1>4. w \o <<>> = w /\ <<>> \in Seq(Nat)
    BY <1>1
  <1>5. PrefixTaken(b, c, n, w, <<>>)
    BY <1>1, <1>3, <1>4, <1>k, PrefixFound DEF PrefixThere
  <1>6. K = [k \in 1 .. (2 * n) |-> s.elems[2 - (k % 2)]]
    BY <1>0, <1>k, <1>o, SafeProofs!KindsOfEntries
  <1>7. ASSUME ~fast
        PROVE  j + n <= b.len
    <2>1. x.t \in R /\ j + SafeProofs!Load(W, SafeProofs!EntriesOf(x, o)) <= b.len
      BY <1>7, <1>o DEF Covers
    <2>2. /\ Len(o) <= SafeProofs!Load(W, SafeProofs!EntriesOf(x, o))
          /\ SafeProofs!Load(W, SafeProofs!EntriesOf(x, o)) \in Nat
      BY <1>k, <1>o, <2>1, KeysTakeBytes
    <2>3. j \in Nat
      BY <1>k, <1>5 DEF PrefixTaken
    <2> HIDE DEF j, n
    <2> QED
      BY <1>2, <1>3, <2>1, <2>2, <2>3
  <1>8. SafeProofs!PartsOf(fast, x) = <<<<n>>>>
    BY <1>k DEF SafeProofs!PartsOf
  <1> HIDE DEF w, n, s, K
  <1>9. /\ SafeReads!PrefixAt(b, c).n = n /\ SafeReads!PrefixAt(b, c).c = Len(w)
        /\ j = c.off + Len(w) /\ SafeReads!Prefixed(b, c)
    BY <1>2, <1>k, <1>5 DEF PrefixTaken
  <1> HIDE DEF j
  <1>10. K = [k \in 1 .. (2 * n) |-> s.elems[IF k % 2 = 1 THEN 1 ELSE 2]]
    <2>1. \A k \in 1 .. (2 * n) : 2 - (k % 2) = IF k % 2 = 1 THEN 1 ELSE 2
      BY <1>2
    <2> QED
      BY <1>6, <2>1
  <1>11. SafeReads!TakesMap(fast, b, c, j, K)
    BY <1>3, <1>k, <1>7, <1>9, <1>10 DEF SafeReads!TakesMap
  <1>12. ReadsAt(fast, b, c, j) = <<<<n>>>>
    BY <1>3, <1>k, <1>9 DEF ReadsAt
  <1> QED
    BY <1>8, <1>11, <1>12 DEF Found, SafeReads!Takes, j, K

LEMMA UnionFound ==
  ASSUME NEW Items, NEW depth, NEW rank, NEW W, NEW U, NEW R, NEW B,
         Survivable(Items, depth, rank, W, U, R, B), NEW x \in Items,
         NEW fast \in BOOLEAN, NEW bytes, NEW more, SafeProofs!UnionTurn(x, bytes, more),
         NEW b, NEW c, At(b, c, x, bytes)
  PROVE  Found(fast, b, c, x, bytes, more)
  <1>0. /\ SafeProofs!Encodable(Items, depth, rank) /\ PrefixesRead(Items, Seq(Nat))
        /\ SafeProofs!Trees(Items, depth)
    BY Hypotheses
  <1> DEFINE s == Schema[x.t]
             n == x.v[1]
             w == PutUvarint(n)
             K == SafeProofs!Kinds(more)
             j == c.off + Len(bytes)
  <1>k. /\ s.kind = "union" /\ bytes = w /\ n <= Len(s.elems)
        /\ \/ n = 0 /\ more = <<>>
           \/ n # 0 /\ more = SafeProofs!MemberOf(x)
    BY DEF SafeProofs!UnionTurn
  <1>1. w \in Seq(Nat) /\ ReadsBack(n, Seq(Nat))
    <2>1. ReadsBack(n, Seq(Nat))
      BY <1>0, <1>k, PrefixBack
    <2>2. w \in Seq(Nat)
      BY <1>0, <1>k, SafeProofs!PrefixIs
    <2> QED
      BY <2>1, <2>2
  <1>2. n \in Nat
    <2>1. SafeProofs!WellFormed(x)
      BY <1>0, SafeProofs!ItemIs
    <2> QED
      BY <1>k, <2>1 DEF SafeProofs!WellFormed
  <1>3. SafeReads!ShapeAt(c) = s /\ Holds(b, c.off, bytes)
    BY DEF At
  <1>4. w \o <<>> = w /\ <<>> \in Seq(Nat)
    BY <1>1
  <1>5. PrefixTaken(b, c, n, w, <<>>)
    BY <1>1, <1>3, <1>4, <1>k, PrefixFound DEF PrefixThere
  <1>6. \/ n = 0 /\ K = <<>>
        \/ n # 0 /\ K = <<s.elems[n]>>
    BY <1>k, SafeProofs!KindsOfNone, SafeProofs!KindsOfMember
  <1>7. SafeProofs!PartsOf(fast, x) = <<<<n>>>>
    BY <1>k DEF SafeProofs!PartsOf
  <1> HIDE DEF w, n, s, K
  <1>8. /\ SafeReads!PrefixAt(b, c).n = n /\ SafeReads!PrefixAt(b, c).c = Len(w)
        /\ j = c.off + Len(w) /\ SafeReads!Prefixed(b, c)
    BY <1>2, <1>k, <1>5 DEF PrefixTaken
  <1> HIDE DEF j
  <1>9. SafeReads!TakesUnion(b, c, j, K)
    BY <1>3, <1>k, <1>6, <1>8 DEF SafeReads!TakesUnion
  <1>10. ReadsAt(fast, b, c, j) = <<<<n>>>>
    BY <1>3, <1>k, <1>8 DEF ReadsAt
  <1> QED
    BY <1>7, <1>9, <1>10 DEF Found, SafeReads!Takes, j, K

\* A struct that is copied, and one that is not.
LEMMA StructFound ==
  ASSUME NEW Items, NEW depth, NEW rank, NEW W, NEW U, NEW R, NEW B,
         Survivable(Items, depth, rank, W, U, R, B), NEW x \in Items,
         NEW fast \in BOOLEAN, NEW bytes, NEW more, SafeProofs!StructTurn(fast, x, bytes, more),
         NEW b, NEW c, At(b, c, x, bytes)
  PROVE  /\ SafeProofs!Copied(fast, x) => Found(fast, b, c, x, bytes, more)
         /\ ~SafeProofs!Copied(fast, x) =>
              /\ bytes = <<>> /\ SafeProofs!Kinds(more) = Schema[x.t].elems
              /\ SafeProofs!PartsOf(fast, x) = <<>>
  <1>0. /\ SafeProofs!Encodable(Items, depth, rank) /\ SafeProofs!Trees(Items, depth)
        /\ SafeProofs!Schemas
    BY Hypotheses
  <1> DEFINE s == Schema[x.t]
             m == SafeProofs!MemoryOf(x)
             K == SafeProofs!Kinds(more)
             j == c.off + Len(bytes)
  <1>k. s.kind = "struct"
    BY DEF SafeProofs!StructTurn
  <1>3. SafeReads!ShapeAt(c) = s /\ Holds(b, c.off, bytes) /\ c.off \in Nat
    BY DEF At, Holds
  <1>4. ASSUME SafeProofs!Copied(fast, x)
        PROVE  Found(fast, b, c, x, bytes, more)
    <2>1. bytes = m /\ more = <<>> /\ fast /\ s.bulk
      BY <1>4 DEF SafeProofs!StructTurn, SafeProofs!Copied
    <2>2. m \in Seq(Nat) /\ Len(m) = s.raw
      BY <1>0, <1>k, <2>1, SafeProofs!MemoryIs
    <2>3. SubSeq(b.data, c.off + 1, j) = m
      <3>1. Holds(b, c.off, bytes)
        BY <1>3
      <3>2. SubSeq(b.data, c.off + 1, j) = bytes
        BY <3>1, HoldsIs
      <3> QED
        BY <2>1, <3>2
    <2>4. K = <<>>
      BY <2>1, SafeProofs!KindsOfNone
    <2>5. SafeProofs!PartsOf(fast, x) = <<m>>
      BY <1>4, <1>k DEF SafeProofs!PartsOf
    <2>6. j = c.off + s.raw
      BY <2>1, <2>2
    <2> HIDE DEF m, s, K, j
    <2>7. SafeReads!TakesBlock(fast, c, j, K)
      BY <1>3, <1>k, <2>1, <2>4, <2>6 DEF SafeReads!TakesBlock
    <2>8. ReadsAt(fast, b, c, j) = <<m>>
      BY <1>3, <1>k, <2>1, <2>3 DEF ReadsAt
    <2> QED
      BY <2>5, <2>7, <2>8 DEF Found, SafeReads!Takes, j, K
  <1>5. ASSUME ~SafeProofs!Copied(fast, x)
        PROVE  bytes = <<>> /\ K = s.elems /\ SafeProofs!PartsOf(fast, x) = <<>>
    <2>1. bytes = <<>> /\ more = SafeProofs!FieldsOf(x)
      BY <1>5 DEF SafeProofs!StructTurn
    <2>2. K = s.elems
      BY <1>0, <1>k, <2>1, SafeProofs!KindsOfFields
    <2>3. SafeProofs!PartsOf(fast, x) = <<>>
      BY <1>5, <1>k DEF SafeProofs!PartsOf
    <2> QED
      BY <2>1, <2>2, <2>3
  <1> QED
    BY <1>4, <1>5

Calls(fast, x) == Schema[x.t].kind = "struct" /\ ~SafeProofs!Copied(fast, x)

\* What a step of Marshal or Append wrote, Unmarshal finds.
LEMMA TurnFound ==
  ASSUME NEW Items, NEW depth, NEW rank, NEW W, NEW U, NEW R, NEW B,
         Survivable(Items, depth, rank, W, U, R, B), NEW x \in Items, U[x] = 0,
         NEW fast \in BOOLEAN, NEW bytes, NEW more, SafeProofs!Turn(fast, x, bytes, more),
         NEW b, NEW c, At(b, c, x, bytes),
         ~fast => Covers(W, R, x, b, c.off + Len(bytes), more)
  PROVE  /\ ~Calls(fast, x) => Found(fast, b, c, x, bytes, more)
         /\ Calls(fast, x) => /\ bytes = <<>> /\ SafeProofs!Kinds(more) = Schema[x.t].elems
                              /\ SafeProofs!PartsOf(fast, x) = <<>>
  <1> DEFINE s == Schema[x.t]
  <1>1. CASE SafeProofs!BasicTurn(x, bytes, more)
    <2>1. s.kind # "struct"
      BY <1>1 DEF SafeProofs!BasicTurn
    <2> QED
      BY <1>1, <2>1, BasicFound DEF Calls
  <1>2. CASE SafeProofs!SliceTurn(fast, x, bytes, more)
    <2>1. s.kind # "struct"
      BY <1>2 DEF SafeProofs!SliceTurn
    <2> QED
      BY <1>2, <2>1, SliceFound DEF Calls
  <1>3. CASE SafeProofs!ArrayTurn(fast, x, bytes, more)
    <2>1. s.kind # "struct"
      BY <1>3 DEF SafeProofs!ArrayTurn
    <2> QED
      BY <1>3, <2>1, ArrayFound DEF Calls
  <1>4. CASE SafeProofs!PointerTurn(x, bytes, more)
    <2>1. s.kind # "struct"
      BY <1>4 DEF SafeProofs!PointerTurn
    <2> QED
      BY <1>4, <2>1, PointerFound DEF Calls
  <1>5. CASE SafeProofs!MapTurn(x, bytes, more)
    <2>1. s.kind # "struct"
      BY <1>5 DEF SafeProofs!MapTurn
    <2> QED
      BY <1>5, <2>1, MapFound DEF Calls
  <1>6. CASE SafeProofs!UnionTurn(x, bytes, more)
    <2>1. s.kind # "struct"
      BY <1>6 DEF SafeProofs!UnionTurn
    <2> QED
      BY <1>6, <2>1, UnionFound DEF Calls
  <1>7. CASE SafeProofs!StructTurn(fast, x, bytes, more)
    <2>1. s.kind = "struct"
      BY <1>7 DEF SafeProofs!StructTurn
    <2>2. /\ SafeProofs!Copied(fast, x) => Found(fast, b, c, x, bytes, more)
          /\ ~SafeProofs!Copied(fast, x) =>
               /\ bytes = <<>> /\ SafeProofs!Kinds(more) = Schema[x.t].elems
               /\ SafeProofs!PartsOf(fast, x) = <<>>
      BY <1>7, StructFound
    <2> QED
      BY <2>1, <2>2 DEF Calls
  <1> QED
    BY <1>1, <1>2, <1>3, <1>4, <1>5, <1>6, <1>7 DEF SafeProofs!Turn

\* A set of types with all they are made of.
Closed(S) ==
  S \subseteq Type /\ \A t \in S : \A k \in DOMAIN Schema[t].elems : Schema[t].elems[k] \in S

\* What is left of a value of a type in S is of types in S.
LEMMA KindsClosed ==
  ASSUME NEW Items, NEW depth, NEW rank, SafeProofs!Encodable(Items, depth, rank),
         NEW S, Closed(S), NEW x \in Items, x.t \in S,
         NEW fast, NEW bytes, NEW more, SafeProofs!Turn(fast, x, bytes, more)
  PROVE  SafeProofs!Kinds(more) \in Seq(S)
  <1>0. /\ SafeProofs!Schemas /\ SafeProofs!Trees(Items, depth) /\ x.t \in Type
        /\ SafeProofs!WellFormed(x)
    BY SafeProofs!ItemIs DEF SafeProofs!Encodable
  <1> DEFINE s == Schema[x.t]
             e == s.elems
  <1>1. e \in Seq(Type) /\ (\A k \in DOMAIN e : e[k] \in S) /\ e \in Seq(S)
    <2>1. e \in Seq(Type) /\ (\A k \in DOMAIN e : e[k] \in S)
      BY <1>0, SafeProofs!SchemaIs DEF Closed
    <2> HIDE DEF e
    <2> QED
      BY <2>1
  <1>2. ASSUME more = << >>
        PROVE  SafeProofs!Kinds(more) \in Seq(S)
    <2>1. SafeProofs!Kinds(more) = << >>
      BY <1>2, SafeProofs!KindsOfNone
    <2> QED
      BY <2>1
  <1>3. ASSUME s.kind \in { "slice", "array", "pointer" }, more = SafeProofs!ElementsOf(x)
        PROVE  SafeProofs!Kinds(more) \in Seq(S)
    <2>1. SafeProofs!Kinds(more) = [k \in 1 .. Len(x.v) |-> e[1]]
      BY <1>0, <1>3, SafeProofs!KindsOfElements
    <2>2. Len(x.v) \in Nat
      BY <1>0, <1>3, SafeProofs!ElementsAre
    <2>3. Len(e) = 1
      BY <1>0, <1>3, SafeProofs!SchemaIs
    <2> HIDE DEF e
    <2>4. e[1] \in S
      BY <1>1, <2>3
    <2> QED
      BY <2>1, <2>2, <2>4
  <1>4. ASSUME s.kind = "struct", more = SafeProofs!FieldsOf(x)
        PROVE  SafeProofs!Kinds(more) \in Seq(S)
    BY <1>0, <1>1, <1>4, SafeProofs!KindsOfFields
  <1>5. ASSUME SafeProofs!MapTurn(x, bytes, more)
        PROVE  SafeProofs!Kinds(more) \in Seq(S)
    <2>k. s.kind = "map"
      BY <1>5 DEF SafeProofs!MapTurn
    <2>o. PICK o \in SafeProofs!SetToSeqs(x.v) : more = SafeProofs!EntriesOf(x, o)
      BY <1>5 DEF SafeProofs!MapTurn
    <2> DEFINE n == SafeProofs!Cardinality(x.v)
    <2>1. n \in Nat /\ SafeProofs!Kinds(more) = [k \in 1 .. (2 * n) |-> e[2 - (k % 2)]]
      BY <1>0, <2>k, <2>o, SafeProofs!KindsOfEntries
    <2>2. Len(e) = 2
      BY <1>0, <2>k DEF SafeProofs!Schemas
    <2> HIDE DEF n, e
    <2>3. e[1] \in S /\ e[2] \in S
      BY <1>1, <2>2
    <2>4. \A k \in 1 .. (2 * n) : e[2 - (k % 2)] \in S
      <3> TAKE k \in 1 .. (2 * n)
      <3>1. 2 - (k % 2) = 1 \/ 2 - (k % 2) = 2
        BY <2>1
      <3> QED
        BY <2>3, <3>1
    <2> QED
      BY <2>1, <2>4
  <1>6. ASSUME SafeProofs!UnionTurn(x, bytes, more)
        PROVE  SafeProofs!Kinds(more) \in Seq(S)
    <2>1. /\ s.kind = "union" /\ x.v[1] <= Len(e)
          /\ more = << >> \/ (x.v[1] # 0 /\ more = SafeProofs!MemberOf(x))
      BY <1>6 DEF SafeProofs!UnionTurn
    <2>2. x.v[1] \in Nat
      BY <1>0, <2>1 DEF SafeProofs!WellFormed
    <2>3. ASSUME x.v[1] # 0, more = SafeProofs!MemberOf(x)
          PROVE  SafeProofs!Kinds(more) \in Seq(S)
      <3>1. SafeProofs!Kinds(more) = <<e[x.v[1]]>>
        BY <2>3, SafeProofs!KindsOfMember
      <3> HIDE DEF e
      <3>2. e[x.v[1]] \in S
        BY <1>1, <2>1, <2>2, <2>3
      <3> QED
        BY <3>1, <3>2
    <2> QED
      BY <1>2, <2>1, <2>3
  <1>7. \/ more = << >>
        \/ s.kind \in { "slice", "array", "pointer" } /\ more = SafeProofs!ElementsOf(x)
        \/ s.kind = "struct" /\ more = SafeProofs!FieldsOf(x)
        \/ SafeProofs!MapTurn(x, bytes, more) \/ SafeProofs!UnionTurn(x, bytes, more)
    BY DEF SafeProofs!Turn, SafeProofs!BasicTurn, SafeProofs!SliceTurn, SafeProofs!ArrayTurn,
           SafeProofs!StructTurn, SafeProofs!PointerTurn
  <1> QED
    BY <1>2, <1>3, <1>4, <1>5, <1>6, <1>7

=============================================================================
