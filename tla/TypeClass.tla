----------------------------- MODULE TypeClass -----------------------------
(***************************************************************************)
(* How goserdegen classifies the types of a package: which branch of the   *)
(* emitters a type takes, and which values fast mode copies as a block of  *)
(* memory.  A declaration says what go/types does of a type:               *)
(*   of      "basic", "string", "time", "slice", "array", "pointer",       *)
(*           "map", "struct", "interface" or "other", its underlying type  *)
(*   width   of a basic, the bytes the emitters write                      *)
(*   memory  of a basic, the bytes it takes in memory                      *)
(*   word    it is int or uint: its memory is up to the platform           *)
(*   byte    it is byte itself, not a named type                           *)
(*   len     of an array                                                   *)
(*   elems   the element; key and value; all the fields; the members of a  *)
(*           union, none of another interface                              *)
(*   skip    the fields that are unexported or tagged goserde:"-"          *)
(* Padding is left out: a struct takes the bytes of its fields.            *)
(***************************************************************************)
EXTENDS Integers, Sequences, FiniteSets

CONSTANTS
  Go,      \* the declarations of a package, by type
  Marked,  \* the structs with the directive
  UserOwned    \* those whose codec the user has written

GoType == DOMAIN Go

Elem(t) == Go[t].elems[1]

\* The types of the fields that are serialized, in order.
FieldsOf(t) ==
  LET from[k \in 1 .. Len(Go[t].elems) + 1] ==
        IF k > Len(Go[t].elems) THEN << >>
        ELSE (IF k \in Go[t].skip THEN << >> ELSE <<Go[t].elems[k]>>) \o from[k + 1]
  IN  from[1]

IsBytes(t) == Go[t].of = "slice" /\ Go[Elem(t)].byte

IsByteArray(t) == Go[t].of = "array" /\ Go[Elem(t)].byte

NoSize == -1

FixedSize[t \in GoType] ==
  CASE Go[t].of \in { "basic", "time" } -> Go[t].width
    [] Go[t].of = "array" ->
         IF FixedSize[Elem(t)] = NoSize THEN NoSize ELSE Go[t].len * FixedSize[Elem(t)]
    [] OTHER -> NoSize

\* Mutant: int and uint are taken to be as wide in memory as on the wire.
MemCopyableWord(t) ==
  LET copyable[u \in GoType] ==
        \/ Go[u].of = "basic"
        \/ Go[u].of = "array" /\ copyable[Elem(u)]
  IN  copyable[t]

MemCopyable(t) ==
  LET copyable[u \in GoType] ==
        \/ Go[u].of = "basic" /\ ~Go[u].word
        \/ Go[u].of = "array" /\ copyable[Elem(u)]
  IN  copyable[t]

IsFixedWidth[t \in GoType] ==
  \/ Go[t].of = "basic"
  \/ Go[t].of = "array" /\ IsFixedWidth[Elem(t)]

\* Mutant: the fields that are not serialized are forgotten.
BlittableUncovered(t) ==
  /\ Go[t].of = "struct"
  /\ FieldsOf(t) # << >>
  /\ \A k \in DOMAIN FieldsOf(t) : IsFixedWidth[FieldsOf(t)[k]]

\* The serialized fields are all of the struct, and fixed-width.
Blittable(t) ==
  /\ Go[t].of = "struct"
  /\ FieldsOf(t) # << >> /\ Len(FieldsOf(t)) = Len(Go[t].elems)
  /\ \A k \in DOMAIN FieldsOf(t) : IsFixedWidth[FieldsOf(t)[k]]

BlitElem(t) == Blittable(t) /\ t \notin UserOwned

\* unsafe.Sizeof
SizeOf[t \in GoType] ==
  CASE Go[t].of = "array" -> Go[t].len * SizeOf[Elem(t)]
    [] Go[t].of = "struct" ->
         LET upTo[k \in 0 .. Len(Go[t].elems)] ==
               IF k = 0 THEN 0 ELSE upTo[k - 1] + SizeOf[Go[t].elems[k]]
         IN  upTo[Len(Go[t].elems)]
    [] OTHER -> Go[t].memory

-----------------------------------------------------------------------------
(***************************************************************************)
(* Which packages are accepted.                                            *)
(***************************************************************************)
\* Mutant: the key of a map is not looked at.
SupportedButKeys(t) ==
  LET ok[u \in GoType] ==
        CASE Go[u].of \in { "basic", "string", "time" } -> TRUE
          [] Go[u].of \in { "slice", "array", "pointer" } -> ok[Elem(u)]
          [] Go[u].of = "map" -> ok[Go[u].elems[2]]
          [] Go[u].of = "struct" -> u \in Marked
          [] Go[u].of = "interface" -> Go[u].elems # << >>
          [] OTHER -> FALSE
  IN  ok[t]

Supported(t) ==
  LET ok[u \in GoType] ==
        CASE Go[u].of \in { "basic", "string", "time" } -> TRUE
          [] Go[u].of \in { "slice", "array", "pointer" } -> ok[Elem(u)]
          [] Go[u].of = "map" -> ok[Elem(u)] /\ ok[Go[u].elems[2]]
          [] Go[u].of = "struct" -> u \in Marked
          [] Go[u].of = "interface" -> Go[u].elems # << >>
          [] OTHER -> FALSE
  IN  ok[t]

UnionsResolve ==
  \A t \in GoType : Go[t].of = "interface" =>
    \A k \in DOMAIN Go[t].elems : Go[t].elems[k] \in Marked

Generated == Marked \ UserOwned

Generates ==
  /\ Marked # {}
  /\ UnionsResolve
  /\ \A t \in Generated : \A k \in DOMAIN FieldsOf(t) : Supported(FieldsOf(t)[k])

-----------------------------------------------------------------------------
\* The branch of the emitters.
Kind(t) ==
  CASE Go[t].of \in { "basic", "time" } -> "fixed"
    [] Go[t].of = "slice" -> IF IsBytes(t) THEN "bytes" ELSE "slice"
    [] Go[t].of = "array" -> IF IsByteArray(t) THEN "block" ELSE "array"
    [] Go[t].of = "struct" -> IF t \in UserOwned THEN "owned" ELSE "struct"
    [] Go[t].of = "interface" -> "union"
    [] OTHER -> Go[t].of

\* The block of memory fast mode copies, per element or for the whole struct.
Raw(t) ==
  CASE Kind(t) \in { "slice", "array" } /\ MemCopyable(Elem(t)) -> FixedSize[Elem(t)]
    [] Kind(t) \in { "slice", "array" } /\ BlitElem(Elem(t)) -> SizeOf[Elem(t)]
    [] Kind(t) = "struct" /\ Blittable(t) -> SizeOf[t]
    [] OTHER -> 0

\* The shape of t in Encoder and Decoder.
ShapeOf(t) ==
  [kind  |-> Kind(t),
   size  |-> CASE Kind(t) = "fixed" -> Go[t].width
               [] Kind(t) \in { "array", "block" } -> Go[t].len
               [] OTHER -> 0,
   elems |-> CASE Kind(t) = "struct" -> FieldsOf(t)
               [] Kind(t) \in { "fixed", "bytes", "block", "owned" } -> << >>
               [] OTHER -> Go[t].elems,
   bulk  |-> Raw(t) > 0,
   raw   |-> Raw(t)]

\* A block of elements is what the loop over the elements writes: each takes
\* as many bytes in memory as on the wire, on every platform.
BlockIsWire(t) ==
  Kind(t) \in { "slice", "array" } /\ MemCopyable(Elem(t)) =>
    FixedSize[Elem(t)] = SizeOf[Elem(t)]

\* The values the methods of the generated structs visit themselves.
Visited ==
  LET Parts(t) == { Go[t].elems[k] : k \in DOMAIN Go[t].elems }
      Wraps(t) == Go[t].of \in { "slice", "array", "pointer", "map" }
      fields == UNION { { FieldsOf(t)[k] : k \in DOMAIN FieldsOf(t) } : t \in Generated }
      within[n \in Nat] ==
        IF n = 0 THEN fields
        ELSE LET from == within[n - 1]
             IN  from \cup UNION { Parts(t) : t \in { u \in from : Wraps(u) } }
  IN  within[Cardinality(GoType)]

\* The generator succeeds exactly on the packages it has a branch of the
\* emitters for: every struct and union member a method delegates to has the
\* method, and nothing visited is of a type without a codec.
AcceptedIsHandled ==
  Generates <=>
    /\ Marked # {} /\ UnionsResolve
    /\ \A t \in Visited :
         /\ Go[t].of # "other"
         /\ Go[t].of = "struct" => t \in Marked
         /\ Go[t].of = "interface" => Len(Go[t].elems) > 0

-----------------------------------------------------------------------------
(***************************************************************************)
(* The terms of what GeneratorProofs says of the shapes of every package.  *)
(***************************************************************************)
\* A declaration names declared types.
Declarations ==
  \A t \in GoType :
    /\ Go[t].elems \in Seq(GoType)
    /\ Go[t].of \in { "slice", "array" } => Elem(t) \in GoType

\* The structs with a field that is not serialized.
Skipping ==
  { t \in GoType : Go[t].of = "struct" /\ Go[t].skip \cap DOMAIN Go[t].elems # {} }
=============================================================================
