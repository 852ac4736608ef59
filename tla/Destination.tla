---------------------------- MODULE Destination ----------------------------
(***************************************************************************)
(* What Unmarshal leaves in memory when one variable is decoded into over  *)
(* and over.  Slices, maps, pointees and union members of the destination  *)
(* are reused, and in fast mode strings and []byte are views of the input. *)
(*                                                                         *)
(* Decoder says what is read and where the method goes next; here each of  *)
(* its steps also stores what it has read.  It does so in two memories in  *)
(* lockstep: "used", whose destination the user keeps, and "fresh", whose  *)
(* destination is a zero value at each call.                               *)
(***************************************************************************)
EXTENDS Integers, Sequences

CONSTANTS
  Type, Schema, MaxInt, ReadUvarint(_),  \* as in Decoder
  Roots,       \* the types of the variable decoded into
  Excluded,    \* the structs that have a field tagged goserde:"-"
  Messages,    \* for each mode (TRUE is safe) and root, the messages decoded
  Buffers,     \* for each mode and root, what the buffers they are in may hold
  MaxCalls     \* bound on the calls of Unmarshal

ASSUME MaxCallsAssumption == MaxCalls \in Nat
ASSUME MaxIntAssumption == MaxInt \in Nat

\* A message written over the start of a buffer leaves the rest as it was.
Over(msg, held) == msg \o SubSeq(held, Len(msg) + 1, Len(held))

\* A message fills a buffer of its own or the start of a longer one.
ASSUME BuffersAssumption ==
  \A s \in BOOLEAN : \A t \in Roots :
    /\ Messages[s][t] \subseteq Buffers[s][t]
    /\ \A held \in Buffers[s][t] :
         /\ held \in Seq(Nat) /\ Len(held) <= MaxInt
         /\ \A msg \in Messages[s][t] :
              Len(msg) <= Len(held) => Over(msg, held) \in Buffers[s][t]

\* The arguments of Unmarshal.
Given ==
  { [data |-> d, len |-> n] :
      d \in UNION { Buffers[s][t] : s \in BOOLEAN, t \in Roots }, n \in 0 .. MaxInt }

Input == { x \in Given : x.len <= Len(x.data) }

VARIABLES
  root, in, base, off, todo, callers, phase, err, made, raised,  \* of Decoder
  safe,    \* the mode of the package
  mem,     \* the two memories
  input,   \* the byte array the last message was in
  calls,   \* calls of Unmarshal so far
  edited   \* the user has changed the variable since the last call

decoder == <<root, in, base, off, todo, callers, phase, err, made, raised>>
user == <<safe, input, calls, edited>>
vars == <<decoder, mem, user>>

DecSafe == INSTANCE Decoder WITH Safe <- TRUE
DecFast == INSTANCE Decoder WITH Safe <- FALSE

ASSUME DecoderAssumption ==
  /\ DecSafe!SchemaAssumption
  /\ DecSafe!RootsAssumption
  /\ DecSafe!UvarintAssumption

Step == \/ safe /\ DecSafe!Next
        \/ ~safe /\ DecFast!Next

This == DecSafe!This
Count == DecSafe!Prefix.n
Start == DecSafe!AfterPrefix
Bulk == ~safe /\ This.bulk

-----------------------------------------------------------------------------
(***************************************************************************)
(* Memory.  A location is an object and a path into it: fields count from  *)
(* 1, elements from 0, and -1 is the field that is excluded.  Objects are  *)
(* numbered from 1, the variable; input buffers are negative and 0 is nil. *)
(*                                                                         *)
(* raw     : the bytes at a location, or of the byte array <<obj>>         *)
(* refs    : what a string, []byte, slice, pointer, map or union refers to *)
(*           that is of a type and at a location                           *)
(* entries : the pairs of key and value objects of a map                   *)
(* next    : the next object to allocate                                   *)
(* dest    : where each expression of todo goes                            *)
(* after   : the assignments to make after one of them, with the number of *)
(*           expressions that are left then                                *)
(* waiting : dest and after of the methods that wait                       *)
(***************************************************************************)
\* f updated and extended by g, or by one value.
Updated(f, g) ==
  [x \in DOMAIN f \cup DOMAIN g |-> IF x \in DOMAIN g THEN g[x] ELSE f[x]]

With(f, x, v) == Updated(f, [y \in { x } |-> v])

Ref(o, lo, n, cap, tag) == [obj |-> o, lo |-> lo, n |-> n, cap |-> cap, tag |-> tag]

Nil == Ref(0, 0, 0, 0, 0)

\* m[k] = v, and ref = v
Entry(left, m, k, v) == [is |-> "entry", left |-> left, of |-> m, key |-> k, val |-> v]
Member(left, place, r) == [is |-> "member", left |-> left, at |-> place, ref |-> r]

World == { "used", "fresh" }

Variable == <<1>>

Zeroed(o, bytes) ==
  [raw |-> [l \in { <<o>> } |-> bytes], refs |-> << >>, entries |-> << >>, next |-> 2,
   dest |-> <<Variable>>, after |-> << >>, waiting |-> << >>]

\* The variable at hand: its location, and its type with it.
At(m) == Head(m.dest)
Place(m) == <<Head(todo), At(m)>>

\* What the variable of type t at l refers to.
RefAt(m, t, l) == IF <<t, l>> \in DOMAIN m.refs THEN m.refs[<<t, l>>] ELSE Nil

Old(m) == RefAt(m, Head(todo), At(m))

\* The expressions that follow the one at hand.
Rest(m) == Len(m.dest) - 1

BytesOf(m, r) ==
  IF r.n = 0 THEN << >> ELSE SubSeq(m.raw[<<r.obj>>], r.lo + 1, r.lo + r.n)

\* The bytes from o to p of the buffer being decoded.
Between(o, p) == SubSeq(in.data, o + 1, p)

Payload == Between(Start, Start + Count)

Then(m, more) == [m EXCEPT !.dest = more \o Tail(@)]

\* The variable at hand is assigned r; what r holds is decoded next.
Point(m, r, more) == Then([m EXCEPT !.refs = With(@, Place(m), r)], more)

Await(m, assignments) == [m EXCEPT !.after = assignments \o @]

Put(m, l, bytes) == [m EXCEPT !.raw = With(@, l, bytes)]

Alloc(m, n) == [m EXCEPT !.next = @ + n]

\* Blocks of memory are overwritten whole, with what lies in them.
Copy(m, blocks) ==
  LET Covered(k) == \E n \in 1 .. Len(k) - 1 : SubSeq(k, 1, n) \in DOMAIN blocks
  IN  [m EXCEPT !.raw = Updated([k \in { j \in DOMAIN @ : ~Covered(j) } |-> @[k]], blocks)]

\* Elements at the locations of l, copied from o on.
Elements(l, o) ==
  [x \in { l[k] : k \in DOMAIN l } |->
     LET k == CHOOSE k \in DOMAIN l : l[k] = x
     IN  Between(o + (k - 1) * This.raw, o + k * This.raw)]

-----------------------------------------------------------------------------
(***************************************************************************)
(* What each branch of unmarshalExpr stores.                               *)
(***************************************************************************)
StoreBasic(m) == Then(Put(m, At(m), Between(off, off + This.size)), << >>)

\* A string or []byte that aliases the input; its capacity is all of the rest.
View(m) == Point(m, Ref(input, Start, Count, Len(in.data) - Start, 0), << >>)

\* A copy of the payload in an array of its own.
Own(m) ==
  Point(Alloc(Put(m, <<m.next>>, Payload), 1), Ref(m.next, 0, Count, Count, 0), << >>)

\* Mutant: B2S in safe mode too.
StoreStringAliased(m) == IF Count = 0 THEN Point(m, Nil, << >>) ELSE View(m)

StoreString(m) ==
  CASE Count = 0 -> Point(m, Nil, << >>)
    [] Count > 0 /\ safe -> Own(m)
    [] Count > 0 /\ ~safe -> View(m)

\* append(ref[:0], payload...) where the capacity suffices
AppendInPlace(m) ==
  LET r == Old(m)
      array == m.raw[<<r.obj>>]
      over == [k \in DOMAIN array |->
                 IF k - r.lo \in DOMAIN Payload THEN Payload[k - r.lo] ELSE array[k]]
  IN  Point(Put(m, <<r.obj>>, over), [r EXCEPT !.n = Count], << >>)

\* Mutant: fast mode reuses the capacity of what it has decoded before.
StoreBytesAppended(m) ==
  CASE Count = 0 -> Point(m, Nil, << >>)
    [] Count > 0 /\ Old(m).cap >= Count -> AppendInPlace(m)
    [] Count > 0 /\ Old(m).cap < Count -> IF safe THEN Own(m) ELSE View(m)

StoreBytes(m) ==
  CASE Count = 0 -> Point(m, Nil, << >>)
    [] Count > 0 /\ safe /\ Old(m).cap >= Count -> AppendInPlace(m)
    [] Count > 0 /\ safe /\ Old(m).cap < Count -> Own(m)
    [] Count > 0 /\ ~safe -> View(m)

\* The backing array is reused up to its capacity, whatever was left in it.
StoreSlice(m) ==
  LET fits == Old(m).cap >= Count
      r == IF fits THEN [Old(m) EXCEPT !.n = Count] ELSE Ref(m.next, 0, Count, Count, 0)
      made1 == IF fits THEN m ELSE Alloc(m, 1)
      at == [k \in 1 .. Count |-> <<r.obj, r.lo + k - 1>>]
  IN  CASE Count = 0 -> Point(m, Nil, << >>)
        [] Count > 0 /\ Bulk -> Point(Copy(made1, Elements(at, Start)), r, << >>)
        [] Count > 0 /\ ~Bulk -> Point(made1, r, at)

StoreArray(m) ==
  LET at == [k \in 1 .. This.size |-> At(m) \o <<k>>]
  IN  IF Bulk THEN Then(Copy(m, Elements(at, off)), << >>) ELSE Then(m, at)

\* Mutant: one pointee is allocated for all the pointers of a loop.
StorePointerShared(m) ==
  LET r == IF Old(m) # Nil THEN Old(m) ELSE Ref(m.next, 0, 0, 0, 0)
  IN  IF in.data[off + 1] = 0 THEN Point(m, Nil, << >>)
      ELSE Point(m, r, << <<r.obj>> >>)

StorePointer(m) ==
  LET reused == Old(m) # Nil
      r == IF reused THEN Old(m) ELSE Ref(m.next, 0, 0, 0, 0)
  IN  IF in.data[off + 1] = 0 THEN Point(m, Nil, << >>)
      ELSE Point(IF reused THEN m ELSE Alloc(m, 1), r, << <<r.obj>> >>)

\* Mutant: a reused map is not cleared.
StoreMapKept(m) ==
  LET r == IF Old(m) # Nil THEN Old(m) ELSE Ref(m.next, 0, 0, 0, 0)
      first == IF Old(m) # Nil THEN m.next ELSE m.next + 1
      variables == [j \in 1 .. 2 * Count |-> <<first + j - 1>>]
      assignments ==
        [k \in 1 .. Count |-> Entry(Rest(m) + 2 * (Count - k), r.obj,
                                    <<This.elems[1], variables[2 * k - 1]>>, variables[2 * k])]
      kept == [m EXCEPT !.entries = Updated([o \in { r.obj } |-> {}], @), !.next = first + 2 * Count]
  IN  IF Count = 0 THEN Point(m, Nil, << >>)
      ELSE Point(Await(kept, assignments), r, variables)

\* clear or make; each iteration has a key and a value variable of its own.
StoreMap(m) ==
  LET r == IF Old(m) # Nil THEN Old(m) ELSE Ref(m.next, 0, 0, 0, 0)
      first == IF Old(m) # Nil THEN m.next ELSE m.next + 1
      variables == [j \in 1 .. 2 * Count |-> <<first + j - 1>>]
      assignments ==
        [k \in 1 .. Count |-> Entry(Rest(m) + 2 * (Count - k), r.obj,
                                    <<This.elems[1], variables[2 * k - 1]>>, variables[2 * k])]
      cleared == [m EXCEPT !.entries = With(@, r.obj, {}), !.next = first + 2 * Count]
  IN  IF Count = 0 THEN Point(m, Nil, << >>)
      ELSE Point(Await(cleared, assignments), r, variables)

\* The member is decoded into first and assigned to the field after that.
StoreUnion(m) ==
  LET reused == Old(m).tag = Count
      v == IF reused THEN Old(m).obj ELSE m.next
      assignment == Member(Rest(m), Place(m), Ref(v, 0, 0, 0, Count))
  IN  IF Count = 0 THEN Point(m, Nil, << >>)
      ELSE Then(Await(IF reused THEN m ELSE Alloc(m, 1), <<assignment>>), << <<v>> >>)

\* copy(r, b) stops where b ends: the rest of the struct keeps what it held.
StoreBlock(m) ==
  LET end == IF in.len < off + This.raw THEN in.len ELSE off + This.raw
      held == IF At(m) \in DOMAIN m.raw THEN m.raw[At(m)] ELSE [k \in 1 .. This.raw |-> 0]
      block == Between(off, end) \o SubSeq(held, end - off + 1, This.raw)
  IN  Then(Copy(m, [l \in { At(m) } |-> block]), << >>)

\* What a hand-written codec stores is left out.
Stored(m) ==
  CASE This.kind \in { "fixed", "block" } -> StoreBasic(m)
    [] This.kind = "string" -> StoreString(m)
    [] This.kind = "bytes" -> StoreBytes(m)
    [] This.kind = "slice" -> StoreSlice(m)
    [] This.kind = "array" -> StoreArray(m)
    [] This.kind = "pointer" -> StorePointer(m)
    [] This.kind = "map" -> StoreMap(m)
    [] This.kind = "union" -> StoreUnion(m)
    [] This.kind = "struct" -> StoreBlock(m)
    [] This.kind = "owned" -> Then(m, << >>)

\* Keys are basics or strings.
KeyOf(m, key) ==
  IF key \in DOMAIN m.refs THEN BytesOf(m, m.refs[key]) ELSE m.raw[key[2]]

Assigned(m) ==
  LET a == Head(m.after)
      rest == [m EXCEPT !.after = Tail(@)]
  IN  IF a.is = "entry"
      THEN [rest EXCEPT !.entries[a.of] =
              { e \in @ : KeyOf(m, e[1]) # KeyOf(m, a.key) } \cup { <<a.key, a.val>> }]
      ELSE [rest EXCEPT !.refs = With(@, a.at, a.ref)]

\* Mutant: the method starts with *r = T{}.
EnteredZeroed(m) ==
  LET Inside(l) == Len(l) > Len(At(m)) /\ SubSeq(l, 1, Len(At(m))) = At(m)
  IN  [m EXCEPT !.dest = [k \in 1 .. Len(This.elems) |-> At(m) \o <<k>>],
                !.after = << >>,
                !.waiting = <<[dest |-> Tail(m.dest), after |-> m.after]>> \o @,
                !.raw = [l \in { k \in DOMAIN @ : ~Inside(k) } |-> @[l]]]

Entered(m) ==
  [m EXCEPT !.dest = [k \in 1 .. Len(This.elems) |-> At(m) \o <<k>>],
            !.after = << >>,
            !.waiting = <<[dest |-> Tail(m.dest), after |-> m.after]>> \o @]

Left(m) ==
  [m EXCEPT !.dest = Head(m.waiting).dest, !.after = Head(m.waiting).after,
            !.waiting = Tail(@)]

-----------------------------------------------------------------------------
(***************************************************************************)
(* Steps of Unmarshal.                                                     *)
(***************************************************************************)
\* An assignment that follows what was decoded last.
Due ==
  LET a == mem["used"].after
  IN  phase = "run" /\ a # << >> /\ Head(a).left = Len(todo)

Assign ==
  /\ Due
  /\ mem' = [w \in World |-> Assigned(mem[w])]
  /\ UNCHANGED <<decoder, user>>

Store ==
  /\ phase = "run" /\ todo # << >> /\ ~Due /\ Step
  /\ phase' = "run" /\ callers' = callers
  /\ mem' = [w \in World |-> Stored(mem[w])]
  /\ UNCHANGED user

Enter ==
  /\ phase = "run" /\ todo # << >> /\ This.kind = "struct" /\ ~Due /\ Step
  /\ Len(callers') > Len(callers)
  /\ mem' = [w \in World |-> Entered(mem[w])]
  /\ UNCHANGED user

Leave ==
  /\ (phase = "run" /\ todo = << >>) \/ phase = "failed"
  /\ ~Due /\ Step
  /\ Len(callers') < Len(callers)
  /\ mem' = [w \in World |-> Left(mem[w])]
  /\ UNCHANGED user

\* Nothing is stored by a step that fails, panics or returns to the user.
Stop ==
  /\ phase = "run" \/ phase = "failed"
  /\ ~Due /\ Step
  /\ phase' # "run" /\ callers' = callers
  /\ UNCHANGED <<mem, user>>

-----------------------------------------------------------------------------
(***************************************************************************)
(* The user decodes, from a new buffer or from the last one refilled, and  *)
(* changes the variable in between.                                        *)
(***************************************************************************)
Idle == (phase = "idle" \/ phase = "done") /\ calls < MaxCalls

Decode(o, data, n) ==
  /\ in' = [data |-> data, len |-> n]
  /\ input' = o
  /\ mem' = [used  |-> [Put(mem["used"], <<o>>, data) EXCEPT !.dest = <<Variable>>,
                                                             !.after = << >>,
                                                             !.waiting = << >>],
             fresh |-> Zeroed(o, data)]
  /\ base' = 0 /\ off' = 0 /\ todo' = <<root>> /\ callers' = << >>
  /\ phase' = "run" /\ err' = DecSafe!NoErr /\ made' = 0 /\ raised' = DecSafe!NoErr
  /\ calls' = calls + 1 /\ edited' = FALSE
  /\ UNCHANGED <<root, safe>>

CallOnNew ==
  Idle /\ \E msg \in Messages[safe][root] : Decode(input - 1, msg, Len(msg))

CallOnRefilled ==
  /\ Idle /\ calls > 0
  /\ LET held == mem["used"].raw[<<input>>]
     IN  \E msg \in Messages[safe][root] :
           /\ Len(msg) <= Len(held)
           /\ Decode(input, Over(msg, held), Len(msg))

Edit(m) ==
  /\ Idle /\ ~edited /\ calls > 0
  /\ mem' = [mem EXCEPT !["used"] = m]
  /\ edited' = TRUE
  /\ UNCHANGED <<decoder, safe, input, calls>>

Fields == Schema[root].elems

FieldRef(k) == RefAt(mem["used"], Fields[k], <<1, k>>)

\* The slices among the fields of the variable that have elements.
Slices == { k \in DOMAIN Fields : Schema[Fields[k]].kind = "slice" /\ FieldRef(k).n > 0 }

Resliced(k, r) == [mem["used"] EXCEPT !.refs[<<Fields[k], <<1, k>>>>] = r]

\* v.F = v.F[:n-1]
Shorten ==
  \E k \in Slices : Edit(Resliced(k, [FieldRef(k) EXCEPT !.n = @ - 1]))

\* v.F = v.F[1:]
Behead ==
  \E k \in Slices :
    Edit(Resliced(k, [FieldRef(k) EXCEPT !.lo = @ + 1, !.n = @ - 1, !.cap = @ - 1]))

\* The structs with an excluded field: the variable, elements of its slices.
WithExcluded ==
  { l \in { Variable } : root \in Excluded } \cup
  UNION { LET r == FieldRef(k)
          IN  { <<r.obj, r.lo + j>> : j \in 0 .. r.n - 1 } :
          k \in { j \in Slices : Schema[Fields[j]].elems[1] \in Excluded } }

\* The user gives the excluded fields a value.
SetExcluded ==
  /\ WithExcluded # {}
  /\ Edit([mem["used"] EXCEPT !.raw = Updated(@, [l \in { x \o <<-1>> : x \in WithExcluded } |-> <<1>>])])

\* v.F[0] = v.F[n-1]; v.F = v.F[:n-1]: the last element stays in the array.
SwapDelete ==
  \E k \in Slices :
    LET m == mem["used"]
        r == FieldRef(k)
        Of(j, l) == Len(l) > 1 /\ l[1] = r.obj /\ l[2] = r.lo + j
        From(l) == <<r.obj, r.lo + r.n - 1>> \o SubSeq(l, 3, Len(l))
        To(l) == <<r.obj, r.lo>> \o SubSeq(l, 3, Len(l))
        Raws == { l \in DOMAIN m.raw : Of(r.n - 1, l) }
        Refs == { p \in DOMAIN m.refs : Of(r.n - 1, p[2]) }
        moved ==
          [m EXCEPT !.raw = Updated([l \in { x \in DOMAIN @ : ~Of(0, x) } |-> @[l]],
                                    [l \in { To(x) : x \in Raws } |-> @[From(l)]]),
                    !.refs = Updated([p \in { x \in DOMAIN @ : ~Of(0, x[2]) } |-> @[p]],
                                     [p \in { <<x[1], To(x[2])>> : x \in Refs } |->
                                        @[<<p[1], From(p[2])>>]])]
    IN  r.n > 1 /\ Edit([moved EXCEPT !.refs[<<Fields[k], <<1, k>>>>].n = @ - 1])

-----------------------------------------------------------------------------
Init ==
  /\ root \in Roots
  /\ safe \in BOOLEAN
  /\ in = [data |-> << >>, len |-> 0]
  /\ base = 0 /\ off = 0 /\ todo = << >> /\ callers = << >>
  /\ phase = "idle" /\ err = DecSafe!NoErr /\ made = 0 /\ raised = DecSafe!NoErr
  /\ mem = [w \in World |-> Zeroed(0, << >>)]
  /\ input = 0 /\ calls = 0 /\ edited = FALSE

Unmarshal == Assign \/ Store \/ Enter \/ Leave \/ Stop

User == CallOnNew \/ CallOnRefilled \/ Shorten \/ Behead \/ SetExcluded

Next == Unmarshal \/ User

Spec == Init /\ [][Next]_vars

\* With users who also delete elements by swapping.
SpecWithDelete == Init /\ [][Next \/ SwapDelete]_vars

-----------------------------------------------------------------------------
(***************************************************************************)
(* Properties.                                                             *)
(***************************************************************************)

\* No two slots of a decoded variable share an array, map, pointee or member,
\* not even in what lies behind the end of its slices: decoding one of them
\* changes no other.
OneOwner ==
  \A w \in World :
    LET refs == mem[w].refs
    IN  \A k, l \in DOMAIN refs :
          refs[k].obj = refs[l].obj /\ refs[k].obj > 0 => k = l

\* Unmarshal never writes to an input buffer, neither to the one it decodes
\* nor to an earlier one that fast mode has left strings and []byte into.
InputUntouched ==
  [][ phase = "run" =>
        \A w \in World : \A l \in DOMAIN mem[w].raw :
          l[1] < 0 => mem'[w].raw[l] = mem[w].raw[l] ]_vars

\* No block of memory that fast mode copies holds an excluded field.
BlocksAreWhole ==
  \A t \in Type : Schema[t].bulk =>
    /\ Schema[t].kind = "struct" => t \notin Excluded
    /\ Schema[t].kind = "slice" => Schema[t].elems[1] \notin Excluded

\* A field tagged goserde:"-" is never written by decode.
ExcludedKept ==
  [][ phase = "run" =>
        \A l \in DOMAIN mem["used"].raw :
          Len(l) > 1 /\ l[Len(l)] = -1 => l \in DOMAIN mem'["used"].raw
                            /\ mem'["used"].raw[l] = mem["used"].raw[l] ]_vars
=============================================================================
