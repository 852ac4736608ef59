------------------------------- MODULE Loops -------------------------------
(***************************************************************************)
(* The emitted Unmarshal methods with their local variables: nn, which     *)
(* every length prefix and union tag of a method is read into, and the     *)
(* loops over elements and entries, one iteration at a time.  Decoder has  *)
(* what each expression does, and unrolls a loop when its count is read;   *)
(* here `todo` is only what is left of the innermost loop body.            *)
(***************************************************************************)
EXTENDS Integers, Sequences, SequencesExt

CONSTANTS Type, Schema, Roots, Input, Safe, MaxInt, ReadUvarint(_)

VARIABLES
  root, in, base, off, callers, phase, err, made, raised,  \* as in Decoder
  todo,   \* what the running method has left of its innermost loop body
  nn,     \* the prefix the running method read last
  loops,  \* the loops the running method is in, innermost first
  outer   \* nn and loops of each of callers

decoder == <<root, in, base, off, todo, callers, phase, err, made, raised>>

vars == <<decoder, nn, loops, outer>>

Dec == INSTANCE Decoder

Loop == [body : Seq(Type), cnt : Nat, k : Nat, rest : Seq(Type)]

Locals == [nn : Nat, loops : Seq(Loop)]

-----------------------------------------------------------------------------
\* nn, cc = codec.Uvarint(b[i:])
AssignNn == nn' = IF Dec!InSlice(off) THEN Dec!Prefix.n ELSE nn

\* Expressions that read a prefix and have no loop.
Prefixed ==
  /\ Dec!BadPrefix \/ Dec!ShortLength \/ Dec!NilValue \/ Dec!Payload \/ Dec!Union
  /\ AssignNn
  /\ UNCHANGED <<loops, outer>>

\* Expressions without either.
Plain ==
  /\ Dec!Fixed \/ Dec!Block \/ Dec!Pointer \/ Dec!Owned
  /\ UNCHANGED <<nn, loops, outer>>

-----------------------------------------------------------------------------
\* The loop is set up: its bound is fixed, and it decodes body each time.
StartLoop(cnt, body, o) ==
  /\ off' = o
  /\ todo' = <<>>
  /\ loops' = <<[body |-> body, cnt |-> cnt, k |-> 0, rest |-> Tail(todo)]>> \o loops
  /\ UNCHANGED <<root, in, base, callers, phase, err, raised, outer>>

\* What slices and maps check before they make room for nn elements.
Counted ==
  /\ Dec!PrefixRead /\ ~Dec!Empty
  /\ Dec!GuardLen(Dec!AfterPrefix, Dec!Prefix.n) /\ Dec!Prefix.n <= MaxInt

\* for iv := range ref: the length of ref is that of ref[:nn] or make(T, nn)
Slice ==
  /\ Dec!Running /\ Dec!This.kind = "slice"
  /\ AssignNn
  /\ \/ /\ Counted /\ ~Dec!Bulk
        /\ made' = nn'
        /\ StartLoop(nn', Dec!This.elems, Dec!AfterPrefix)
     \/ /\ Dec!Bulk \/ (Dec!PrefixRead /\ Dec!Prefix.n > MaxInt)
        /\ Dec!Slice
        /\ UNCHANGED <<loops, outer>>

\* cnt := nn, and for iv := uint64(0); iv < cnt; iv++
Map ==
  /\ Dec!Running /\ Dec!This.kind = "map"
  /\ Dec!PrefixRead /\ ~Dec!Empty
  /\ Dec!GuardLen(Dec!AfterPrefix, Dec!Prefix.n)
  /\ AssignNn
  /\ made' = nn'
  /\ StartLoop(nn', Dec!This.elems, Dec!AfterPrefix)

\* for iv := 0; iv < N; iv++
Array ==
  /\ Dec!Running /\ Dec!This.kind = "array"
  /\ \/ /\ ~(Dec!Bulk /\ Dec!This.size > 0)
        /\ StartLoop(Dec!This.size, Dec!This.elems, off)
        /\ UNCHANGED made
     \/ /\ Dec!Bulk /\ Dec!This.size > 0
        /\ Dec!Array
        /\ UNCHANGED <<loops, outer>>
  /\ UNCHANGED nn

\* Mutant: the loop over the entries of a map is compared with nn itself.
BoundShared(l) == IF Len(l.body) = 2 THEN nn ELSE l.cnt

Bound(l) == l.cnt

\* The body has come to its end: once more, or on behind the loop.
Iterate ==
  /\ phase = "run" /\ todo = <<>> /\ loops # <<>>
  /\ LET l == Head(loops)
     IN  IF l.k < Bound(l)
           THEN /\ todo' = l.body
                /\ loops' = <<[l EXCEPT !.k = @ + 1]>> \o Tail(loops)
           ELSE /\ todo' = l.rest
                /\ loops' = Tail(loops)
  /\ UNCHANGED <<root, in, base, off, callers, phase, err, made, raised, nn, outer>>

-----------------------------------------------------------------------------
\* A method has variables of its own, and a method that waits keeps its.
StartMethod ==
  /\ outer' = <<[nn |-> nn, loops |-> loops]>> \o outer
  /\ nn' = 0
  /\ loops' = <<>>

EndMethod ==
  /\ nn' = Head(outer).nn
  /\ loops' = Head(outer).loops
  /\ outer' = Tail(outer)

Struct ==
  /\ Dec!Struct
  /\ IF Dec!InSlice(off) /\ ~Dec!Bulk
       THEN StartMethod
       ELSE UNCHANGED <<nn, loops, outer>>

Return == loops = <<>> /\ Dec!Return /\ EndMethod

ReturnError == Dec!ReturnError /\ EndMethod

Finish ==
  /\ phase = "run" => loops = <<>>
  /\ Dec!Finish
  /\ UNCHANGED <<nn, loops, outer>>

-----------------------------------------------------------------------------
Init ==
  /\ Dec!Init
  /\ nn = 0
  /\ loops = <<>>
  /\ outer = <<>>

Next ==
  \/ Prefixed \/ Plain \/ Slice \/ Map \/ Array \/ Iterate
  \/ Struct \/ Return \/ ReturnError \/ Finish

Spec == Init /\ [][Next]_vars

\* One goroutine runs the method, and nothing in it blocks.
FairSpec == Spec /\ WF_vars(Next)

-----------------------------------------------------------------------------
\* What is still to decode once the innermost body has come to its end.
Ahead(ls) ==
  FlattenSeq([j \in DOMAIN ls |->
    FlattenSeq([k \in 1 .. (ls[j].cnt - ls[j].k) |-> ls[j].body]) \o ls[j].rest])

Unrolled == INSTANCE Decoder WITH
  todo <- todo \o Ahead(loops),
  callers <- [c \in DOMAIN callers |->
               [callers[c] EXCEPT !.todo = @ \o Ahead(outer[c].loops)]]

\* Every variable keeps its type, those of Decoder included, and every caller
\* has its local variables.
TypeOK ==
  /\ Unrolled!TypeOK
  /\ nn \in Nat
  /\ loops \in Seq(Loop)
  /\ outer \in Seq(Locals) /\ Len(outer) = Len(callers)

\* Every loop decodes as many elements or entries as the prefix in front of
\* them said, whatever the elements, the entries and the methods called from
\* them have read into nn since: unrolled, the method is Decoder's.
ImplementsDecoder == Unrolled!Spec

\* Unmarshal always returns or panics, and so does each of its loops.
Terminates == Dec!Terminates
=============================================================================
