--------------------------- MODULE MCDestination ---------------------------
(***************************************************************************)
(* Destination on types of MCPackage that are reused: slices of structs    *)
(* with pointers and an excluded field, slices of []byte, maps, pointers,  *)
(* arrays of pointers, unions, a recursive struct, and in fast mode blocks *)
(* of memory.                                                              *)
(***************************************************************************)
EXTENDS MCPackage, Destination

\* Encodings of each root, with prefixes below 4 in one byte; some with bytes
\* of another value behind.
Whole ==
  [ Cart    |-> { <<2, 1, 5, 1, 9, 1, 6, 0, 2, 7, 8>>, <<1, 1, 4, 1, 8, 1, 9>>,
                  <<2, 0, 1, 5, 1, 7, 0, 0>> },
    Pages   |-> { <<2, 2, 5, 6, 1, 9, 1, 7>>, <<3, 1, 4, 0, 2, 3, 3, 0>>, <<1, 1, 8, 2, 6, 6>> },
    Text    |-> { <<2, 8, 9, 1, 5, 7, 0>>, <<1, 4, 0, 3, 1, 6>>, <<0, 2, 5, 5, 9, 0>> },
    Shelf   |-> { <<2, 1, 5, 1, 9, 1, 6, 0>>, <<2, 1, 5, 1, 7, 1, 5, 2, 8, 8>>,
                  <<1, 0, 1, 4>>, <<0>> },
    Ptrs    |-> { <<1, 5, 1, 6, 1, 9>>, <<0, 1, 7, 0>>, <<1, 4, 0>>, <<0, 0>> },
    Handles |-> { <<1, 5, 1, 6>>, <<0, 1, 7>>, <<1, 8, 0>> },
    Wide    |-> { <<1, 1, 5>>, <<2, 2, 1, 6>>, <<3, 3, 7, 1, 8>>, <<4, 0>>, <<2, 2, 0>> },
    Structs |-> { <<2, 1, 1, 5, 2, 3, 7, 1, 8, 4, 9>>, <<1, 3, 2, 1, 6, 0, 0>>,
                  <<2, 0, 3, 4, 0, 5, 1, 6, 7, 7>> },
    Cells   |-> { <<2, 5, 6>>, <<1, 7, 9, 9>> },
    Node    |-> { <<1, 1, 0, 5, 6, 7>>, <<1, 0, 8, 9>>, <<0, 4>> },
    Lists   |-> { <<2, 1, 5, 0, 2, 6, 7, 8, 9>>, <<1, 2, 4, 4, 1, 5, 5>>, <<0, 0>> },
    Blits   |-> { <<2, 5, 6, 7, 8>>, <<1, 9, 4, 4>>, <<0, 3, 3>> } ]

\* Where a union's tag was, a tag nobody declared.
UnknownTags == [ Wide |-> { <<1, 7, 4, 5>> }, Structs |-> { <<2, 1, 1, 5, 2, 7, 4, 1, 1>> } ]

MCRoots == DOMAIN Whole

Cut(S) == { SubSeq(x, 1, 4) : x \in S }

\* Fast mode is given whole messages; safe mode truncated ones as well.
MCMessages ==
  [ s \in BOOLEAN |->
    [ t \in MCRoots |->
        Whole[t] \cup (IF t \in DOMAIN UnknownTags THEN UnknownTags[t] ELSE {})
                 \cup (IF s THEN Cut({ x \in Whole[t] : Len(x) > 6 }) ELSE {}) ] ]

\* What messages written over one another make of a buffer.
RECURSIVE Refilled(_, _)
Refilled(msgs, held) ==
  LET more == held \cup { Over(x[1], x[2]) :
                          x \in { y \in msgs \X held : Len(y[1]) <= Len(y[2]) } }
  IN  IF more = held THEN held ELSE Refilled(msgs, more)

MCBuffers ==
  [ s \in BOOLEAN |->
    [ t \in MCRoots |-> Refilled(MCMessages[s][t], MCMessages[s][t]) ] ]

-----------------------------------------------------------------------------
Zero(n) == [k \in 1 .. n |-> 0]

\* The value of type t at l, as == and reflect.DeepEqual see it, without the
\* excluded fields: a nil slice, map, pointer or union is empty.
RECURSIVE Tree(_, _, _)
Tree(m, t, l) ==
  LET s == Schema[t]
      block == ~safe /\ s.bulk
      r == RefAt(m, t, l)
      Raw(x, n) == IF x \in DOMAIN m.raw THEN m.raw[x] ELSE Zero(n)
      Elem(x) == IF block THEN Raw(x, s.raw) ELSE Tree(m, s.elems[1], x)
      kind == s.kind
  IN  CASE kind \in { "fixed", "block" } -> Raw(l, s.size)
        [] kind \in { "string", "bytes" } -> BytesOf(m, r)
        [] kind = "array" -> [k \in 1 .. s.size |-> Elem(l \o <<k>>)]
        [] kind = "struct" /\ block -> Raw(l, s.raw)
        [] kind = "struct" /\ ~block ->
             [k \in 1 .. Len(s.elems) |-> Tree(m, s.elems[k], l \o <<k>>)]
        [] r = Nil -> << >>
        [] r # Nil /\ kind = "slice" ->
             << [k \in 1 .. r.n |-> Elem(<<r.obj, r.lo + k - 1>>)] >>
        [] r # Nil /\ kind = "pointer" -> << Tree(m, s.elems[1], <<r.obj>>) >>
        [] r # Nil /\ kind = "map" ->
             << { << Tree(m, s.elems[1], e[1][2]), Tree(m, s.elems[2], e[2]) >> :
                  e \in m.entries[r.obj] } >>
        [] r # Nil /\ kind = "union" ->
             << <<r.tag>>, Tree(m, s.elems[r.tag], <<r.obj>>) >>

Value(w) == Tree(mem[w], root, Variable)

\* A decode without an error gives the same value in a destination that was
\* decoded into before, whatever it was left with, as in a zero value.
DecodesAsFresh ==
  phase = "done" /\ raised = DecSafe!NoErr /\ ~edited => Value("used") = Value("fresh")

\* A value decoded in safe mode owns its bytes: refilling the buffer it was
\* decoded from does not change it.
OwnsBytes ==
  [][ safe /\ phase # "run" /\ phase' = "run" => Value("used")' = Value("used") ]_vars
=============================================================================
