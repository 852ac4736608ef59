---------------------------- MODULE RoundTripProofs ----------------------------
(***************************************************************************)
(* Unmarshal reads what Marshal and Append wrote, in EncodeDecode and in   *)
(* both modes: it follows the trail one of them has left, step by step,    *)
(* each of which EncodeDecodeProofs speaks of.                             *)
(***************************************************************************)
EXTENDS EncodeDecodeProofs

-----------------------------------------------------------------------------
(***************************************************************************)
(* Unmarshal is on the trail of the method that wrote: o bytes are read,   *)
(* and r of the n bytes and of the parts w that were written, and what is  *)
(* left to visit there is of the types K.                                  *)
(***************************************************************************)
OnCourse(Items, W, U, fast, y, b, w, n, o, r, K) ==
  \E T, final, e :
    /\ SafeProofs!Trail(Items, W, fast, y, T, SafeProofs!Point(<< >>, w, final))
    /\ Holds(b, 0, final) /\ Len(final) = n
    /\ e \in T /\ e.parts = r /\ Len(e.bytes) = o
    /\ SafeProofs!Load(U, e.todo) = 0 /\ SafeProofs!Kinds(e.todo) = K

\* At the first step nothing is read yet.
LEMMA CourseStarts ==
  ASSUME NEW Items, NEW W, NEW U \in [Items -> Nat], NEW fast, NEW y \in Items, U[y] = 0,
         NEW b, NEW w, NEW final,
         SafeProofs!Reached(Items, W, fast, y, << >>, w, final), Holds(b, 0, final)
  PROVE  OnCourse(Items, W, U, fast, y, b, w, Len(final), 0, << >>, <<y.t>>)
  <1> DEFINE e == SafeProofs!Point(<<y>>, << >>, << >>)
  <1>1. PICK T : SafeProofs!Trail(Items, W, fast, y, T, SafeProofs!Point(<< >>, w, final))
    BY DEF SafeProofs!Reached
  <1>2. e \in T
    BY <1>1 DEF SafeProofs!Trail
  <1>3. e.todo = <<y>> /\ e.parts = << >> /\ e.bytes = << >>
    BY SafeProofs!PointIs
  <1>4. SafeProofs!Load(U, <<y>>) = 0
    BY SafeProofs!LoadOne
  <1>5. SafeProofs!Kinds(<<y>>) = <<y.t>>
    BY DEF SafeProofs!Kinds
  <1>6. Len(<< >>) = 0
    OBVIOUS
  <1> HIDE DEF e
  <1> QED
    BY <1>1, <1>2, <1>3, <1>4, <1>5, <1>6 DEF OnCourse

\* What is held behind the bytes that are read.
LEMMA HoldsNext ==
  ASSUME NEW b, NEW final, Holds(b, 0, final), NEW p \in Seq(Nat), NEW bytes \in Seq(Nat),
         SafeProofs!Starts(p \o bytes, final)
  PROVE  /\ Holds(b, Len(p), bytes) /\ Len(p) \in Nat /\ Len(bytes) \in Nat
         /\ Len(p \o bytes) = Len(p) + Len(bytes)
  <1> DEFINE q == p \o bytes
             l == Len(p)
             m == Len(bytes)
  <1>1. /\ l \in Nat /\ m \in Nat /\ Len(q) = l + m
        /\ \A k \in 1 .. l + m : q[k] = IF k <= l THEN p[k] ELSE bytes[k - l]
    BY ConcatProperties
  <1> HIDE DEF q
  <1>2. /\ b.data \in Seq(Nat) /\ b.len \in Nat /\ b.len <= Len(b.data)
        /\ Len(final) \in Nat /\ Len(final) <= b.len
        /\ \A k \in 1 .. Len(final) : b.data[k] = final[k]
    BY DEF Holds
  <1>3. l + m <= Len(final) /\ \A k \in 1 .. l + m : q[k] = final[k]
    BY <1>1 DEF SafeProofs!Starts, q
  <1>4. ASSUME NEW k \in 1 .. m
        PROVE  b.data[l + k] = bytes[k]
    <2>1. l + k \in 1 .. l + m /\ ~ (l + k <= l) /\ (l + k) - l = k /\ l + k \in 1 .. Len(final)
      BY <1>1, <1>2, <1>3
    <2> QED
      BY <1>1, <1>2, <1>3, <2>1
  <1>5. l + m <= b.len
    BY <1>1, <1>2, <1>3
  <1> QED
    BY <1>1, <1>2, <1>4, <1>5 DEF Holds, q

\* The next step of the method that wrote, of a value y at the head of what is
\* left, wrote bytes, and left more to visit.
Turning(Items, W, U, fast, z, b, w, n, o, r, K, y, bytes, more) ==
  /\ y \in Items /\ U[y] = 0 /\ K # << >> /\ y.t = Head(K)
  /\ SafeProofs!Turn(fast, y, bytes, more)
  /\ Holds(b, o, bytes) /\ o + Len(bytes) + SafeProofs!Load(W, more) <= b.len
  /\ OnCourse(Items, W, U, fast, z, b, w, n, o + Len(bytes), r \o SafeProofs!PartsOf(fast, y),
              SafeProofs!Kinds(more) \o Tail(K))

LEMMA CourseGoesOn ==
  ASSUME NEW Items, NEW depth, NEW rank, SafeProofs!Encodable(Items, depth, rank),
         NEW W, NEW U, SafeProofs!Weighed(Items, W, U), NEW fast, NEW z, NEW b, NEW w, NEW n,
         NEW o, NEW r, NEW K, K # << >>,
         OnCourse(Items, W, U, fast, z, b, w, n, o, r, K)
  PROVE  \E y, bytes, more : Turning(Items, W, U, fast, z, b, w, n, o, r, K, y, bytes, more)
  <1>0. W \in [Items -> Nat] /\ U \in [Items -> Nat]
    BY DEF SafeProofs!Weighed, SafeProofs!Bytes, SafeProofs!Stops, SafeProofs!Weighs
  <1>1. PICK T, final, e :
          /\ SafeProofs!Trail(Items, W, fast, z, T, SafeProofs!Point(<< >>, w, final))
          /\ Holds(b, 0, final) /\ Len(final) = n
          /\ e \in T /\ e.parts = r /\ Len(e.bytes) = o
          /\ SafeProofs!Load(U, e.todo) = 0 /\ SafeProofs!Kinds(e.todo) = K
    BY DEF OnCourse
  <1> DEFINE last == SafeProofs!Point(<< >>, w, final)
  <1>2. last.todo = << >> /\ last.parts = w /\ last.bytes = final
    BY SafeProofs!PointIs
  <1>t. SafeProofs!Trail(Items, W, fast, z, T, last)
    BY <1>1
  <1> HIDE DEF last
  <1>3. /\ T \subseteq SafeProofs!Points(Items) /\ last \in T
        /\ \A d \in T : /\ SafeProofs!OnTrail(W, z, d, last)
                        /\ d = last \/ \E f \in T : SafeProofs!Passes(fast, d, f)
    BY <1>t DEF SafeProofs!Trail
  <1>4. e \in SafeProofs!Points(Items) /\ e.todo \in Seq(Items) /\ e.bytes \in Seq(Nat)
    BY <1>1, <1>3, SafeProofs!PointHas
  <1>5. /\ e.todo # << >> /\ Head(e.todo).t = Head(K)
        /\ SafeProofs!Kinds(Tail(e.todo)) = Tail(K)
    BY <1>1, <1>4, SafeProofs!KindsTail
  <1>6. PICK d \in T : SafeProofs!Passes(fast, e, d)
    BY <1>1, <1>2, <1>3, <1>5
  <1> DEFINE y == Head(e.todo)
             V == Tail(e.todo)
  <1>7. PICK bytes, more :
          /\ SafeProofs!Turn(fast, y, bytes, more)
          /\ d = SafeProofs!Point(more \o V, e.parts \o SafeProofs!PartsOf(fast, y), e.bytes \o bytes)
    BY <1>6 DEF SafeProofs!Passes
  <1>8. /\ d.todo = more \o V /\ d.parts = r \o SafeProofs!PartsOf(fast, y)
        /\ d.bytes = e.bytes \o bytes
    <2> DEFINE Q == more \o V
               P == e.parts \o SafeProofs!PartsOf(fast, y)
               C == e.bytes \o bytes
    <2>1. d = SafeProofs!Point(Q, P, C)
      BY <1>7
    <2> HIDE DEF Q, P, C, V, y
    <2>2. d.todo = Q /\ d.parts = P /\ d.bytes = C
      BY <2>1, SafeProofs!PointIs
    <2> QED
      BY <1>1, <2>2 DEF Q, P, C
  <1>9. y \in Items /\ V \in Seq(Items)
    BY <1>4, <1>5
  <1>10. /\ bytes \in Seq(Nat) /\ SafeProofs!Share(Items, W, U, y, Len(bytes), more)
         /\ more \in Seq(Items) /\ U[y] = SafeProofs!Load(U, more)
    BY <1>7, <1>9, SafeProofs!TurnShares DEF SafeProofs!Share
  <1>11. /\ U[y] = 0 /\ SafeProofs!Load(U, V) = 0
    <2>1. /\ SafeProofs!Load(U, e.todo) = U[y] + SafeProofs!Load(U, V)
          /\ SafeProofs!Load(U, V) \in Nat /\ U[y] \in Nat
      BY <1>0, <1>4, <1>5, <1>9, SafeProofs!LoadHead
    <2> HIDE DEF y, V
    <2> QED
      BY <1>1, <2>1
  <1> HIDE DEF y, V
  <1>12. SafeProofs!Load(U, d.todo) = 0
    <2>1. SafeProofs!Load(U, more \o V) = SafeProofs!Load(U, more) + SafeProofs!Load(U, V)
      BY <1>0, <1>9, <1>10, SafeProofs!LoadConcat
    <2>2. SafeProofs!Load(U, more) = 0
      BY <1>10, <1>11
    <2>3. SafeProofs!Load(U, more \o V) = 0
      BY <1>11, <2>1, <2>2
    <2> QED
      BY <1>8, <2>3
  <1>13. SafeProofs!Kinds(d.todo) = SafeProofs!Kinds(more) \o Tail(K)
    <2>1. SafeProofs!Kinds(more \o V) = SafeProofs!Kinds(more) \o SafeProofs!Kinds(V)
      BY <1>9, <1>10, SafeProofs!KindsConcat
    <2> QED
      BY <1>5, <1>8, <2>1 DEF V
  <1>14. /\ Len(d.bytes) + SafeProofs!Load(W, d.todo) = W[z]
         /\ Len(final) + SafeProofs!Load(W, << >>) = W[z]
         /\ SafeProofs!Starts(d.bytes, final)
    BY <1>2, <1>3 DEF SafeProofs!OnTrail
  <1>15. /\ Holds(b, o, bytes) /\ o \in Nat /\ Len(bytes) \in Nat
         /\ Len(d.bytes) = o + Len(bytes)
    <2>1. SafeProofs!Starts(e.bytes \o bytes, final)
      BY <1>8, <1>14
    <2>2. /\ Holds(b, Len(e.bytes), bytes) /\ Len(e.bytes) \in Nat /\ Len(bytes) \in Nat
          /\ Len(e.bytes \o bytes) = Len(e.bytes) + Len(bytes)
      BY <1>1, <1>4, <1>10, <2>1, HoldsNext
    <2> QED
      BY <1>1, <1>8, <2>2
  <1>16. o + Len(bytes) + SafeProofs!Load(W, more) <= b.len
    <2>1. /\ SafeProofs!Load(W, more \o V) = SafeProofs!Load(W, more) + SafeProofs!Load(W, V)
          /\ SafeProofs!Load(W, more) \in Nat /\ SafeProofs!Load(W, V) \in Nat
      BY <1>0, <1>9, <1>10, SafeProofs!LoadConcat, SafeProofs!LoadNat
    <2>2. SafeProofs!Load(W, << >>) = 0
      BY SafeProofs!LoadEmpty
    <2>3. Len(final) \in Nat /\ Len(final) <= b.len /\ b.len \in Nat
      BY <1>1 DEF Holds
    <2>4. o + Len(bytes) + (SafeProofs!Load(W, more) + SafeProofs!Load(W, V)) = Len(final)
      BY <1>8, <1>14, <1>15, <2>1, <2>2, <2>3
    <2> QED
      BY <1>15, <2>1, <2>3, <2>4
  <1>17. OnCourse(Items, W, U, fast, z, b, w, n, o + Len(bytes), r \o SafeProofs!PartsOf(fast, y),
                  SafeProofs!Kinds(more) \o Tail(K))
    BY <1>1, <1>8, <1>12, <1>13, <1>15 DEF OnCourse
  <1>18. y.t = Head(K)
    BY <1>5 DEF y
  <1>19. Turning(Items, W, U, fast, z, b, w, n, o, r, K, y, bytes, more)
    BY <1>7, <1>9, <1>11, <1>15, <1>16, <1>17, <1>18 DEF Turning
  <1> QED
    BY <1>19

\* At the end everything is read.
LEMMA CourseEnds ==
  ASSUME NEW Items, NEW W, NEW U, NEW fast, NEW z, NEW b, NEW w, NEW n, NEW o, NEW r,
         OnCourse(Items, W, U, fast, z, b, w, n, o, r, << >>)
  PROVE  r = w /\ o = n
  <1>1. PICK T, final, e :
          /\ SafeProofs!Trail(Items, W, fast, z, T, SafeProofs!Point(<< >>, w, final))
          /\ Holds(b, 0, final) /\ Len(final) = n
          /\ e \in T /\ e.parts = r /\ Len(e.bytes) = o
          /\ SafeProofs!Load(U, e.todo) = 0 /\ SafeProofs!Kinds(e.todo) = << >>
    BY DEF OnCourse
  <1> DEFINE last == SafeProofs!Point(<< >>, w, final)
  <1>2. last.todo = << >> /\ last.parts = w /\ last.bytes = final
    BY SafeProofs!PointIs
  <1>t. SafeProofs!Trail(Items, W, fast, z, T, last)
    BY <1>1
  <1> HIDE DEF last
  <1>3. e \in SafeProofs!Points(Items)
    BY <1>1, <1>t DEF SafeProofs!Trail
  <1>4. e.todo = << >>
    BY <1>1, <1>3, SafeProofs!PointHas, SafeProofs!KindsTail
  <1>5. e = last
    BY <1>1, <1>4, <1>t, SafeProofs!TrailEnds
  <1> QED
    BY <1>1, <1>2, <1>5

\* Nothing is read behind the bytes of the value.
LEMMA CourseWithin ==
  ASSUME NEW Items, NEW W, NEW U, NEW fast, NEW z, NEW b, NEW w, NEW n, NEW o, NEW r, NEW K,
         OnCourse(Items, W, U, fast, z, b, w, n, o, r, K)
  PROVE  /\ o \in Nat /\ o <= b.len
         /\ b.data \in Seq(Nat) /\ b.len \in Nat /\ b.len <= Len(b.data)
         /\ r \in Seq(Seq(Nat))
  <1>1. PICK T, final, e :
          /\ SafeProofs!Trail(Items, W, fast, z, T, SafeProofs!Point(<< >>, w, final))
          /\ Holds(b, 0, final) /\ e \in T /\ e.parts = r /\ Len(e.bytes) = o
    BY DEF OnCourse
  <1> DEFINE last == SafeProofs!Point(<< >>, w, final)
  <1>2. last.bytes = final
    BY SafeProofs!PointIs
  <1>t. SafeProofs!Trail(Items, W, fast, z, T, last)
    BY <1>1
  <1> HIDE DEF last
  <1>3. e \in SafeProofs!Points(Items) /\ SafeProofs!OnTrail(W, z, e, last)
    BY <1>1, <1>t DEF SafeProofs!Trail
  <1>4. e.bytes \in Seq(Nat) /\ Len(e.bytes) <= Len(final)
    BY <1>2, <1>3, SafeProofs!PointHas DEF SafeProofs!OnTrail, SafeProofs!Starts
  <1>7. e.parts \in Seq(Seq(Nat))
    BY <1>3, SafeProofs!PointHas
  <1>5. /\ b.data \in Seq(Nat) /\ b.len \in Nat /\ b.len <= Len(b.data)
        /\ final \in Seq(Nat) /\ Len(final) \in Nat /\ 0 + Len(final) <= b.len
    BY <1>1 DEF Holds
  <1>6. Len(e.bytes) \in Nat
    BY <1>4
  <1>8. r \in Seq(Seq(Nat))
    BY <1>1, <1>7
  <1> QED
    BY <1>1, <1>4, <1>5, <1>6, <1>8

-----------------------------------------------------------------------------
(***************************************************************************)
(* The running method and its callers have in all the types K left to      *)
(* decode: behind each is what the callers above it have.                  *)
(***************************************************************************)
Framed(S) == [base : Nat, todo : Seq(S)]

Stacked(l, cs, K, g) ==
  /\ Len(g) = Len(cs) + 1 /\ g[Len(g)] = << >> /\ K = l \o g[1]
  /\ \A k \in 1 .. Len(cs) : g[k] = cs[k].todo \o g[k + 1]

Stack(S, l, cs, K) ==
  /\ l \in Seq(S) /\ cs \in Seq(Framed(S))
  /\ \E g \in Seq(Seq(S)) : Stacked(l, cs, K, g)

LEMMA StackStarts ==
  ASSUME NEW S, NEW t \in S
  PROVE  Stack(S, <<t>>, << >>, <<t>>)
  <1> DEFINE Q == Seq(S)
             g == << << >> >>
  <1>1. << >> \in Q /\ <<t>> \in Q /\ <<t>> \o << >> = <<t>>
    OBVIOUS
  <1>2. g \in Seq(Q) /\ Len(g) = 1 /\ g[1] = << >>
    <2> HIDE DEF Q
    <2> QED
      BY <1>1
  <1>3. << >> \in Seq(Framed(S)) /\ Len(<< >>) = 0
    OBVIOUS
  <1> HIDE DEF g
  <1>4. Stacked(<<t>>, << >>, <<t>>, g)
    BY <1>1, <1>2, <1>3 DEF Stacked
  <1> QED
    BY <1>1, <1>2, <1>3, <1>4 DEF Stack

LEMMA HeadOfBoth ==
  ASSUME NEW S, NEW l \in Seq(S), l # << >>, NEW a \in Seq(S)
  PROVE  /\ l \o a # << >> /\ Head(l \o a) = Head(l) /\ Tail(l \o a) = Tail(l) \o a
         /\ Head(l) \in S /\ Tail(l) \in Seq(S)
  <1>1. /\ Len(l) \in Nat /\ Len(l) > 0 /\ Len(a) \in Nat /\ Head(l) = l[1] /\ l[1] \in S
        /\ Tail(l) \in Seq(S) /\ Len(Tail(l)) = Len(l) - 1
        /\ \A k \in 1 .. Len(l) - 1 : Tail(l)[k] = l[k + 1]
    OBVIOUS
  <1> DEFINE u == l \o a
             v == Tail(l) \o a
             w == Tail(u)
  <1>2. /\ u \in Seq(S) /\ Len(u) = Len(l) + Len(a)
        /\ \A k \in 1 .. Len(l) + Len(a) : u[k] = IF k <= Len(l) THEN l[k] ELSE a[k - Len(l)]
    OBVIOUS
  <1>3. /\ v \in Seq(S) /\ Len(v) = Len(l) - 1 + Len(a)
        /\ \A k \in 1 .. Len(l) - 1 + Len(a) :
             v[k] = IF k <= Len(l) - 1 THEN Tail(l)[k] ELSE a[k - (Len(l) - 1)]
    BY <1>1
  <1>4. u # << >>
    BY <1>1, <1>2
  <1> HIDE DEF u, v
  <1>5. /\ w \in Seq(S) /\ Len(w) = Len(l) - 1 + Len(a) /\ Head(u) = u[1]
        /\ \A k \in 1 .. Len(l) - 1 + Len(a) : w[k] = u[k + 1]
    <2>1. w \in Seq(S) /\ Len(w) = Len(u) - 1 /\ Head(u) = u[1]
      BY <1>2, <1>4
    <2>2. \A k \in 1 .. Len(u) - 1 : w[k] = u[k + 1]
      BY <1>2, <1>4
    <2>3. Len(u) - 1 = Len(l) - 1 + Len(a)
      BY <1>1, <1>2
    <2> QED
      BY <2>1, <2>2, <2>3
  <1> HIDE DEF w
  <1>6. ASSUME NEW k \in 1 .. Len(l) - 1 + Len(a)
        PROVE  w[k] = v[k]
    <2>1. k + 1 \in 1 .. Len(l) + Len(a) /\ w[k] = u[k + 1] /\ k \in Nat
      BY <1>1, <1>5
    <2>2. CASE k <= Len(l) - 1
      <3>1. k \in 1 .. Len(l) - 1 /\ k + 1 <= Len(l)
        BY <1>1, <2>1, <2>2
      <3>2. v[k] = l[k + 1] /\ u[k + 1] = l[k + 1]
        BY <1>1, <1>2, <1>3, <2>1, <2>2, <3>1
      <3> QED
        BY <2>1, <3>2
    <2>3. CASE ~ (k <= Len(l) - 1)
      <3>1. ~ (k + 1 <= Len(l)) /\ (k + 1) - Len(l) = k - (Len(l) - 1)
        BY <1>1, <2>1, <2>3
      <3>2. v[k] = a[k - (Len(l) - 1)] /\ u[k + 1] = a[(k + 1) - Len(l)]
        BY <1>2, <1>3, <2>1, <2>3, <3>1
      <3> QED
        BY <2>1, <3>1, <3>2
    <2> QED
      BY <2>2, <2>3
  <1>7. w = v
    BY <1>3, <1>5, <1>6, SeqEqual
  <1>8. u[1] = l[1]
    BY <1>1, <1>2
  <1> QED
    BY <1>1, <1>4, <1>5, <1>7, <1>8 DEF u, v, w

LEMMA ThreeTogether ==
  ASSUME NEW S, NEW p \in Seq(S), NEW q \in Seq(S), NEW r \in Seq(S)
  PROVE  p \o (q \o r) = (p \o q) \o r /\ p \o q \in Seq(S)
  <1>1. p \o q \in Seq(S)
    BY ConcatProperties
  <1> QED
    BY <1>1, ConcatAssociative

\* What is decoded next, and what is left then.
LEMMA StackGoesOn ==
  ASSUME NEW S, NEW l, NEW cs, NEW K, Stack(S, l, cs, K), l # << >>, NEW m \in Seq(S)
  PROVE  /\ K # << >> /\ Head(K) = Head(l) /\ Head(l) \in S
         /\ Stack(S, m \o Tail(l), cs, m \o Tail(K))
  <1> DEFINE Q == Seq(S)
  <1>1. l \in Q /\ cs \in Seq(Framed(S)) /\ m \in Q
    BY DEF Stack
  <1>2. PICK g \in Seq(Q) : Stacked(l, cs, K, g)
    BY DEF Stack
  <1>3. /\ Len(g) = Len(cs) + 1 /\ g[Len(g)] = << >> /\ K = l \o g[1]
        /\ \A k \in 1 .. Len(cs) : g[k] = cs[k].todo \o g[k + 1]
    BY <1>2 DEF Stacked
  <1>4. g[1] \in Q
    <2>1. Len(cs) \in Nat
      BY <1>1
    <2> HIDE DEF Q
    <2>2. 1 \in 1 .. Len(g)
      BY <1>3, <2>1
    <2> QED
      BY <2>2
  <1> DEFINE a == g[1]
  <1>5. a \in Q
    BY <1>4
  <1> HIDE DEF a
  <1>6. /\ l \o a # << >> /\ Head(l \o a) = Head(l) /\ Tail(l \o a) = Tail(l) \o a
        /\ Head(l) \in S /\ Tail(l) \in Q
    BY <1>1, <1>5, HeadOfBoth
  <1>7. m \o (Tail(l) \o a) = (m \o Tail(l)) \o a /\ m \o Tail(l) \in Q
    BY <1>1, <1>5, <1>6, ThreeTogether
  <1>8. Stacked(m \o Tail(l), cs, m \o Tail(K), g)
    BY <1>3, <1>6, <1>7 DEF Stacked, a
  <1>9. Stack(S, m \o Tail(l), cs, m \o Tail(K))
    BY <1>1, <1>2, <1>7, <1>8 DEF Stack
  <1>10. K = l \o a
    BY <1>3 DEF a
  <1>11. K # << >> /\ Head(K) = Head(l) /\ Head(l) \in S
    BY <1>6, <1>10
  <1> QED
    BY <1>9, <1>11

\* A call.
LEMMA StackCalls ==
  ASSUME NEW S, NEW l, NEW cs, NEW K, Stack(S, l, cs, K), l # << >>, NEW m \in Seq(S),
         NEW o \in Nat
  PROVE  /\ K # << >> /\ Head(K) = Head(l) /\ Head(l) \in S
         /\ Stack(S, m, <<[base |-> o, todo |-> Tail(l)]>> \o cs, m \o Tail(K))
  <1> DEFINE Q == Seq(S)
             F == Framed(S)
             f == [base |-> o, todo |-> Tail(l)]
             ds == <<f>> \o cs
  <1>1. l \in Q /\ cs \in Seq(F) /\ m \in Q
    BY DEF Stack
  <1>2. PICK g \in Seq(Q) : Stacked(l, cs, K, g)
    BY DEF Stack
  <1>3. /\ Len(g) = Len(cs) + 1 /\ g[Len(g)] = << >> /\ K = l \o g[1]
        /\ \A k \in 1 .. Len(cs) : g[k] = cs[k].todo \o g[k + 1]
    BY <1>2 DEF Stacked
  <1>n. Len(cs) \in Nat
    BY <1>1
  <1>4. g[1] \in Q
    <2> HIDE DEF Q
    <2>2. 1 \in 1 .. Len(g)
      BY <1>3, <1>n
    <2> QED
      BY <2>2
  <1> DEFINE a == g[1]
             r == Tail(l) \o a
             h == <<r>> \o g
  <1>5. a \in Q
    BY <1>4
  <1> HIDE DEF a
  <1>6. /\ l \o a # << >> /\ Head(l \o a) = Head(l) /\ Tail(l \o a) = Tail(l) \o a
        /\ Head(l) \in S /\ Tail(l) \in Q /\ r \in Q
    BY <1>1, <1>5, HeadOfBoth
  <1>7. f \in F /\ f.todo = Tail(l)
    BY <1>6 DEF Framed
  <1> HIDE DEF f, r
  <1>8. /\ ds \in Seq(F) /\ Len(ds) = Len(cs) + 1 /\ ds[1] = f
        /\ \A k \in 1 .. Len(cs) : ds[k + 1] = cs[k]
    <2> HIDE DEF F
    <2> QED
      BY <1>1, <1>7
  <1>9. /\ h \in Seq(Q) /\ Len(h) = Len(g) + 1 /\ h[1] = r
        /\ \A k \in 1 .. Len(g) : h[k + 1] = g[k]
    <2> HIDE DEF Q
    <2> QED
      BY <1>6
  <1> HIDE DEF ds, h
  <1>10. h[Len(h)] = << >> /\ Len(h) = Len(ds) + 1
    <2>1. Len(g) \in 1 .. Len(g)
      BY <1>3, <1>n
    <2>2. h[Len(g) + 1] = g[Len(g)]
      BY <1>9, <2>1
    <2> QED
      BY <1>3, <1>8, <1>9, <2>2
  <1>11. ASSUME NEW k \in 1 .. Len(ds)
         PROVE  h[k] = ds[k].todo \o h[k + 1]
    <2>1. CASE k = 1
      <3>1. h[1] = Tail(l) \o a /\ ds[1].todo = Tail(l)
        BY <1>7, <1>8, <1>9 DEF r
      <3>2. h[1 + 1] = a
        BY <1>3, <1>9, <1>n DEF a
      <3> QED
        BY <2>1, <3>1, <3>2
    <2>2. CASE k # 1
      <3>1. k - 1 \in 1 .. Len(cs) /\ (k - 1) + 1 = k /\ k - 1 \in 1 .. Len(g) /\ k \in 1 .. Len(g)
        BY <1>3, <1>8, <1>n, <2>2
      <3>2. h[k] = g[k - 1] /\ h[k + 1] = g[k] /\ ds[k] = cs[k - 1]
        BY <1>8, <1>9, <3>1
      <3>3. g[k - 1] = cs[k - 1].todo \o g[(k - 1) + 1]
        BY <1>3, <3>1
      <3> QED
        BY <3>1, <3>2, <3>3
    <2> QED
      BY <2>1, <2>2
  <1>12. m \o Tail(K) = m \o h[1]
    BY <1>3, <1>6, <1>9 DEF a, r
  <1>13. Stacked(m, ds, m \o Tail(K), h)
    BY <1>10, <1>11, <1>12 DEF Stacked
  <1>14. Stack(S, m, ds, m \o Tail(K))
    BY <1>1, <1>8, <1>9, <1>13 DEF Stack
  <1>15. K = l \o a
    BY <1>3 DEF a
  <1>16. K # << >> /\ Head(K) = Head(l) /\ Head(l) \in S
    BY <1>6, <1>15
  <1> QED
    BY <1>14, <1>16 DEF ds, f

\* A return.
LEMMA StackReturns ==
  ASSUME NEW S, NEW cs, NEW K, Stack(S, << >>, cs, K), cs # << >>
  PROVE  /\ Head(cs) \in Framed(S) /\ Tail(cs) \in Seq(Framed(S))
         /\ Stack(S, Head(cs).todo, Tail(cs), K)
  <1> DEFINE Q == Seq(S)
             F == Framed(S)
             ds == Tail(cs)
             f == Head(cs)
             n == Len(cs)
  <1>1. cs \in Seq(F)
    BY DEF Stack
  <1>2. PICK g \in Seq(Q) : Stacked(<< >>, cs, K, g)
    BY DEF Stack
  <1>3. /\ Len(g) = n + 1 /\ g[Len(g)] = << >> /\ K = << >> \o g[1]
        /\ \A k \in 1 .. n : g[k] = cs[k].todo \o g[k + 1]
    BY <1>2 DEF Stacked
  <1>4. /\ n \in Nat /\ n > 0 /\ f = cs[1] /\ f \in F /\ ds \in Seq(F) /\ Len(ds) = n - 1
        /\ \A k \in 1 .. n - 1 : ds[k] = cs[k + 1]
    <2> HIDE DEF F
    <2> QED
      BY <1>1
  <1> DEFINE h == Tail(g)
  <1>5. /\ h \in Seq(Q) /\ Len(h) = n /\ (\A k \in 1 .. n : h[k] = g[k + 1]) /\ g[1] \in Q
    <2>1. g # << >>
      BY <1>3, <1>4
    <2> HIDE DEF Q, n
    <2> QED
      BY <1>3, <1>4, <2>1
  <1>6. f.todo \in Q
    BY <1>4 DEF Framed
  <1> HIDE DEF h, ds, f, n
  <1>7. K = f.todo \o h[1]
    <2>1. 1 \in 1 .. n /\ h[1] = g[1 + 1]
      BY <1>4, <1>5
    <2>2. g[1] = f.todo \o h[1]
      BY <1>3, <1>4, <2>1
    <2>3. << >> \o g[1] = g[1]
      BY <1>5
    <2> QED
      BY <1>3, <2>2, <2>3
  <1>8. Len(h) = Len(ds) + 1 /\ h[Len(h)] = << >>
    BY <1>3, <1>4, <1>5
  <1>9. ASSUME NEW k \in 1 .. Len(ds)
        PROVE  h[k] = ds[k].todo \o h[k + 1]
    <2>1. k \in 1 .. n - 1 /\ k \in 1 .. n /\ k + 1 \in 1 .. n
      BY <1>4
    <2>2. h[k] = g[k + 1] /\ h[k + 1] = g[(k + 1) + 1] /\ ds[k] = cs[k + 1]
      BY <1>4, <1>5, <2>1
    <2>3. g[k + 1] = cs[k + 1].todo \o g[(k + 1) + 1]
      BY <1>3, <2>1
    <2> QED
      BY <2>2, <2>3
  <1>10. Stacked(f.todo, ds, K, h)
    BY <1>7, <1>8, <1>9 DEF Stacked
  <1>11. Stack(S, f.todo, ds, K)
    BY <1>4, <1>5, <1>6, <1>10 DEF Stack
  <1> QED
    BY <1>4, <1>11 DEF f, ds

\* Nobody has anything left.
LEMMA StackEnds ==
  ASSUME NEW S, NEW K, Stack(S, << >>, << >>, K)
  PROVE  K = << >>
  <1> DEFINE Q == Seq(S)
  <1>1. PICK g \in Seq(Q) : Stacked(<< >>, << >>, K, g)
    BY DEF Stack
  <1>2. Len(g) = 0 + 1 /\ g[Len(g)] = << >> /\ K = << >> \o g[1]
    BY <1>1 DEF Stacked
  <1>3. g[1] = << >>
    BY <1>2
  <1> QED
    BY <1>2, <1>3

-----------------------------------------------------------------------------
(***************************************************************************)
(* The two decoders inside.  Their steps are those DecoderProofs is about, *)
(* what that module assumes is so here, and where a method is and what it  *)
(* finds there is one notion in both.                                      *)
(***************************************************************************)
LEMMA SafeReadsNext == Dec!Next <=> SafeReads!Next
  BY DEF Dec!Next, SafeReads!Next, Dec!BadPrefix, SafeReads!BadPrefix, Dec!ShortLength,
         SafeReads!ShortLength, Dec!NilValue, SafeReads!NilValue, Dec!Payload,
         SafeReads!Payload, Dec!Slice, SafeReads!Slice, Dec!Map, SafeReads!Map, Dec!Union,
         SafeReads!Union, Dec!Fixed, SafeReads!Fixed, Dec!Block, SafeReads!Block, Dec!Array,
         SafeReads!Array, Dec!Pointer, SafeReads!Pointer, Dec!Struct, SafeReads!Struct,
         Dec!Owned, SafeReads!Owned, Dec!Return, SafeReads!Return, Dec!ReturnError,
         SafeReads!ReturnError, Dec!Finish, SafeReads!Finish, Dec!Running, SafeReads!Running,
         Dec!This, SafeReads!This, Dec!Bulk, SafeReads!Bulk, Dec!Prefix, SafeReads!Prefix,
         Dec!PrefixRead, SafeReads!PrefixRead, Dec!AfterPrefix, SafeReads!AfterPrefix,
         Dec!Empty, SafeReads!Empty, Dec!InSlice, SafeReads!InSlice, Dec!Indexable,
         SafeReads!Indexable, Dec!Sliceable, SafeReads!Sliceable, Dec!GuardN,
         SafeReads!GuardN, Dec!GuardLen, SafeReads!GuardLen, Dec!ToInt, SafeReads!ToInt,
         Dec!ToUint, SafeReads!ToUint, Dec!ByteCount, SafeReads!ByteCount, Dec!Advance,
         SafeReads!Advance, Dec!Fail, SafeReads!Fail, Dec!Panic, SafeReads!Panic, Dec!Enter,
         SafeReads!Enter, Dec!NoErr, SafeReads!NoErr, Dec!ErrShortBuffer,
         SafeReads!ErrShortBuffer, Dec!ErrUnknownUnionTag, SafeReads!ErrUnknownUnionTag,
         Dec!ErrOwned, SafeReads!ErrOwned

LEMMA FastReadsNext == DecFast!Next <=> FastReads!Next
  BY DEF DecFast!Next, FastReads!Next, DecFast!BadPrefix, FastReads!BadPrefix,
         DecFast!ShortLength, FastReads!ShortLength, DecFast!NilValue, FastReads!NilValue,
         DecFast!Payload, FastReads!Payload, DecFast!Slice, FastReads!Slice, DecFast!Map,
         FastReads!Map, DecFast!Union, FastReads!Union, DecFast!Fixed, FastReads!Fixed,
         DecFast!Block, FastReads!Block, DecFast!Array, FastReads!Array, DecFast!Pointer,
         FastReads!Pointer, DecFast!Struct, FastReads!Struct, DecFast!Owned, FastReads!Owned,
         DecFast!Return, FastReads!Return, DecFast!ReturnError, FastReads!ReturnError,
         DecFast!Finish, FastReads!Finish, DecFast!Running, FastReads!Running, DecFast!This,
         FastReads!This, DecFast!Bulk, FastReads!Bulk, DecFast!Prefix, FastReads!Prefix,
         DecFast!PrefixRead, FastReads!PrefixRead, DecFast!AfterPrefix, FastReads!AfterPrefix,
         DecFast!Empty, FastReads!Empty, DecFast!InSlice, FastReads!InSlice,
         DecFast!Indexable, FastReads!Indexable, DecFast!Sliceable, FastReads!Sliceable,
         DecFast!GuardN, FastReads!GuardN, DecFast!GuardLen, FastReads!GuardLen,
         DecFast!ToInt, FastReads!ToInt, DecFast!ToUint, FastReads!ToUint, DecFast!ByteCount,
         FastReads!ByteCount, DecFast!Advance, FastReads!Advance, DecFast!Fail,
         FastReads!Fail, DecFast!Panic, FastReads!Panic, DecFast!Enter, FastReads!Enter,
         DecFast!NoErr, FastReads!NoErr, DecFast!ErrShortBuffer, FastReads!ErrShortBuffer,
         DecFast!ErrUnknownUnionTag, FastReads!ErrUnknownUnionTag, DecFast!ErrOwned,
         FastReads!ErrOwned

LEMMA SafeReadsAssumptions ==
  /\ SafeReads!MaxIntAssumption /\ SafeReads!SafeAssumption
  /\ SafeReads!SchemaAssumption /\ SafeReads!RootsAssumption
  /\ SafeReads!InputAssumption /\ SafeReads!UvarintAssumption
  BY DecoderAssumption
     DEF Dec!MaxIntAssumption, Dec!SchemaAssumption, Dec!RootsAssumption,
         SafeReads!MaxIntAssumption, SafeReads!SafeAssumption,
         SafeReads!SchemaAssumption, SafeReads!RootsAssumption,
         SafeReads!InputAssumption, SafeReads!UvarintAssumption,
         Dec!Shape, SafeReads!Shape, Dec!Kind, SafeReads!Kind

LEMMA FastReadsAssumptions ==
  /\ FastReads!MaxIntAssumption /\ FastReads!SafeAssumption
  /\ FastReads!SchemaAssumption /\ FastReads!RootsAssumption
  /\ FastReads!InputAssumption /\ FastReads!UvarintAssumption
  BY DecoderAssumption
     DEF Dec!MaxIntAssumption, Dec!SchemaAssumption, Dec!RootsAssumption,
         FastReads!MaxIntAssumption, FastReads!SafeAssumption,
         FastReads!SchemaAssumption, FastReads!RootsAssumption,
         FastReads!InputAssumption, FastReads!UvarintAssumption,
         Dec!Shape, FastReads!Shape, Dec!Kind, FastReads!Kind

Place == SafeReads!Now

LEMMA SamePlace ==
  /\ FastReads!Now = Place
  /\ \A c : FastReads!ShapeAt(c) = SafeReads!ShapeAt(c)
  /\ \A b, c : FastReads!PrefixAt(b, c) = SafeReads!PrefixAt(b, c)
  /\ FastReads!Ready <=> SafeReads!Ready
  BY DEF Place, FastReads!Now, SafeReads!Now, FastReads!ShapeAt, SafeReads!ShapeAt,
         FastReads!PrefixAt, SafeReads!PrefixAt, FastReads!Ready, SafeReads!Ready

LEMMA SameTakes ==
  ASSUME NEW fast, NEW b, NEW c, NEW o, NEW more
  PROVE  FastReads!Takes(fast, b, c, o, more) <=> SafeReads!Takes(fast, b, c, o, more)
  BY SamePlace
     DEF FastReads!Takes, SafeReads!Takes, FastReads!TakesBasic, SafeReads!TakesBasic,
         FastReads!TakesSlice, SafeReads!TakesSlice, FastReads!TakesArray,
         SafeReads!TakesArray, FastReads!TakesPointer, SafeReads!TakesPointer,
         FastReads!TakesMap, SafeReads!TakesMap, FastReads!TakesUnion, SafeReads!TakesUnion,
         FastReads!TakesBlock, SafeReads!TakesBlock, FastReads!Prefixed, SafeReads!Prefixed

LEMMA PlaceIs ==
  /\ Place.base = base /\ Place.off = off /\ Place.todo = left /\ Place.callers = callers
  /\ left # <<>> => SafeReads!ShapeAt(Place) = Schema[Head(left)]
  BY DEF Place, SafeReads!Now, SafeReads!ShapeAt

\* What EncodeDecode records of a step.
LEMMA ReadsIs ==
  ASSUME NEW j, NEW fast, fast = ~safe, left # <<>>,
         Schema[Head(left)].kind \in
           { "fixed", "block", "string", "bytes", "slice", "array", "struct", "pointer",
             "map", "union" }
  PROVE  Reads(j) = ReadsAt(fast, in, Place, j)
  <1> DEFINE s == Schema[Head(left)]
             p == Dec!Prefix
  <1>1. /\ SafeReads!ShapeAt(Place) = s /\ Dec!This = s /\ Place.off = off
        /\ SafeReads!PrefixAt(in, Place) = p /\ Dec!AfterPrefix = off + p.c
    BY PlaceIs DEF Dec!This, Dec!Prefix, SafeReads!PrefixAt, Dec!AfterPrefix
  <1>2. DecBulk <=> (fast /\ s.bulk)
    BY <1>1 DEF DecBulk
  <1> HIDE DEF p
  <1>3. << <<p.n>> >> \o << >> = << <<p.n>> >>
    OBVIOUS
  <1> QED
    BY <1>1, <1>2, <1>3 DEF Reads, ReadsAt, p

-----------------------------------------------------------------------------
(***************************************************************************)
(* The running method and its callers are on the trail: bs is where b of   *)
(* the running method starts, o where it is, l what it still decodes, and  *)
(* cs are the methods that wait for it.  All types are of S.               *)
(***************************************************************************)
Course(Items, W, U, fast, S, z, w, n, b, bs, o, l, cs, r) ==
  /\ bs \in Nat /\ bs <= o /\ \A k \in 1 .. Len(cs) : cs[k].base <= o
  /\ \E K : /\ OnCourse(Items, W, U, fast, z, b, w, n, o, r, K)
            /\ Stack(S, l, cs, K)

LEMMA CourseIs ==
  ASSUME NEW Items, NEW W, NEW U, NEW fast, NEW S, NEW z, NEW w, NEW n, NEW b, NEW bs,
         NEW o, NEW l, NEW cs, NEW r,
         Course(Items, W, U, fast, S, z, w, n, b, bs, o, l, cs, r)
  PROVE  /\ o \in Nat /\ o <= b.len /\ bs \in Nat /\ bs <= o
         /\ b.data \in Seq(Nat) /\ b.len \in Nat /\ b.len <= Len(b.data)
         /\ r \in Seq(Seq(Nat)) /\ l \in Seq(S) /\ cs \in Seq(Framed(S))
  <1>1. PICK K : /\ OnCourse(Items, W, U, fast, z, b, w, n, o, r, K)
                 /\ Stack(S, l, cs, K)
    BY DEF Course
  <1>2. /\ o \in Nat /\ o <= b.len /\ r \in Seq(Seq(Nat))
        /\ b.data \in Seq(Nat) /\ b.len \in Nat /\ b.len <= Len(b.data)
    BY <1>1, CourseWithin
  <1>3. l \in Seq(S) /\ cs \in Seq(Framed(S))
    BY <1>1 DEF Stack
  <1> QED
    BY <1>2, <1>3 DEF Course

\* The user's call.
LEMMA CourseBegins ==
  ASSUME NEW Items, NEW W, NEW U \in [Items -> Nat], NEW fast, NEW S, NEW z \in Items,
         U[z] = 0, z.t \in S, NEW w, NEW b, NEW final,
         SafeProofs!Reached(Items, W, fast, z, << >>, w, final), Holds(b, 0, final)
  PROVE  Course(Items, W, U, fast, S, z, w, Len(final), b, 0, 0, <<z.t>>, << >>, << >>)
  <1>1. OnCourse(Items, W, U, fast, z, b, w, Len(final), 0, << >>, <<z.t>>)
    BY CourseStarts
  <1>2. Stack(S, <<z.t>>, << >>, <<z.t>>)
    BY StackStarts
  <1>3. Len(<< >>) = 0
    OBVIOUS
  <1> QED
    BY <1>1, <1>2, <1>3 DEF Course

\* A method that has nothing left returns to its caller.
LEMMA CourseReturns ==
  ASSUME NEW Items, NEW W, NEW U, NEW fast, NEW S, NEW z, NEW w, NEW n, NEW b, NEW bs,
         NEW o, NEW cs, NEW r, cs # << >>,
         Course(Items, W, U, fast, S, z, w, n, b, bs, o, << >>, cs, r)
  PROVE  Course(Items, W, U, fast, S, z, w, n, b, Head(cs).base, o, Head(cs).todo, Tail(cs), r)
  <1> DEFINE F == Framed(S)
             f == Head(cs)
             ds == Tail(cs)
  <1>1. PICK K : /\ OnCourse(Items, W, U, fast, z, b, w, n, o, r, K)
                 /\ Stack(S, << >>, cs, K)
    BY DEF Course
  <1>2. f \in F /\ ds \in Seq(F) /\ Stack(S, f.todo, ds, K)
    BY <1>1, StackReturns
  <1>3. cs \in Seq(F) /\ \A k \in 1 .. Len(cs) : cs[k].base <= o
    BY CourseIs DEF Course
  <1>4. f.base \in Nat
    BY <1>2 DEF Framed
  <1>5. /\ Len(cs) \in Nat /\ Len(cs) > 0 /\ f = cs[1] /\ Len(ds) = Len(cs) - 1
        /\ \A k \in 1 .. Len(cs) - 1 : ds[k] = cs[k + 1]
    <2> HIDE DEF F
    <2> QED
      BY <1>3
  <1> HIDE DEF f, ds, F
  <1>6. f.base <= o /\ \A k \in 1 .. Len(ds) : ds[k].base <= o
    <2>1. 1 \in 1 .. Len(cs) /\ \A k \in 1 .. Len(ds) : k \in 1 .. Len(cs) - 1 /\ k + 1 \in 1 .. Len(cs)
      BY <1>5
    <2> QED
      BY <1>3, <1>5, <2>1
  <1>7. Course(Items, W, U, fast, S, z, w, n, b, f.base, o, f.todo, ds, r)
    BY <1>1, <1>2, <1>4, <1>6 DEF Course
  <1> QED
    BY <1>7 DEF f, ds

\* The user's method returns.
LEMMA CourseOver ==
  ASSUME NEW Items, NEW W, NEW U, NEW fast, NEW S, NEW z, NEW w, NEW n, NEW b, NEW bs,
         NEW o, NEW r,
         Course(Items, W, U, fast, S, z, w, n, b, bs, o, << >>, << >>, r)
  PROVE  r = w /\ o = n
  <1>1. PICK K : /\ OnCourse(Items, W, U, fast, z, b, w, n, o, r, K)
                 /\ Stack(S, << >>, << >>, K)
    BY DEF Course
  <1>2. K = << >>
    BY <1>1, StackEnds
  <1> QED
    BY <1>1, <1>2, CourseEnds

\* Unmarshal decodes at c the value y of which Marshal or Append wrote bytes, and
\* stays on the trail, in the same method or in one of its own.
Onward(Items, W, U, fast, S, z, w, n, b, bs, o, l, cs, r, c, y, bytes, more) ==
  /\ y.t = Head(l) /\ o + Len(bytes) \in Nat /\ o + Len(bytes) <= b.len
  /\ ~Calls(fast, y) =>
       /\ Found(fast, b, c, y, bytes, more)
       /\ Course(Items, W, U, fast, S, z, w, n, b, bs, o + Len(bytes),
                 SafeProofs!Kinds(more) \o Tail(l), cs, r \o SafeProofs!PartsOf(fast, y))
  /\ Calls(fast, y) =>
       Course(Items, W, U, fast, S, z, w, n, b, o, o, Schema[y.t].elems,
              <<[base |-> bs, todo |-> Tail(l)]>> \o cs, r)

LEMMA CourseGoes ==
  ASSUME NEW Items, NEW depth, NEW rank, NEW W, NEW U, NEW R, NEW B,
         Survivable(Items, depth, rank, W, U, R, B), NEW fast \in BOOLEAN,
         NEW S, Closed(S), ~fast => S \subseteq R,
         NEW z, NEW w, NEW n, NEW b, NEW bs, NEW o, NEW l, NEW cs, NEW r, NEW c, l # << >>,
         Course(Items, W, U, fast, S, z, w, n, b, bs, o, l, cs, r),
         c.off = o, SafeReads!ShapeAt(c) = Schema[Head(l)]
  PROVE  \E y, bytes, more :
           Onward(Items, W, U, fast, S, z, w, n, b, bs, o, l, cs, r, c, y, bytes, more)
  <1>1. /\ SafeProofs!Encodable(Items, depth, rank) /\ SafeProofs!Weighed(Items, W, U)
        /\ W \in [Items -> Nat] /\ U \in [Items -> Nat]
    BY Hypotheses
  <1>2. /\ o \in Nat /\ bs \in Nat /\ bs <= o /\ r \in Seq(Seq(Nat)) /\ cs \in Seq(Framed(S))
        /\ \A k \in 1 .. Len(cs) : cs[k].base <= o
    <2>1. /\ o \in Nat /\ bs \in Nat /\ bs <= o /\ r \in Seq(Seq(Nat)) /\ cs \in Seq(Framed(S))
      BY CourseIs
    <2> QED
      BY <2>1 DEF Course
  <1>3. PICK K : /\ OnCourse(Items, W, U, fast, z, b, w, n, o, r, K)
                 /\ Stack(S, l, cs, K)
    BY DEF Course
  <1>4. K # << >> /\ Head(K) = Head(l) /\ Head(l) \in S
    <2>1. << >> \in Seq(S)
      OBVIOUS
    <2> QED
      BY <1>3, <2>1, StackGoesOn
  <1>5. PICK y, bytes, more :
          Turning(Items, W, U, fast, z, b, w, n, o, r, K, y, bytes, more)
    BY <1>1, <1>3, <1>4, CourseGoesOn
  <1> DEFINE p == o + Len(bytes)
             m == SafeProofs!Kinds(more)
             q == r \o SafeProofs!PartsOf(fast, y)
  <1>6. /\ y \in Items /\ U[y] = 0 /\ y.t = Head(K) /\ SafeProofs!Turn(fast, y, bytes, more)
        /\ Holds(b, o, bytes) /\ p + SafeProofs!Load(W, more) <= b.len
        /\ OnCourse(Items, W, U, fast, z, b, w, n, p, q, m \o Tail(K))
    BY <1>5 DEF Turning
  <1>7. y.t = Head(l) /\ y.t \in S
    BY <1>4, <1>6
  <1>8. Len(bytes) \in Nat /\ p \in Nat /\ p <= b.len /\ o <= p
    <2>1. Len(bytes) \in Nat
      BY <1>6, HoldsIs
    <2>2. p <= b.len
      BY <1>6 DEF Holds
    <2> QED
      BY <1>2, <2>1, <2>2
  <1>9. At(b, c, y, bytes)
    BY <1>6, <1>7 DEF At
  <1>10. ~fast => Covers(W, R, y, b, c.off + Len(bytes), more)
    BY <1>6, <1>7 DEF Covers
  <1>11. /\ ~Calls(fast, y) => Found(fast, b, c, y, bytes, more)
         /\ Calls(fast, y) => /\ bytes = << >> /\ m = Schema[y.t].elems
                              /\ SafeProofs!PartsOf(fast, y) = << >>
    BY <1>6, <1>9, <1>10, TurnFound
  <1>12. m \in Seq(S)
    BY <1>1, <1>6, <1>7, KindsClosed
  <1> HIDE DEF m, p, q
  <1>13. ASSUME ~Calls(fast, y)
         PROVE  Course(Items, W, U, fast, S, z, w, n, b, bs, p, m \o Tail(l), cs, q)
    <2>1. Stack(S, m \o Tail(l), cs, m \o Tail(K))
      BY <1>3, <1>12, StackGoesOn
    <2>2. bs <= p
      BY <1>2, <1>8
    <2>3. \A k \in 1 .. Len(cs) : cs[k].base <= p
      <3> TAKE k \in 1 .. Len(cs)
      <3>1. cs[k] \in Framed(S) /\ cs[k].base <= o
        BY <1>2
      <3>2. cs[k].base \in Nat
        BY <3>1 DEF Framed
      <3> QED
        BY <1>2, <1>8, <3>1, <3>2
    <2> QED
      BY <1>2, <1>6, <2>1, <2>2, <2>3 DEF Course
  <1>14. ASSUME Calls(fast, y)
         PROVE  Course(Items, W, U, fast, S, z, w, n, b, o, o, Schema[y.t].elems,
                       <<[base |-> bs, todo |-> Tail(l)]>> \o cs, r)
    <2> DEFINE f == [base |-> bs, todo |-> Tail(l)]
               ds == <<f>> \o cs
    <2>1. Stack(S, m, ds, m \o Tail(K))
      BY <1>2, <1>3, <1>12, StackCalls
    <2>2. m = Schema[y.t].elems
      BY <1>11, <1>14
    <2>3. p = o
      <3>1. Len(<< >>) = 0
        OBVIOUS
      <3> QED
        BY <1>2, <1>11, <1>14, <3>1 DEF p
    <2>4. q = r
      <3>1. r \o << >> = r
        BY <1>2
      <3> QED
        BY <1>11, <1>14, <3>1 DEF q
    <2>5. f.base = bs
      OBVIOUS
    <2> HIDE DEF f
    <2>6. \A k \in 1 .. Len(ds) : ds[k].base <= o
      <3>1. Len(cs) \in Nat
        BY <1>2
      <3>2. /\ Len(ds) = Len(cs) + 1
            /\ \A k \in 1 .. Len(cs) + 1 : ds[k] = IF k <= 1 THEN f ELSE cs[k - 1]
        <4>1. <<f>> \in Seq({f}) /\ Len(<<f>>) = 1 /\ <<f>>[1] = f
          OBVIOUS
        <4>2. /\ Len(<<f>> \o cs) = Len(<<f>>) + Len(cs)
              /\ \A k \in 1 .. Len(<<f>>) + Len(cs) :
                   (<<f>> \o cs)[k] = IF k <= Len(<<f>>) THEN <<f>>[k] ELSE cs[k - Len(<<f>>)]
          BY <1>2
        <4> QED
          BY <3>1, <4>1, <4>2
      <3> HIDE DEF ds
      <3>3. ASSUME NEW k \in 1 .. Len(ds)
            PROVE  ds[k].base <= o
        <4>1. CASE k <= 1
          BY <1>2, <2>5, <3>1, <3>2, <4>1
        <4>2. CASE ~ (k <= 1)
          <5>1. k - 1 \in 1 .. Len(cs) /\ ds[k] = cs[k - 1]
            BY <3>1, <3>2, <4>2
          <5> QED
            BY <1>2, <5>1
        <4> QED
          BY <4>1, <4>2
      <3> QED
        BY <3>3
    <2>7. OnCourse(Items, W, U, fast, z, b, w, n, o, r, m \o Tail(K))
      BY <1>6, <2>3, <2>4
    <2>8. o <= o
      BY <1>2
    <2> HIDE DEF ds
    <2>9. Course(Items, W, U, fast, S, z, w, n, b, o, o, m, ds, r)
      BY <1>2, <2>1, <2>6, <2>7, <2>8 DEF Course
    <2> QED
      BY <2>2, <2>9 DEF ds, f
  <1>15. Onward(Items, W, U, fast, S, z, w, n, b, bs, o, l, cs, r, c, y, bytes, more)
    <2>1. ~Calls(fast, y) =>
            Course(Items, W, U, fast, S, z, w, n, b, bs, o + Len(bytes),
                   SafeProofs!Kinds(more) \o Tail(l), cs, r \o SafeProofs!PartsOf(fast, y))
      BY <1>13 DEF p, m, q
    <2>2. o + Len(bytes) \in Nat /\ o + Len(bytes) <= b.len
      BY <1>8 DEF p
    <2> QED
      BY <1>7, <1>11, <1>14, <2>1, <2>2 DEF Onward
  <1> QED
    BY <1>15

-----------------------------------------------------------------------------
(***************************************************************************)
(* A step of Unmarshal, in the mode of the package.                        *)
(***************************************************************************)
Unmarshals == (safe /\ Dec!Next) \/ (~safe /\ DecFast!Next)

LEMMA DecodeTakes ==
  ASSUME Unmarshals, SafeReads!Ready, left # <<>>, NEW fast, fast = ~safe,
         NEW o \in Nat, o <= in.len, NEW more, SafeReads!Takes(fast, in, Place, o, more)
  PROVE  /\ off' = o /\ left' = more \o Tail(left)
         /\ UNCHANGED <<root, in, base, callers, phase, err>>
  <1>1. ASSUME safe, Dec!Next
        PROVE  SafeReads!Advance(o, more)
    <2>1. SafeReads!Next /\ SafeReads!Takes(~TRUE, in, SafeReads!Now, o, more)
      <3>1. fast = ~TRUE
        BY <1>1
      <3> QED
        BY <1>1, <3>1, SafeReadsNext DEF Place
    <2> QED
      BY <2>1, SafeReadsAssumptions, SafeReads!TakesStep
  <1>2. ASSUME ~safe, DecFast!Next
        PROVE  FastReads!Advance(o, more)
    <2>1. FastReads!Next /\ FastReads!Takes(~FALSE, in, FastReads!Now, o, more)
      <3>1. fast = ~FALSE
        BY <1>2
      <3> QED
        BY <1>2, <3>1, FastReadsNext, SamePlace, SameTakes
    <2>2. FastReads!Ready
      BY SamePlace
    <2> QED
      BY <2>1, <2>2, FastReadsAssumptions, FastReads!TakesStep
  <1> QED
    BY <1>1, <1>2 DEF Unmarshals, SafeReads!Advance, FastReads!Advance

LEMMA DecodeCalls ==
  ASSUME Unmarshals, SafeReads!Ready, left # <<>>, off <= in.len,
         Schema[Head(left)].kind = "struct", ~ (~safe /\ Schema[Head(left)].bulk)
  PROVE  /\ base' = off /\ left' = Schema[Head(left)].elems
         /\ callers' = <<[base |-> base, todo |-> Tail(left)]>> \o callers
         /\ UNCHANGED <<root, in, off, phase, err>>
  <1>1. ASSUME safe, Dec!Next
        PROVE  SafeReads!Enter
    <2>1. SafeReads!Next /\ SafeReads!This.kind = "struct" /\ ~SafeReads!Bulk
      BY <1>1, SafeReadsNext DEF SafeReads!This, SafeReads!Bulk
    <2> QED
      BY <2>1, SafeReadsAssumptions, SafeReads!CallsStep
  <1>2. ASSUME ~safe, DecFast!Next
        PROVE  FastReads!Enter
    <2>1. FastReads!Next /\ FastReads!This.kind = "struct" /\ ~FastReads!Bulk
      BY <1>2, FastReadsNext DEF FastReads!This, FastReads!Bulk
    <2>2. FastReads!Ready
      BY SamePlace
    <2> QED
      BY <2>1, <2>2, FastReadsAssumptions, FastReads!CallsStep
  <1> QED
    BY <1>1, <1>2
       DEF Unmarshals, SafeReads!Enter, FastReads!Enter, SafeReads!This, FastReads!This

LEMMA DecodeReturns ==
  ASSUME Unmarshals, phase = "run", left = <<>>
  PROVE  /\ UNCHANGED <<root, in, off, err>>
         /\ callers # <<>> => /\ base' = Head(callers).base /\ left' = Head(callers).todo
                              /\ callers' = Tail(callers) /\ phase' = phase
         /\ callers = <<>> => phase' = "done"
  <1>1. ASSUME safe, Dec!Next
        PROVE  /\ callers # <<>> => SafeReads!Return
               /\ callers = <<>> => SafeReads!Finish
    <2>1. SafeReads!Next
      BY <1>1, SafeReadsNext
    <2> QED
      BY <2>1, SafeReadsAssumptions, SafeReads!ReturnsStep
  <1>2. ASSUME ~safe, DecFast!Next
        PROVE  /\ callers # <<>> => FastReads!Return
               /\ callers = <<>> => FastReads!Finish
    <2>1. FastReads!Next
      BY <1>2, FastReadsNext
    <2> QED
      BY <2>1, FastReadsAssumptions, FastReads!ReturnsStep
  <1> QED
    BY <1>1, <1>2
       DEF Unmarshals, SafeReads!Return, FastReads!Return, SafeReads!Finish, FastReads!Finish

LEMMA DecodeIsOver ==
  ASSUME Unmarshals, phase = "done"
  PROVE  FALSE
  <1>1. ASSUME safe, Dec!Next
        PROVE  FALSE
    <2>1. SafeReads!Next
      BY <1>1, SafeReadsNext
    <2> QED
      BY <2>1, SafeReadsAssumptions, SafeReads!DoneIsDone
  <1>2. ASSUME ~safe, DecFast!Next
        PROVE  FALSE
    <2>1. FastReads!Next
      BY <1>2, FastReadsNext
    <2> QED
      BY <2>1, FastReadsAssumptions, FastReads!DoneIsDone
  <1> QED
    BY <1>1, <1>2 DEF Unmarshals

LEMMA SeqWithin ==
  ASSUME NEW S, NEW T, S \subseteq T, NEW s \in Seq(S)
  PROVE  s \in Seq(T)
  OBVIOUS

LEMMA KindTaken ==
  ASSUME NEW fast, NEW b, NEW c, NEW o, NEW more, SafeReads!Takes(fast, b, c, o, more)
  PROVE  SafeReads!ShapeAt(c).kind \in
           { "fixed", "block", "string", "bytes", "slice", "array", "struct", "pointer",
             "map", "union" }
  BY DEF SafeReads!Takes, SafeReads!TakesBasic, SafeReads!TakesSlice, SafeReads!TakesArray,
         SafeReads!TakesPointer, SafeReads!TakesMap, SafeReads!TakesUnion,
         SafeReads!TakesBlock

\* Unmarshal of what was written stays on the trail until it is through.
LEMMA DecodeGoes ==
  ASSUME NEW Items, NEW depth, NEW rank, NEW W, NEW U, NEW R, NEW B,
         Survivable(Items, depth, rank, W, U, R, B), NEW fast \in BOOLEAN, fast = ~safe,
         NEW S, Closed(S), ~fast => S \subseteq R, NEW z, NEW w, NEW n,
         phase = "run", Decode,
         Course(Items, W, U, fast, S, z, w, n, in, base, off, left, callers, read)
  PROVE  /\ err' = err
         /\ \/ /\ phase' = "run" /\ in' = in
               /\ Course(Items, W, U, fast, S, z, w, n, in, base', off', left', callers', read')
            \/ phase' = "done" /\ off' = n /\ read' = w
  <1>1. /\ off \in Nat /\ off <= in.len /\ base \in Nat /\ base <= off
        /\ in.data \in Seq(Nat) /\ in.len \in Nat /\ in.len <= Len(in.data)
        /\ left \in Seq(S) /\ read \in Seq(Seq(Nat)) /\ callers \in Seq(Framed(S))
    BY CourseIs
  <1>2. SafeReads!Ready
    <2>1. left \in Seq(Type)
      BY <1>1, SeqWithin DEF Closed
    <2>2. Len(in.data) \in Nat
      BY <1>1
    <2> QED
      BY <1>1, <2>1, <2>2 DEF SafeReads!Ready
  <1>3. /\ Unmarshals
        /\ read' = IF phase' = "run" THEN read \o Reads(off') ELSE read
    BY DEF Decode, Unmarshals
  <1>4. ASSUME left # << >>
        PROVE  /\ err' = err /\ phase' = "run" /\ in' = in
               /\ Course(Items, W, U, fast, S, z, w, n, in, base', off', left', callers', read')
    <2>1. /\ Place.off = off /\ SafeReads!ShapeAt(Place) = Schema[Head(left)]
      BY <1>4, PlaceIs
    <2>2. PICK y, bytes, more :
            Onward(Items, W, U, fast, S, z, w, n, in, base, off, left, callers, read, Place,
                   y, bytes, more)
      BY <1>4, <2>1, CourseGoes
    <2> DEFINE o == off + Len(bytes)
               m == SafeProofs!Kinds(more)
               ps == SafeProofs!PartsOf(fast, y)
    <2>3. /\ y.t = Head(left) /\ o \in Nat /\ o <= in.len
          /\ ~Calls(fast, y) =>
               /\ Found(fast, in, Place, y, bytes, more)
               /\ Course(Items, W, U, fast, S, z, w, n, in, base, o, m \o Tail(left), callers,
                         read \o ps)
          /\ Calls(fast, y) =>
               Course(Items, W, U, fast, S, z, w, n, in, off, off, Schema[y.t].elems,
                      <<[base |-> base, todo |-> Tail(left)]>> \o callers, read)
      BY <2>2 DEF Onward
    <2>4. ASSUME ~Calls(fast, y)
          PROVE  /\ err' = err /\ phase' = "run" /\ in' = in
                 /\ Course(Items, W, U, fast, S, z, w, n, in, base', off', left', callers', read')
      <3>1. /\ SafeReads!Takes(fast, in, Place, o, m)
            /\ ReadsAt(fast, in, Place, o) = ps
        BY <2>1, <2>3, <2>4 DEF Found
      <3> HIDE DEF o, m, ps
      <3>2. /\ off' = o /\ left' = m \o Tail(left)
            /\ UNCHANGED <<root, in, base, callers, phase, err>>
        BY <1>2, <1>3, <1>4, <2>3, <3>1, DecodeTakes
      <3>3. Schema[Head(left)].kind \in
              { "fixed", "block", "string", "bytes", "slice", "array", "struct", "pointer",
                "map", "union" }
        BY <2>1, <3>1, KindTaken
      <3>4. Reads(o) = ps
        BY <1>4, <3>1, <3>3, ReadsIs
      <3>5. read' = read \o ps /\ phase' = "run"
        BY <1>3, <3>2, <3>4
      <3>6. Course(Items, W, U, fast, S, z, w, n, in, base, o, m \o Tail(left), callers,
                   read \o ps)
        BY <2>3, <2>4
      <3>7. base' = base /\ callers' = callers /\ in' = in /\ err' = err
        BY <3>2
      <3> QED
        BY <3>2, <3>5, <3>6, <3>7
    <2>5. ASSUME Calls(fast, y)
          PROVE  /\ err' = err /\ phase' = "run" /\ in' = in
                 /\ Course(Items, W, U, fast, S, z, w, n, in, base', off', left', callers', read')
      <3>1. Schema[Head(left)].kind = "struct" /\ ~ (~safe /\ Schema[Head(left)].bulk)
        BY <2>3, <2>5 DEF Calls, SafeProofs!Copied
      <3>2. /\ base' = off /\ left' = Schema[Head(left)].elems
            /\ callers' = <<[base |-> base, todo |-> Tail(left)]>> \o callers
            /\ UNCHANGED <<root, in, off, phase, err>>
        BY <1>1, <1>2, <1>3, <1>4, <3>1, DecodeCalls
      <3>3. Reads(off') = << >>
        <4>1. Dec!This.kind = "struct" /\ ~DecBulk
          BY <3>1 DEF DecBulk, Dec!This
        <4> QED
          BY <1>4, <4>1 DEF Reads
      <3>4. phase' = "run" /\ read' = read
        <4>1. read \o << >> = read
          BY <1>1
        <4> QED
          BY <1>3, <3>2, <3>3, <4>1
      <3>5. Course(Items, W, U, fast, S, z, w, n, in, off, off, Schema[y.t].elems,
                   <<[base |-> base, todo |-> Tail(left)]>> \o callers, read)
        BY <2>3, <2>5
      <3> QED
        BY <2>3, <3>2, <3>4, <3>5
    <2> QED
      BY <2>4, <2>5
  <1>5. ASSUME left = << >>, callers # << >>
        PROVE  /\ err' = err /\ phase' = "run" /\ in' = in
               /\ Course(Items, W, U, fast, S, z, w, n, in, base', off', left', callers', read')
    <2>1. /\ UNCHANGED <<root, in, off, err>>
          /\ base' = Head(callers).base /\ left' = Head(callers).todo
          /\ callers' = Tail(callers) /\ phase' = phase
      BY <1>3, <1>5, DecodeReturns
    <2>2. read' = read
      <3>1. read \o << >> = read
        BY <1>1
      <3>2. Reads(off') = << >>
        BY <1>5 DEF Reads
      <3> QED
        BY <1>3, <3>1, <3>2
    <2>3. Course(Items, W, U, fast, S, z, w, n, in, Head(callers).base, off,
                 Head(callers).todo, Tail(callers), read)
      BY <1>5, CourseReturns
    <2> QED
      BY <2>1, <2>2, <2>3
  <1>6. ASSUME left = << >>, callers = << >>
        PROVE  err' = err /\ phase' = "done" /\ off' = n /\ read' = w
    <2>1. UNCHANGED <<root, in, off, err>> /\ phase' = "done"
      BY <1>3, <1>6, DecodeReturns
    <2>2. read = w /\ off = n
      BY <1>6, CourseOver
    <2> QED
      BY <1>3, <2>1, <2>2
  <1> QED
    BY <1>4, <1>5, <1>6

-----------------------------------------------------------------------------
(***************************************************************************)
(* What Unmarshal is given.                                                *)
(***************************************************************************)
LEMMA EncodeKeepsRoot == Encode => root' = root
  <1>1. Enc!Next => root' = root
    BY DEF Enc!Next, Enc!SizeSlice, Enc!SizeArray, Enc!SizeMap, Enc!SizeUnion, Enc!SizeOther,
         Enc!MarshalSlice, Enc!MarshalArray, Enc!MarshalMap, Enc!MarshalUnion,
         Enc!MarshalStruct, Enc!MarshalOther, Enc!AppendSlice, Enc!AppendArray,
         Enc!AppendMap, Enc!AppendUnion, Enc!AppendOther, Enc!NotAMember, Enc!CallMarshal,
         Enc!CallAppend, Enc!Finish, Enc!Add, Enc!Write, Enc!Descend, Enc!Push
  <1>2. EncFast!Next => root' = root
    BY DEF EncFast!Next, EncFast!SizeSlice, EncFast!SizeArray, EncFast!SizeMap,
         EncFast!SizeUnion, EncFast!SizeOther, EncFast!MarshalSlice, EncFast!MarshalArray,
         EncFast!MarshalMap, EncFast!MarshalUnion, EncFast!MarshalStruct,
         EncFast!MarshalOther, EncFast!AppendSlice, EncFast!AppendArray, EncFast!AppendMap,
         EncFast!AppendUnion, EncFast!AppendOther, EncFast!NotAMember, EncFast!CallMarshal,
         EncFast!CallAppend, EncFast!Finish, EncFast!Add, EncFast!Write, EncFast!Descend,
         EncFast!Push
  <1> QED
    BY <1>1, <1>2 DEF Encode

\* The bytes of b from o on are those of bytes, and all that b holds are bytes.
LEMMA FirstHeld ==
  ASSUME NEW d, NEW n \in Nat, NEW m \in Nat, SafeProofs!IsSeq(d), n <= m, m <= Len(d),
         SafeProofs!First(d, n) \in Seq(Nat), \A k \in (n + 1) .. Len(d) : d[k] \in Nat,
         NEW b, b = [data |-> d, len |-> m]
  PROVE  Holds(b, 0, SafeProofs!First(d, n)) /\ Len(SafeProofs!First(d, n)) = n
  <1> DEFINE f == SafeProofs!First(d, n)
  <1>1. Len(d) \in Nat /\ d = [k \in 1 .. Len(d) |-> d[k]]
    BY DEF SafeProofs!IsSeq
  <1>2. Len(f) = n /\ \A k \in 1 .. n : f[k] = d[k]
    BY DEF SafeProofs!First
  <1>3. \A k \in 1 .. n : d[k] \in Nat
    BY <1>2
  <1>4. \A k \in 1 .. Len(d) : d[k] \in Nat
    BY <1>1, <1>3
  <1>5. d \in Seq(Nat)
    BY <1>1, <1>4
  <1>6. b.data = d /\ b.len = m
    OBVIOUS
  <1>7. \A k \in 1 .. n : 0 + k = k
    OBVIOUS
  <1> HIDE DEF f
  <1> QED
    BY <1>1, <1>2, <1>5, <1>6, <1>7 DEF Holds, f

\* The buffer holds what the value was written to.
Given(Items, W, U, b) ==
  \E final : /\ SafeProofs!Reached(Items, W, ~safe, SafeProofs!Whole, << >>, written, final)
             /\ Holds(b, 0, final) /\ Len(final) = size
             /\ SafeProofs!Whole \in Items /\ U[SafeProofs!Whole] = 0

LEMMA MarshalledIsGiven ==
  ASSUME NEW Items, NEW W, NEW U, SafeProofs!Agree(Items, W, U),
         SafeProofs!Traced(Items, W, ~safe, written, marshalled),
         pass = "marshal", todo = << >>, Len(buf) >= size, NEW n \in size .. Len(buf),
         NEW b, b = [data |-> buf, len |-> n]
  PROVE  Given(Items, W, U, b)
  <1> DEFINE final == SafeProofs!First(buf, size)
  <1>1. /\ SafeProofs!Whole \in Items /\ size \in Nat /\ i \in Nat /\ SafeProofs!IsSeq(buf)
        /\ U[SafeProofs!Whole] = 0 /\ i + SafeProofs!Load(W, todo) = size
        /\ \A k \in (size + 1) .. Len(buf) : buf[k] = Fill
    BY DEF SafeProofs!Agree, SafeProofs!Typed, SafeProofs!Measured, SafeProofs!Marshalling,
           SafeProofs!Behind
  <1>2. SafeProofs!Load(W, << >>) = 0
    BY SafeProofs!LoadEmpty
  <1>3. i = size
    BY <1>1, <1>2
  <1>4. SafeProofs!Reached(Items, W, ~safe, SafeProofs!Whole, << >>, written, final)
    BY <1>3 DEF SafeProofs!Traced
  <1>5. final \in Seq(Nat)
    BY <1>4, SafeProofs!ReachedIs
  <1>6. Len(buf) \in Nat /\ n \in Nat /\ size <= n /\ n <= Len(buf)
    BY <1>1 DEF SafeProofs!IsSeq
  <1>7. \A k \in (size + 1) .. Len(buf) : buf[k] \in Nat
    BY <1>1, FillAssumption
  <1>8. Holds(b, 0, final) /\ Len(final) = size
    BY <1>1, <1>5, <1>6, <1>7, FirstHeld
  <1> HIDE DEF final
  <1> QED
    BY <1>1, <1>4, <1>8 DEF Given

LEMMA AppendedIsGiven ==
  ASSUME NEW Items, NEW W, NEW U, SafeProofs!Agree(Items, W, U),
         SafeProofs!Traced(Items, W, ~safe, written, marshalled), pass = "done",
         NEW final, final = SubSeq(out, Len(before) + 1, Len(out)),
         NEW b, b = [data |-> final, len |-> Len(final)]
  PROVE  Given(Items, W, U, b)
  <1>1. /\ SafeProofs!Whole \in Items /\ size \in Nat /\ out \in Seq(Nat) /\ before \in Seq(Nat)
        /\ U[SafeProofs!Whole] = 0 /\ Len(out) = Len(before) + size
    BY DEF SafeProofs!Agree, SafeProofs!Typed, SafeProofs!Measured, SafeProofs!Appending
  <1>2. /\ todo = << >>
        /\ SafeProofs!Reached(Items, W, ~safe, SafeProofs!Whole, todo, written, final)
    BY DEF SafeProofs!Traced, SafeProofs!Appended
  <1>3. final \in Seq(Nat)
    BY <1>2, SafeProofs!ReachedIs
  <1>4. Len(final) = size
    <2>1. Len(out) \in Nat /\ Len(before) \in Nat
      BY <1>1
    <2>2. /\ Len(before) + 1 \in Int /\ Len(out) \in Int
          /\ \A k \in Len(before) + 1 .. Len(out) : out[k] \in Nat
      BY <1>1, <2>1
    <2>3. Len(final) = IF Len(before) + 1 <= Len(out) THEN Len(out) - (Len(before) + 1) + 1
                                                       ELSE 0
      BY <2>2, SubSeqProperties
    <2> QED
      BY <1>1, <2>1, <2>3
  <1>5. Holds(b, 0, final)
    <2>1. b.data = final /\ b.len = Len(final) /\ Len(final) \in Nat
      BY <1>3
    <2>2. \A k \in 1 .. Len(final) : 0 + k = k
      OBVIOUS
    <2> QED
      BY <1>3, <2>1, <2>2 DEF Holds
  <1> QED
    BY <1>1, <1>2, <1>4, <1>5 DEF Given

-----------------------------------------------------------------------------
(***************************************************************************)
(* Unmarshal never leaves the trail, and is through when it has read all.  *)
(***************************************************************************)
Sorts(R) == IF safe THEN R ELSE Type

Reading(Items, W, U, R) ==
  /\ safe \in BOOLEAN /\ (safe => root \in Sized)
  /\ phase \in { "idle", "run", "done" } /\ err = Dec!NoErr
  /\ phase = "idle" => base = 0 /\ off = 0 /\ callers = << >> /\ read = << >>
  /\ phase = "run" => Course(Items, W, U, ~safe, Sorts(R), SafeProofs!Whole, written, size,
                             in, base, off, left, callers, read)
  /\ phase = "done" => off = size /\ read = written

LEMMA TypesClosed == Closed(Type)
  <1>1. Schema \in [Type -> SafeReads!Shape]
    BY SafeReadsAssumptions DEF SafeReads!SchemaAssumption
  <1>2. ASSUME NEW t \in Type
        PROVE  \A k \in DOMAIN Schema[t].elems : Schema[t].elems[k] \in Type
    <2>1. Schema[t].elems \in Seq(Type)
      BY <1>1 DEF SafeReads!Shape
    <2> QED
      BY <2>1
  <1> QED
    BY <1>2 DEF Closed

LEMMA SortsClosed ==
  ASSUME NEW R, NEW B, LengthsFit(R, B), safe \in BOOLEAN
  PROVE  Closed(Sorts(R)) /\ (safe => Sorts(R) \subseteq R)
  <1>1. Closed(R)
    BY DEF LengthsFit, Closed
  <1> QED
    BY <1>1, TypesClosed DEF Sorts

\* Unmarshal is called.
LEMMA GiveStarts ==
  ASSUME NEW Items, NEW depth, NEW rank, NEW W, NEW U, NEW R, NEW B,
         Survivable(Items, depth, rank, W, U, R, B), SafeProofs!Agree(Items, W, U),
         Reading(Items, W, U, R), NEW d, NEW n, Give(d, n),
         Given(Items, W, U, [data |-> d, len |-> n])
  PROVE  Reading(Items, W, U, R)'
  <1> DEFINE z == SafeProofs!Whole
             S == Sorts(R)
             b == [data |-> d, len |-> n]
  <1>1. /\ in' = b /\ left' = <<root>> /\ phase' = "run" /\ safe' = safe /\ root' = root
        /\ base' = base /\ off' = off /\ callers' = callers /\ err' = err
        /\ written' = written /\ read' = read /\ phase = "idle"
        /\ val' = val /\ size' = size
    BY DEF Give, encoder
  <1>2. /\ safe \in BOOLEAN /\ (safe => root \in Sized) /\ err = Dec!NoErr
        /\ base = 0 /\ off = 0 /\ callers = << >> /\ read = << >>
    BY <1>1 DEF Reading
  <1>3. PICK final :
          /\ SafeProofs!Reached(Items, W, ~safe, z, << >>, written, final)
          /\ Holds(b, 0, final) /\ Len(final) = size /\ z \in Items /\ U[z] = 0
    BY DEF Given
  <1>4. z.t = root
    BY DEF SafeProofs!Whole, SafeProofs!Item
  <1>5. root \in S
    <2>1. safe => root \in R
      BY <1>2 DEF Survivable, LengthsFit
    <2>2. SafeProofs!Trees(Items, depth)
      BY Hypotheses
    <2>3. z.t \in Type
      BY <1>3, <2>2 DEF SafeProofs!Trees, SafeProofs!WellFormed
    <2> QED
      BY <1>4, <2>1, <2>3 DEF Sorts
  <1>6. U \in [Items -> Nat]
    BY Hypotheses
  <1> HIDE DEF z, S, b
  <1>7. Course(Items, W, U, ~safe, S, z, written, size, b, 0, 0, <<root>>, << >>, << >>)
    BY <1>3, <1>4, <1>5, <1>6, CourseBegins
  <1>8. Sorts(R)' = S /\ SafeProofs!Whole' = z
    BY <1>1 DEF Sorts, S, z, SafeProofs!Whole
  <1> QED
    BY <1>1, <1>2, <1>7, <1>8 DEF Reading

LEMMA ReadingNext ==
  ASSUME NEW Items, NEW depth, NEW rank, NEW W, NEW U, NEW R, NEW B,
         Survivable(Items, depth, rank, W, U, R, B), SafeProofs!Agree(Items, W, U),
         SafeProofs!Traced(Items, W, ~safe, written, marshalled),
         Reading(Items, W, U, R), [Next]_vars
  PROVE  Reading(Items, W, U, R)'
  <1>0. /\ safe \in BOOLEAN /\ (safe => root \in Sized)
        /\ phase \in { "idle", "run", "done" } /\ err = Dec!NoErr
    BY DEF Reading
  <1>1. CASE Encode
    <2>1. /\ phase = "idle" /\ safe' = safe /\ phase' = phase /\ err' = err /\ base' = base
          /\ off' = off /\ callers' = callers /\ read' = read /\ root' = root
      BY <1>1, EncodeKeepsRoot DEF Encode, decoder
    <2>2. base = 0 /\ off = 0 /\ callers = << >> /\ read = << >>
      BY <2>1 DEF Reading
    <2> QED
      BY <1>0, <2>1, <2>2 DEF Reading
  <1>2. CASE DeliverMarshalled
    <2>1. /\ pass = "marshal" /\ todo = << >> /\ Len(buf) >= size
          /\ \E n \in size .. Len(buf) : Give(buf, n)
      BY <1>2 DEF DeliverMarshalled
    <2>2. PICK n \in size .. Len(buf) : Give(buf, n)
      BY <2>1
    <2>3. Given(Items, W, U, [data |-> buf, len |-> n])
      BY <2>1, MarshalledIsGiven
    <2> QED
      BY <2>2, <2>3, GiveStarts
  <1>3. CASE DeliverAppended
    <2> DEFINE final == SubSeq(out, Len(before) + 1, Len(out))
    <2>1. pass = "done" /\ Give(final, Len(final))
      BY <1>3 DEF DeliverAppended
    <2>2. Given(Items, W, U, [data |-> final, len |-> Len(final)])
      BY <2>1, AppendedIsGiven
    <2> QED
      BY <2>1, <2>2, GiveStarts
  <1>4. CASE Decode
    <2> DEFINE z == SafeProofs!Whole
               S == Sorts(R)
               fast == ~safe
    <2>1. /\ safe' = safe /\ encoder' = encoder /\ written' = written /\ root' = root
          /\ phase \in { "run", "failed" }
      BY <1>4, DecodeKeepsRoot DEF Decode
    <2>2. val' = val /\ size' = size
      BY <2>1 DEF encoder
    <2>3. phase = "run"
      BY <1>0, <2>1
    <2>4. Course(Items, W, U, fast, S, z, written, size, in, base, off, left, callers, read)
      BY <2>3 DEF Reading
    <2>5. Closed(S) /\ (~fast => S \subseteq R) /\ fast \in BOOLEAN
      BY <1>0, SortsClosed DEF Survivable
    <2>6. Sorts(R)' = S /\ SafeProofs!Whole' = z
      BY <2>1, <2>2 DEF Sorts, SafeProofs!Whole
    <2>7. fast = ~safe
      OBVIOUS
    <2> HIDE DEF z, S, fast
    <2>8. /\ err' = err
          /\ \/ /\ phase' = "run" /\ in' = in
                /\ Course(Items, W, U, fast, S, z, written, size, in, base', off', left', callers', read')
             \/ phase' = "done" /\ off' = size /\ read' = written
      BY <1>4, <2>3, <2>4, <2>5, <2>7, DecodeGoes
    <2> QED
      BY <1>0, <2>1, <2>2, <2>6, <2>7, <2>8 DEF Reading
  <1>5. CASE UNCHANGED vars
    <2>1. /\ safe' = safe /\ root' = root /\ phase' = phase /\ err' = err /\ in' = in
          /\ base' = base /\ off' = off /\ left' = left /\ callers' = callers
          /\ read' = read /\ written' = written /\ size' = size /\ val' = val
      BY <1>5 DEF vars, encoder, decoder
    <2> QED
      BY <2>1 DEF Reading, Sorts, SafeProofs!Whole
  <1> QED
    BY <1>1, <1>2, <1>3, <1>4, <1>5 DEF Next

LEMMA ReadingAtInit ==
  ASSUME NEW Items, NEW W, NEW U, NEW R, Init
  PROVE  Reading(Items, W, U, R)
  BY DEF Init, Idle, Reading

LEMMA ReadingSays ==
  ASSUME NEW Items, NEW W, NEW U, NEW R, Reading(Items, W, U, R)
  PROVE  RoundTrip
  BY DEF Reading, RoundTrip

-----------------------------------------------------------------------------
\* Every value survives the round trip, in both modes, whatever order its maps
\* are visited in: given what Marshal wrote, with or without the bytes behind
\* it, or what Append appended, Unmarshal does not panic, returns no error and
\* Size bytes, and reads the parts that were written.  Of the codec's varint it
\* is assumed that what PutUvarint writes Uvarint reads back, which VarintProofs
\* proves, and of the roots of safe mode that no length is larger than the bytes
\* it takes.
THEOREM ValuesSurvive ==
  ASSUME NEW Items, NEW depth, NEW rank, Enc!Encodable(Items, depth, rank),
         PrefixesRead(Items, Seq(Nat)), NEW R, NEW B, LengthsFit(R, B)
  PROVE  Spec => []RoundTrip
  <1>1. SafeProofs!Encodable(Items, depth, rank)
    BY SameHypotheses
  <1>2. /\ \E W : SafeProofs!Bytes(W, Items)
        /\ \E U : SafeProofs!Stops(U, Items)
    BY <1>1, SafeProofs!BytesExist
  <1>3. PICK W : SafeProofs!Bytes(W, Items)
    BY <1>2
  <1>4. PICK U : SafeProofs!Stops(U, Items)
    BY <1>2
  <1>5. SafeProofs!Weighed(Items, W, U)
    BY <1>3, <1>4 DEF SafeProofs!Weighed
  <1>6. Survivable(Items, depth, rank, W, U, R, B)
    BY <1>5 DEF Survivable
  <1> DEFINE Inv == /\ SafeProofs!Agree(Items, W, U)
                    /\ SafeProofs!Traced(Items, W, ~safe, written, marshalled)
                    /\ Reading(Items, W, U, R)
  <1>7. Init => Inv
    BY <1>5, AgreeAtInit, TracedAtInit, ReadingAtInit
  <1>8. Inv /\ [Next]_vars => Inv'
    BY <1>5, <1>6, AgreeNext, TracedNext, ReadingNext
  <1>9. Inv => RoundTrip
    BY ReadingSays
  <1> HIDE DEF Inv
  <1> QED
    BY <1>7, <1>8, <1>9, PTL DEF Spec
=============================================================================
