---------------------------- MODULE EncoderProofs ----------------------------
(***************************************************************************)
(* Size, Marshal and Append agree on the number of bytes of a value, for   *)
(* every package, every value and every order its maps are visited in; and *)
(* Marshal and Append on the bytes, where they visit them in one order.    *)
(***************************************************************************)
EXTENDS Encoder, SequenceTheorems, FiniteSetTheorems, WellFoundedInduction, TLAPS

-----------------------------------------------------------------------------
(***************************************************************************)
(* Induction over sets of natural numbers, and functions defined by it, as *)
(* in VarintProofs.                                                        *)
(***************************************************************************)

LEMMA Least ==
  ASSUME NEW T \in SUBSET Nat, T # {}
  PROVE  \E m \in T : \A n \in T : m <= n
  <1> DEFINE R == OpToRel(<, Nat)
  <1>1. IsWellFoundedOn(R, Nat)
    BY NatLessThanWellFounded
  <1>2. \A m, n \in Nat : m < n => <<m, n>> \in R
    BY DEF OpToRel
  <1> HIDE DEF R
  <1>3. \E m \in T : \A n \in T : ~ (<<n, m>> \in R)
    BY <1>1, WFMin
  <1>4. PICK m \in T : \A n \in T : ~ (<<n, m>> \in R)
    BY <1>3
  <1>5. ASSUME NEW n \in T
        PROVE  m <= n
    <2>1. m \in Nat /\ n \in Nat
      OBVIOUS
    <2>2. ~ (n < m)
      BY <1>2, <1>4, <2>1
    <2> QED
      BY <2>1, <2>2
  <1> QED
    BY <1>5

LEMMA SetInduction ==
  ASSUME NEW T \in SUBSET Nat, 0 \in T, \A n \in T : n + 1 \in T
  PROVE  T = Nat
  <1> SUFFICES ASSUME Nat \ T # {} PROVE FALSE
    OBVIOUS
  <1>1. PICK m \in Nat \ T : \A n \in Nat \ T : m <= n
    BY Least
  <1>2. m # 0 /\ m - 1 \in Nat /\ m - 1 \in T
    BY <1>1
  <1> QED
    BY <1>1, <1>2

\* The first values of the function that starts at c and goes on by h.
Upto(n, S, c, h) ==
  { g \in [0 .. n -> S] : g[0] = c /\ \A k \in 0 .. n - 1 : g[k + 1] = h[<<k, g[k]>>] }

LEMMA UptoExists ==
  ASSUME NEW S, NEW c \in S, NEW h \in [Nat \X S -> S]
  PROVE  \A n \in Nat : Upto(n, S, c, h) # {}
  <1> DEFINE T == { n \in Nat : Upto(n, S, c, h) # {} }
  <1>1. 0 \in T
    <2>1. [k \in 0 .. 0 |-> c] \in Upto(0, S, c, h)
      BY DEF Upto
    <2> QED
      BY <2>1
  <1>2. ASSUME NEW n \in T
        PROVE  n + 1 \in T
    <2>1. n \in Nat /\ n + 1 \in Nat
      OBVIOUS
    <2>2. PICK g \in Upto(n, S, c, h) : TRUE
      OBVIOUS
    <2>3. /\ g \in [0 .. n -> S] /\ g[0] = c
          /\ \A k \in 0 .. n - 1 : g[k + 1] = h[<<k, g[k]>>]
      BY DEF Upto
    <2> DEFINE e == [k \in 0 .. n + 1 |-> IF k <= n THEN g[k] ELSE h[<<n, g[n]>>]]
    <2>4. e \in [0 .. n + 1 -> S]
      BY <2>1, <2>3
    <2>5. /\ e[0] = c
          /\ \A k \in 0 .. n : e[k] = g[k]
          /\ e[n + 1] = h[<<n, g[n]>>]
      BY <2>1, <2>3
    <2> HIDE DEF e
    <2>6. \A k \in 0 .. (n + 1) - 1 : e[k + 1] = h[<<k, e[k]>>]
      BY <2>1, <2>3, <2>5
    <2>7. e \in Upto(n + 1, S, c, h)
      BY <2>4, <2>5, <2>6 DEF Upto
    <2> QED
      BY <2>1, <2>7
  <1> HIDE DEF T
  <1>3. T \in SUBSET Nat
    BY DEF T
  <1>4. T = Nat
    BY <1>1, <1>2, <1>3, SetInduction
  <1> QED
    BY <1>4 DEF T


LEMMA UptoAgree ==
  ASSUME NEW S, NEW c \in S, NEW h \in [Nat \X S -> S],
         NEW m \in Nat, NEW n \in Nat,
         NEW f \in Upto(m, S, c, h), NEW g \in Upto(n, S, c, h),
         NEW k \in Nat, k <= m, k <= n
  PROVE  f[k] = g[k]
  <1> DEFINE T == { j \in Nat : j <= m /\ j <= n => f[j] = g[j] }
  <1>1. 0 \in T
    BY DEF Upto
  <1>2. ASSUME NEW j \in T
        PROVE  j + 1 \in T
    <2>1. j + 1 <= m /\ j + 1 <= n => f[j + 1] = g[j + 1]
      <3> SUFFICES ASSUME j + 1 <= m, j + 1 <= n
                   PROVE  f[j + 1] = g[j + 1]
        OBVIOUS
      <3>1. j \in 0 .. m - 1 /\ j \in 0 .. n - 1 /\ f[j] = g[j]
        OBVIOUS
      <3> QED
        BY <3>1 DEF Upto
    <2> QED
      BY <2>1
  <1> HIDE DEF T
  <1>3. T \in SUBSET Nat
    BY DEF T
  <1>4. T = Nat
    BY <1>1, <1>2, <1>3, SetInduction
  <1> QED
    BY <1>4 DEF T

\* f starts at c and goes on by h.
Recursive(f, S, c, h) ==
  f \in [Nat -> S] /\ f[0] = c /\ \A n \in Nat : f[n + 1] = h[<<n, f[n]>>]

\* A function may be defined by what it is at 0 and how it goes on.
LEMMA PrimitiveRecursion ==
  ASSUME NEW S, NEW c \in S, NEW h \in [Nat \X S -> S]
  PROVE  \E f : Recursive(f, S, c, h)
  <1> DEFINE g == [n \in Nat |-> CHOOSE e \in Upto(n, S, c, h) : TRUE]
             f == [n \in Nat |-> g[n][n]]
  <1>1. \A n \in Nat : g[n] \in Upto(n, S, c, h)
    BY UptoExists
  <1> HIDE DEF g
  <1>0. DOMAIN f = Nat /\ \A n \in Nat : f[n] = g[n][n] /\ f[n + 1] = g[n + 1][n + 1]
    OBVIOUS
  <1>f. f = [n \in Nat |-> f[n]]
    OBVIOUS
  <1> HIDE DEF f
  <1>2. ASSUME NEW n \in Nat
        PROVE  /\ f[n] \in S /\ f[0] = c
               /\ f[n + 1] = h[<<n, f[n]>>]
    <2>1. /\ g[n] \in Upto(n, S, c, h) /\ g[n + 1] \in Upto(n + 1, S, c, h)
          /\ g[0] \in Upto(0, S, c, h)
      BY <1>1
    <2>2. g[n][n] \in S /\ g[0][0] = c /\ g[n + 1][n + 1] = h[<<n, g[n + 1][n]>>]
      BY <2>1 DEF Upto
    <2>3. g[n][n] = g[n + 1][n]
      <3>1. n + 1 \in Nat /\ n <= n /\ n <= n + 1
        OBVIOUS
      <3> DEFINE m == n + 1
                 d == g[n]
                 e == g[m]
      <3>2. d \in Upto(n, S, c, h) /\ e \in Upto(m, S, c, h)
        BY <2>1
      <3> HIDE DEF m, d, e
      <3>3. d[n] = e[n]
        BY <3>1, <3>2, UptoAgree DEF m
      <3> QED
        BY <3>3 DEF m, d, e
    <2> QED
      <3>1. f[n] = g[n][n] /\ f[0] = g[0][0] /\ f[n + 1] = g[n + 1][n + 1]
        BY <1>0
      <3> QED
        BY <2>2, <2>3, <3>1
  <1>3. f \in [Nat -> S]
    BY <1>2, <1>f
  <1> QED
    BY <1>2, <1>3 DEF Recursive

Maps(X, V) == [X -> V]

\* Phi says of a member of X what it knows of those of a lower rank.
Descends(Phi, X, rank) ==
  \A f, g \in DOMAIN Phi : \A x \in X :
    (\A y \in X : rank[y] < rank[x] => f[y] = g[y]) => Phi[f][x] = Phi[g][x]

\* A function may be defined by what it is at members of a lower rank.
LEMMA Unfolding ==
  ASSUME NEW X, NEW V, NEW rank \in Maps(X, Nat), NEW start \in Maps(X, V),
         NEW Phi \in Maps(Maps(X, V), Maps(X, V)), Descends(Phi, X, rank)
  PROVE  \E f \in Maps(X, V) : Phi[f] = f
  <1> USE DEF Maps
  <1> DEFINE S == [X -> V]
             h == [p \in Nat \X S |-> Phi[p[2]]]
  <1>1. h \in [Nat \X S -> S]
    OBVIOUS
  <1>2. \A n \in Nat, f \in S : h[<<n, f>>] = Phi[f]
    OBVIOUS
  <1>3. start \in S /\ Phi \in [S -> S] /\ \A f \in S : Phi[f] \in S
    OBVIOUS
  <1>s. \A f \in S : f = [x \in X |-> f[x]]
    OBVIOUS
  <1>d. ASSUME NEW f \in S, NEW g \in S, NEW x \in X,
               \A y \in X : rank[y] < rank[x] => f[y] = g[y]
        PROVE  Phi[f][x] = Phi[g][x]
    BY <1>d DEF Descends
  <1>r. \A x \in X : rank[x] \in Nat
    OBVIOUS
  <1> HIDE DEF h
  <1>4. PICK G : Recursive(G, S, start, h)
    BY <1>1, <1>3, PrimitiveRecursion
  <1>5. /\ \A n \in Nat : G[n] \in S
        /\ \A n \in Nat : G[n + 1] = h[<<n, G[n]>>]
    BY <1>4 DEF Recursive
  <1>6. \A n \in Nat : G[n] \in S /\ G[n + 1] = Phi[G[n]]
    BY <1>2, <1>5
  <1> HIDE DEF S
  <1> DEFINE T == { n \in Nat : \A x \in X : rank[x] < n => G[n + 1][x] = G[n][x] }
  <1>7. 0 \in T
    BY <1>r
  <1>8. ASSUME NEW n \in Nat, n \in T
        PROVE  n + 1 \in T
    <2>1. n + 1 \in Nat /\ (n + 1) + 1 \in Nat
      OBVIOUS
    <2>2. ASSUME NEW x \in X, rank[x] < n + 1
          PROVE  G[(n + 1) + 1][x] = G[n + 1][x]
      <3>1. G[(n + 1) + 1] = Phi[G[n + 1]] /\ G[n + 1] = Phi[G[n]]
        BY <1>6, <2>1
      <3>2. ASSUME NEW y \in X, rank[y] < rank[x]
            PROVE  G[n + 1][y] = G[n][y]
        <4>1. rank[y] < n
          BY <2>2, <3>2, <1>r
        <4> QED
          BY <4>1, <1>8
      <3>3. G[n + 1] \in S /\ G[n] \in S
        BY <1>6, <2>1
      <3>4. Phi[G[n + 1]][x] = Phi[G[n]][x]
        BY <3>2, <3>3, <1>d
      <3> QED
        BY <3>1, <3>4
    <2> QED
      BY <2>1, <2>2
  <1>9. \A n \in T : n \in Nat /\ \A x \in X : rank[x] < n => G[n + 1][x] = G[n][x]
    OBVIOUS
  <1> HIDE DEF T
  <1>10. T \in SUBSET Nat
    BY DEF T
  <1>11. T = Nat
    BY <1>7, <1>8, <1>10, SetInduction
  <1> DEFINE f == [x \in X |-> G[rank[x] + 1][x]]
  <1>12. ASSUME NEW x \in X
         PROVE  f[x] \in V /\ f[x] = G[rank[x] + 1][x]
    <2>1. rank[x] + 1 \in Nat
      BY <1>r
    <2> QED
      BY <2>1, <1>6 DEF S
  <1>13. f \in S
    BY <1>12 DEF S
  <1> HIDE DEF f
  <1> DEFINE D == { n \in Nat : \A x \in X : rank[x] < n => G[n][x] = f[x] }
  <1>14. 0 \in D
    BY <1>r
  <1>15. ASSUME NEW n \in Nat, n \in D
         PROVE  n + 1 \in D
    <2>1. ASSUME NEW x \in X, rank[x] < n + 1
          PROVE  G[n + 1][x] = f[x]
      <3>1. CASE rank[x] < n
        <4>1. G[n][x] = f[x]
          BY <1>15, <3>1
        <4>2. G[n + 1][x] = G[n][x]
          BY <1>9, <1>11, <3>1
        <4> QED
          BY <4>1, <4>2
      <3>2. CASE ~ (rank[x] < n)
        <4>1. rank[x] = n
          BY <2>1, <3>2, <1>r
        <4> QED
          BY <4>1, <1>12
      <3> QED
        BY <3>1, <3>2
    <2> QED
      BY <2>1
  <1>16. \A n \in D : \A x \in X : rank[x] < n => G[n][x] = f[x]
    OBVIOUS
  <1> HIDE DEF D
  <1>17. D \in SUBSET Nat
    BY DEF D
  <1>18. D = Nat
    BY <1>14, <1>15, <1>17, SetInduction
  <1>19. ASSUME NEW x \in X
         PROVE  Phi[f][x] = f[x]
    <2>1. rank[x] \in Nat
      BY <1>r
    <2>2. f[x] = Phi[G[rank[x]]][x]
      BY <2>1, <1>6, <1>12
    <2>3. \A y \in X : rank[y] < rank[x] => f[y] = G[rank[x]][y]
      BY <2>1, <1>16, <1>18
    <2>4. G[rank[x]] \in S
      BY <2>1, <1>6
    <2>5. Phi[f][x] = Phi[G[rank[x]]][x]
      BY <2>3, <2>4, <1>13, <1>d
    <2> QED
      BY <2>2, <2>5
  <1>20. Phi[f] \in S
    BY <1>3, <1>13
  <1>21. Phi[f] = f
    BY <1>13, <1>19, <1>20, <1>s DEF S
  <1> QED
    BY <1>13, <1>21 DEF S

-----------------------------------------------------------------------------
(***************************************************************************)
(* Sums.                                                                   *)
(***************************************************************************)

\* f sums up q.
Sums(f, q) ==
  /\ f \in [0 .. Len(q) -> Nat]
  /\ f[0] = 0
  /\ \A k \in 1 .. Len(q) : f[k] = f[k - 1] + q[k]

LEMMA SumsExistUpto ==
  ASSUME NEW n \in Nat, NEW q \in [1 .. n -> Nat]
  PROVE  \E f \in [0 .. n -> Nat] : f[0] = 0 /\ \A k \in 1 .. n : f[k] = f[k - 1] + q[k]
  <1> DEFINE e == [k \in Nat |-> IF k + 1 \in 1 .. n THEN q[k + 1] ELSE 0]
             h == [x \in Nat \X Nat |-> x[2] + e[x[1]]]
  <1>1. e \in [Nat -> Nat] /\ \A k \in 0 .. n - 1 : e[k] = q[k + 1]
    OBVIOUS
  <1> HIDE DEF e
  <1>x. \A x \in Nat \X Nat : x[1] \in Nat /\ x[2] \in Nat
    OBVIOUS
  <1>y. ASSUME NEW x \in Nat \X Nat
        PROVE  x[2] + e[x[1]] \in Nat
    <2>1. x[1] \in Nat /\ x[2] \in Nat
      BY <1>x
    <2>2. e[x[1]] \in Nat
      BY <2>1, <1>1
    <2> QED
      BY <2>1, <2>2
  <1>2. h \in [Nat \X Nat -> Nat]
    BY <1>y
  <1>3. ASSUME NEW k \in 0 .. n - 1, NEW m \in Nat
        PROVE  h[<<k, m>>] = m + q[k + 1]
    <2>1. <<k, m>> \in Nat \X Nat /\ <<k, m>>[1] = k /\ <<k, m>>[2] = m
      OBVIOUS
    <2>2. h[<<k, m>>] = m + e[k]
      BY <2>1
    <2> QED
      BY <2>2, <1>1
  <1> HIDE DEF h
  <1>a. Upto(n, Nat, 0, h) # {}
    BY <1>2, UptoExists
  <1>4. PICK f : f \in Upto(n, Nat, 0, h)
    BY <1>a
  <1>5. /\ f \in [0 .. n -> Nat] /\ f[0] = 0
        /\ \A k \in 0 .. n - 1 : f[k + 1] = h[<<k, f[k]>>]
    BY <1>4 DEF Upto
  <1>6. ASSUME NEW k \in 1 .. n
        PROVE  f[k] = f[k - 1] + q[k]
    <2>1. k - 1 \in 0 .. n - 1 /\ (k - 1) + 1 = k /\ f[k - 1] \in Nat
      BY <1>5
    <2> QED
      BY <2>1, <1>3, <1>5
  <1> QED
    BY <1>5, <1>6

LEMMA SumsExist ==
  ASSUME NEW q \in Seq(Nat)
  PROVE  \E f : Sums(f, q)
  <1>1. Len(q) \in Nat /\ q \in [1 .. Len(q) -> Nat]
    OBVIOUS
  <1> QED
    BY <1>1, SumsExistUpto DEF Sums

\* Total is what every sum of q comes to.
LEMMA TotalIs ==
  ASSUME NEW q \in Seq(Nat), NEW f, Sums(f, q)
  PROVE  Total(q) = f[Len(q)]
  <1> DEFINE n == Len(q)
             Is(g) == g = [k \in 0 .. n |-> IF k = 0 THEN 0 ELSE g[k - 1] + q[k]]
             u == CHOOSE g : Is(g)
  <1>0. n \in Nat /\ \A k \in 1 .. n : q[k] \in Nat
    OBVIOUS
  <1>1. f \in [0 .. n -> Nat] /\ f[0] = 0 /\ \A k \in 1 .. n : f[k] = f[k - 1] + q[k]
    BY DEF Sums
  <1>2. \A k \in 0 .. n : f[k] = IF k = 0 THEN 0 ELSE f[k - 1] + q[k]
    BY <1>0, <1>1
  <1>3. Is(f)
    BY <1>1, <1>2
  <1>4. Is(u)
    BY <1>3
  <1>5. Total(q) = u[n]
    BY DEF Total
  <1> HIDE DEF u
  <1>6. DOMAIN u = 0 .. n /\ \A k \in 0 .. n : u[k] = IF k = 0 THEN 0 ELSE u[k - 1] + q[k]
    BY <1>4
  <1> DEFINE T == { k \in Nat : k <= n => u[k] = f[k] }
  <1>7. 0 \in T
    BY <1>0, <1>1, <1>6
  <1>8. ASSUME NEW k \in T
        PROVE  k + 1 \in T
    <2> SUFFICES ASSUME k + 1 <= n
                 PROVE  u[k + 1] = f[k + 1]
      OBVIOUS
    <2>1. k + 1 \in 1 .. n /\ k + 1 \in 0 .. n /\ k + 1 # 0 /\ (k + 1) - 1 = k /\ u[k] = f[k]
      BY <1>0
    <2> QED
      BY <2>1, <1>1, <1>6
  <1> HIDE DEF T
  <1>9. T \in SUBSET Nat
    BY DEF T
  <1>10. T = Nat
    BY <1>7, <1>8, <1>9, SetInduction
  <1>11. u[n] = f[n]
    BY <1>0, <1>10 DEF T
  <1> QED
    BY <1>5, <1>11

LEMMA TotalNat ==
  ASSUME NEW q \in Seq(Nat)
  PROVE  Total(q) \in Nat
  <1>1. PICK f : Sums(f, q)
    BY SumsExist
  <1>2. Len(q) \in Nat /\ Len(q) \in 0 .. Len(q)
    OBVIOUS
  <1>3. f \in [0 .. Len(q) -> Nat]
    BY <1>1 DEF Sums
  <1> QED
    BY <1>1, <1>2, <1>3, TotalIs

LEMMA TotalEmpty == Total(<< >>) = 0
  <1>1. << >> \in Seq(Nat) /\ Len(<< >>) = 0
    OBVIOUS
  <1>2. PICK f : Sums(f, << >>)
    BY <1>1, SumsExist
  <1>3. f[0] = 0
    BY <1>2 DEF Sums
  <1> QED
    BY <1>1, <1>2, <1>3, TotalIs

LEMMA TotalConcat ==
  ASSUME NEW p \in Seq(Nat), NEW q \in Seq(Nat)
  PROVE  Total(p \o q) = Total(p) + Total(q)
  <1> DEFINE m == Len(p)
             n == Len(q)
             r == p \o q
  <1>1. m \in Nat /\ n \in Nat
    OBVIOUS
  <1>2. r \in Seq(Nat) /\ Len(r) = m + n
    BY ConcatProperties
  <1>3. /\ \A k \in 1 .. m : r[k] = p[k]
        /\ \A k \in 1 .. n : r[m + k] = q[k]
    BY <1>1, <1>2
  <1> HIDE DEF r
  <1>4. PICK f : Sums(f, r)
    BY <1>2, SumsExist
  <1>5. PICK g : Sums(g, q)
    BY SumsExist
  <1>6. /\ f \in [0 .. m + n -> Nat] /\ f[0] = 0
        /\ \A k \in 1 .. m + n : f[k] = f[k - 1] + r[k]
    BY <1>2, <1>4 DEF Sums
  <1>7. /\ g \in [0 .. n -> Nat] /\ g[0] = 0
        /\ \A k \in 1 .. n : g[k] = g[k - 1] + q[k]
    BY <1>5 DEF Sums
  <1> DEFINE d == [k \in 0 .. m |-> f[k]]
  <1>8. Sums(d, p)
    <2>1. d \in [0 .. m -> Nat] /\ d[0] = 0
      BY <1>1, <1>6
    <2>2. ASSUME NEW k \in 1 .. m
          PROVE  d[k] = d[k - 1] + p[k]
      <3>1. k \in 1 .. m + n /\ k \in 0 .. m /\ k - 1 \in 0 .. m
        BY <1>1
      <3> QED
        BY <3>1, <1>3, <1>6
    <2> HIDE DEF d
    <2> QED
      BY <2>1, <2>2 DEF Sums
  <1>9. Total(p) = f[m]
    <2>1. d[m] = f[m]
      BY <1>1
    <2> HIDE DEF d
    <2> QED
      BY <1>8, <2>1, TotalIs
  <1> DEFINE T == { k \in Nat : k <= n => f[m + k] = f[m] + g[k] }
  <1>10. 0 \in T
    BY <1>1, <1>6, <1>7
  <1>11. ASSUME NEW k \in T
         PROVE  k + 1 \in T
    <2> SUFFICES ASSUME k + 1 <= n
                 PROVE  f[m + (k + 1)] = f[m] + g[k + 1]
      OBVIOUS
    <2>0. k \in Nat
      OBVIOUS
    <2>1. /\ k + 1 \in 1 .. n /\ m + (k + 1) \in 1 .. m + n /\ (m + (k + 1)) - 1 = m + k
          /\ (k + 1) - 1 = k /\ f[m + k] = f[m] + g[k]
      BY <1>1
    <2>2. f[m + (k + 1)] = f[m + k] + r[m + (k + 1)]
      BY <2>1, <1>6
    <2>3. g[k + 1] = g[k] + q[k + 1] /\ r[m + (k + 1)] = q[k + 1]
      BY <2>1, <1>3, <1>7
    <2>4. f[m] \in Nat /\ g[k] \in Nat /\ q[k + 1] \in Nat
      <3>1. m \in 0 .. m + n /\ k \in 0 .. n
        BY <2>0, <2>1, <1>1
      <3>2. f[m] \in Nat
        BY <3>1, <1>6
      <3>3. g[k] \in Nat
        BY <3>1, <1>7
      <3>4. q[k + 1] \in Nat
        BY <2>1
      <3> QED
        BY <3>2, <3>3, <3>4
    <2> HIDE DEF m, n
    <2> QED
      BY <2>1, <2>2, <2>3, <2>4
  <1> HIDE DEF T
  <1>12. T \in SUBSET Nat
    BY DEF T
  <1>13. T = Nat
    BY <1>10, <1>11, <1>12, SetInduction
  <1>14. f[m + n] = f[m] + g[n]
    BY <1>1, <1>13 DEF T
  <1>15. Total(r) = f[m + n] /\ Total(q) = g[n]
    BY <1>2, <1>4, <1>5, TotalIs
  <1> QED
    BY <1>9, <1>14, <1>15 DEF r

LEMMA TotalOne ==
  ASSUME NEW n \in Nat
  PROVE  Total(<<n>>) = n
  <1>1. <<n>> \in Seq(Nat) /\ Len(<<n>>) = 1 /\ <<n>>[1] = n
    OBVIOUS
  <1>2. PICK f : Sums(f, <<n>>)
    BY <1>1, SumsExist
  <1>3. 1 \in 1 .. 1 /\ 1 - 1 = 0
    OBVIOUS
  <1>4. f[0] = 0 /\ f[1] = f[0] + n
    BY <1>1, <1>2, <1>3 DEF Sums
  <1>5. Total(<<n>>) = f[Len(<<n>>)]
    BY <1>1, <1>2, TotalIs
  <1> QED
    BY <1>1, <1>4, <1>5

LEMMA Times ==
  ASSUME NEW c \in Nat
  PROVE  c * 0 = 0 /\ \A k \in Nat : c * k \in Nat /\ c * (k + 1) = c * k + c
  <1>1. c * 0 = 0
    OBVIOUS
  <1>2. ASSUME NEW k \in Nat
        PROVE  c * k \in Nat /\ c * (k + 1) = c * k + c
    OBVIOUS
  <1> QED
    BY <1>1, <1>2

LEMMA TotalConst ==
  ASSUME NEW q \in Seq(Nat), NEW c \in Nat, \A k \in 1 .. Len(q) : q[k] = c
  PROVE  Total(q) = c * Len(q)
  <1> DEFINE n == Len(q)
             f == [k \in 0 .. n |-> c * k]
  <1>0. n \in Nat
    OBVIOUS
  <1>1. c * 0 = 0 /\ \A k \in Nat : c * k \in Nat /\ c * (k + 1) = c * k + c
    BY Times
  <1>2. f \in [0 .. n -> Nat] /\ f[0] = 0 /\ f[n] = c * n
    BY <1>0, <1>1
  <1>3. ASSUME NEW k \in 1 .. n
        PROVE  f[k] = f[k - 1] + q[k]
    <2>1. k - 1 \in Nat /\ k \in 0 .. n /\ k - 1 \in 0 .. n /\ (k - 1) + 1 = k
      BY <1>0
    <2>2. f[k] = c * k /\ f[k - 1] = c * (k - 1) /\ q[k] = c
      BY <2>1
    <2>3. c * ((k - 1) + 1) = c * (k - 1) + c
      BY <2>1, <1>1
    <2> QED
      BY <2>1, <2>2, <2>3
  <1> HIDE DEF f
  <1>4. Sums(f, q)
    BY <1>2, <1>3 DEF Sums
  <1> QED
    BY <1>2, <1>4, TotalIs

LEMMA TotalHead ==
  ASSUME NEW q \in Seq(Nat), q # << >>
  PROVE  Total(q) = Head(q) + Total(Tail(q))
  <1>1. Head(q) \in Nat /\ Tail(q) \in Seq(Nat) /\ <<Head(q)>> \in Seq(Nat)
    OBVIOUS
  <1>2. q = <<Head(q)>> \o Tail(q)
    OBVIOUS
  <1> QED
    BY <1>1, <1>2, TotalConcat, TotalOne

\* What W says of the members of s, added up.
Load(W, s) == Total([k \in 1 .. Len(s) |-> W[s[k]]])

LEMMA WeightsAre ==
  ASSUME NEW S, NEW W \in [S -> Nat], NEW s \in Seq(S)
  PROVE  /\ [k \in 1 .. Len(s) |-> W[s[k]]] \in Seq(Nat)
         /\ Len([k \in 1 .. Len(s) |-> W[s[k]]]) = Len(s)
  <1>1. Len(s) \in Nat /\ \A k \in 1 .. Len(s) : W[s[k]] \in Nat
    OBVIOUS
  <1> QED
    BY <1>1

LEMMA LoadNat ==
  ASSUME NEW S, NEW W \in [S -> Nat], NEW s \in Seq(S)
  PROVE  Load(W, s) \in Nat
  BY WeightsAre, TotalNat DEF Load

LEMMA LoadEmpty ==
  ASSUME NEW W
  PROVE  Load(W, << >>) = 0
  <1>1. [k \in 1 .. Len(<< >>) |-> W[<< >>[k]]] = << >>
    OBVIOUS
  <1> QED
    BY <1>1, TotalEmpty DEF Load

LEMMA LoadConcat ==
  ASSUME NEW S, NEW W \in [S -> Nat], NEW s \in Seq(S), NEW t \in Seq(S)
  PROVE  Load(W, s \o t) = Load(W, s) + Load(W, t)
  <1> DEFINE u(r) == [k \in 1 .. Len(r) |-> W[r[k]]]
  <1>1. s \o t \in Seq(S) /\ Len(s \o t) = Len(s) + Len(t) /\ Len(s) \in Nat /\ Len(t) \in Nat
    BY ConcatProperties
  <1>2. /\ u(s) \in Seq(Nat) /\ Len(u(s)) = Len(s)
        /\ u(t) \in Seq(Nat) /\ Len(u(t)) = Len(t)
        /\ u(s \o t) \in Seq(Nat) /\ Len(u(s \o t)) = Len(s \o t)
    BY <1>1, WeightsAre
  <1>3. u(s) \o u(t) \in Seq(Nat) /\ Len(u(s) \o u(t)) = Len(s) + Len(t)
    BY <1>2, ConcatProperties
  <1>4. ASSUME NEW k \in 1 .. Len(s) + Len(t)
        PROVE  u(s \o t)[k] = (u(s) \o u(t))[k]
    <2>1. u(s \o t)[k] = W[(s \o t)[k]]
      BY <1>1
    <2>2. (s \o t)[k] = IF k <= Len(s) THEN s[k] ELSE t[k - Len(s)]
      BY ConcatProperties
    <2>3. (u(s) \o u(t))[k] = IF k <= Len(s) THEN u(s)[k] ELSE u(t)[k - Len(s)]
      <3> HIDE DEF u
      <3> QED
        BY <1>2, ConcatProperties
    <2>4. CASE k <= Len(s)
      <3>1. k \in 1 .. Len(s)
        BY <2>4, <1>1
      <3>2. u(s)[k] = W[s[k]]
        BY <3>1
      <3> QED
        BY <2>1, <2>2, <2>3, <2>4, <3>2
    <2>5. CASE ~ (k <= Len(s))
      <3>1. k - Len(s) \in 1 .. Len(t)
        BY <2>5, <1>1
      <3>2. u(t)[k - Len(s)] = W[t[k - Len(s)]]
        BY <3>1
      <3> QED
        BY <2>1, <2>2, <2>3, <2>5, <3>2
    <2> QED
      BY <2>4, <2>5
  <1> HIDE DEF u
  <1>5. u(s \o t) = u(s) \o u(t)
    BY <1>1, <1>2, <1>3, <1>4, SeqEqual
  <1>6. Total(u(s \o t)) = Total(u(s)) + Total(u(t))
    BY <1>2, <1>5, TotalConcat
  <1> QED
    BY <1>6 DEF u, Load

LEMMA LoadOne ==
  ASSUME NEW S, NEW W \in [S -> Nat], NEW x \in S
  PROVE  Load(W, <<x>>) = W[x]
  <1>1. [k \in 1 .. Len(<<x>>) |-> W[<<x>>[k]]] = <<W[x]>> /\ W[x] \in Nat
    OBVIOUS
  <1> QED
    BY <1>1, TotalOne DEF Load

LEMMA LoadHead ==
  ASSUME NEW S, NEW W \in [S -> Nat], NEW s \in Seq(S), s # << >>
  PROVE  /\ Load(W, s) = W[Head(s)] + Load(W, Tail(s))
         /\ Head(s) \in S /\ Tail(s) \in Seq(S) /\ W[Head(s)] \in Nat /\ Load(W, Tail(s)) \in Nat
  <1>1. Head(s) \in S /\ Tail(s) \in Seq(S) /\ <<Head(s)>> \in Seq(S)
    OBVIOUS
  <1>2. s = <<Head(s)>> \o Tail(s)
    OBVIOUS
  <1> QED
    BY <1>1, <1>2, LoadConcat, LoadOne, LoadNat

LEMMA LoadAgrees ==
  ASSUME NEW V, NEW W, NEW s, \A k \in 1 .. Len(s) : V[s[k]] = W[s[k]]
  PROVE  Load(V, s) = Load(W, s)
  <1>1. [k \in 1 .. Len(s) |-> V[s[k]]] = [k \in 1 .. Len(s) |-> W[s[k]]]
    OBVIOUS
  <1> QED
    BY <1>1 DEF Load

LEMMA LoadConst ==
  ASSUME NEW S, NEW W \in [S -> Nat], NEW s \in Seq(S), NEW c \in Nat,
         \A k \in 1 .. Len(s) : W[s[k]] = c
  PROVE  Load(W, s) = c * Len(s)
  <1> DEFINE q == [k \in 1 .. Len(s) |-> W[s[k]]]
  <1>1. q \in Seq(Nat) /\ Len(q) = Len(s)
    BY WeightsAre
  <1>2. \A k \in 1 .. Len(q) : q[k] = c
    BY <1>1
  <1> HIDE DEF q
  <1>3. Total(q) = c * Len(q)
    BY <1>1, <1>2, TotalConst
  <1> QED
    BY <1>1, <1>3 DEF Load, q

-----------------------------------------------------------------------------
(***************************************************************************)
(* The entries of a map weigh the same in every order.                     *)
(***************************************************************************)

LEMMA Joined ==
  ASSUME NEW S, NEW s \in Seq(S), NEW t \in Seq(S), NEW n, Len(s) + Len(t) = n
  PROVE  /\ s \o t \in Seq(S) /\ Len(s \o t) = n
         /\ \A k \in 1 .. n : (s \o t)[k] = IF k <= Len(s) THEN s[k] ELSE t[k - Len(s)]
  BY ConcatProperties

LEMMA TotalWithout ==
  ASSUME NEW q \in Seq(Nat), NEW r \in Seq(Nat), NEW j \in 1 .. Len(q),
         Len(r) = Len(q) - 1,
         \A k \in 1 .. Len(r) : r[k] = IF k < j THEN q[k] ELSE q[k + 1]
  PROVE  Total(q) = q[j] + Total(r)
  <1> DEFINE n == Len(q)
             p == SubSeq(q, 1, j - 1)
             t == SubSeq(q, j + 1, n)
             o == <<q[j]>>
             z == o \o t
             y == p \o z
             x == p \o t
             m == n - 1
             l == 1 + (n - j)
  <1>0. n \in Nat /\ j \in Nat /\ 1 <= j /\ j <= n /\ q[j] \in Nat
    OBVIOUS
  <1>1. /\ p \in Seq(Nat) /\ Len(p) = j - 1
        /\ \A k \in 1 .. j - 1 : p[k] = q[k]
    BY <1>0
  <1>2. /\ t \in Seq(Nat) /\ Len(t) = n - j
        /\ \A k \in 1 .. n - j : t[k] = q[j + k]
    BY <1>0
  <1>3. o \in Seq(Nat) /\ Len(o) = 1 /\ o[1] = q[j]
    BY <1>0
  <1>n. Len(q) = n /\ Len(r) = n - 1
    OBVIOUS
  <1> HIDE DEF n, p, t, o
  <1>s. p \in Seq(Nat) /\ t \in Seq(Nat) /\ o \in Seq(Nat)
    BY <1>1, <1>2, <1>3
  <1>l. /\ Len(p) = j - 1 /\ Len(t) = n - j /\ Len(o) = 1 /\ m = n - 1 /\ l = 1 + (n - j)
        /\ Len(o) + Len(t) = l /\ Len(p) + l = n /\ Len(p) + Len(t) = m
    BY <1>0, <1>1, <1>2, <1>3
  <1>a. Len(o) + Len(t) = l
    BY <1>l
  <1>b. Len(p) + Len(t) = m
    BY <1>l
  <1> HIDE DEF l, m
  <1>4. /\ z \in Seq(Nat) /\ Len(z) = l
        /\ \A k \in 1 .. l : z[k] = IF k <= Len(o) THEN o[k] ELSE t[k - Len(o)]
    BY <1>s, <1>a, Joined
  <1> HIDE DEF z
  <1>z. z \in Seq(Nat) /\ Len(p) + Len(z) = n
    BY <1>4, <1>l
  <1>5. /\ y \in Seq(Nat) /\ Len(y) = n
        /\ \A k \in 1 .. n : y[k] = IF k <= Len(p) THEN p[k] ELSE z[k - Len(p)]
    BY <1>s, <1>z, Joined
  <1>8. /\ x \in Seq(Nat) /\ Len(x) = m
        /\ \A k \in 1 .. m : x[k] = IF k <= Len(p) THEN p[k] ELSE t[k - Len(p)]
    BY <1>s, <1>b, Joined
  <1> HIDE DEF y, x
  <1>6. ASSUME NEW k \in 1 .. n
        PROVE  y[k] = q[k]
    <2>0. k \in Int /\ y[k] = IF k <= j - 1 THEN p[k] ELSE z[k - (j - 1)]
      BY <1>0, <1>5, <1>l
    <2>1. CASE k <= j - 1
      <3>1. k \in 1 .. j - 1
        BY <1>0, <2>1
      <3> QED
        BY <3>1, <2>1, <1>1, <2>0
    <2>2. CASE k = j
      <3>1. ~ (k <= j - 1) /\ k - (j - 1) = 1 /\ 1 \in 1 .. l /\ 1 <= 1
        BY <1>0, <1>l, <2>2
      <3> QED
        BY <3>1, <2>2, <1>3, <1>4, <1>l, <2>0
    <2>3. CASE k > j
      <3>1. /\ ~ (k <= j - 1) /\ k - (j - 1) \in 1 .. l /\ ~ (k - (j - 1) <= 1)
            /\ (k - (j - 1)) - 1 = k - j /\ k - j \in 1 .. n - j /\ j + (k - j) = k
        BY <1>0, <1>l, <2>3
      <3>2. z[k - (j - 1)] = t[k - j]
        BY <3>1, <1>4, <1>l
      <3>3. t[k - j] = q[k]
        BY <3>1, <1>2
      <3> QED
        BY <3>1, <3>2, <3>3, <2>0
    <2> QED
      BY <1>0, <2>0, <2>1, <2>2, <2>3
  <1>7. q = y
    BY <1>5, <1>6, <1>l, <1>n, SeqEqual
  <1>9. ASSUME NEW k \in 1 .. n - 1
        PROVE  x[k] = r[k]
    <2>0. /\ k \in Int /\ x[k] = IF k <= j - 1 THEN p[k] ELSE t[k - (j - 1)]
          /\ r[k] = IF k < j THEN q[k] ELSE q[k + 1]
      BY <1>8, <1>l, <1>n
    <2>1. CASE k <= j - 1
      <3>1. k \in 1 .. j - 1 /\ k < j
        BY <1>0, <2>1
      <3> QED
        BY <3>1, <2>1, <1>1, <2>0
    <2>2. CASE ~ (k <= j - 1)
      <3>1. ~ (k < j) /\ k - (j - 1) \in 1 .. n - j /\ j + (k - (j - 1)) = k + 1
        BY <1>0, <2>2
      <3> QED
        BY <3>1, <2>2, <1>2, <2>0
    <2> QED
      BY <2>1, <2>2
  <1>10. r = x
    BY <1>8, <1>9, <1>l, <1>n, SeqEqual
  <1>11. Total(q) = Total(p) + (Total(o) + Total(t)) /\ Total(r) = Total(p) + Total(t)
    BY <1>1, <1>2, <1>3, <1>4, <1>7, <1>10, TotalConcat DEF x, y, z
  <1>12. Total(o) = q[j]
    BY <1>0, TotalOne DEF o
  <1>13. Total(p) \in Nat /\ Total(t) \in Nat
    BY <1>1, <1>2, TotalNat
  <1> QED
    BY <1>0, <1>11, <1>12, <1>13

LEMMA OrderIs ==
  ASSUME NEW S, IsFiniteSet(S), NEW s \in SetToSeqs(S)
  PROVE  /\ Cardinality(S) \in Nat
         /\ s \in Seq(S) /\ Len(s) = Cardinality(S)
         /\ \A j, k \in 1 .. Cardinality(S) : j # k => s[j] # s[k]
         /\ \A x \in S : \E j \in 1 .. Cardinality(S) : s[j] = x
  <1> DEFINE n == Cardinality(S)
  <1>1. n \in Nat
    BY FS_CardinalityType
  <1>2. s \in [1 .. n -> S] /\ \A j, k \in 1 .. n : j # k => s[j] # s[k]
    BY DEF SetToSeqs
  <1>3. s \in Seq(S) /\ Len(s) = n
    BY <1>1, <1>2
  <1>4. ASSUME NEW x \in S
        PROVE  \E j \in 1 .. n : s[j] = x
    <2> SUFFICES ASSUME \A j \in 1 .. n : s[j] # x
                 PROVE  FALSE
      OBVIOUS
    <2> DEFINE Z == S \ {x}
               D == 1 .. n
    <2>1. IsFiniteSet(Z) /\ Cardinality(Z) = n - 1
      BY FS_RemoveElement
    <2>2. IsFiniteSet(D) /\ Cardinality(D) = n
      BY <1>1, FS_Interval
    <2>3. s \in [D -> Z]
      BY <1>2
    <2>4. Cardinality(Z) < Cardinality(D)
      BY <1>1, <2>1, <2>2
    <2> HIDE DEF Z, D
    <2>5. \E j, k \in D : j # k /\ s[j] = s[k]
      BY <2>1, <2>2, <2>3, <2>4, FS_PigeonHole
    <2> QED
      BY <1>2, <2>5 DEF D
  <1> QED
    BY <1>1, <1>2, <1>3, <1>4

\* An order of a set without one of its members.
LEMMA OrderWithout ==
  ASSUME NEW V, NEW w \in [V -> Nat], NEW S \in SUBSET V, IsFiniteSet(S),
         NEW f \in SetToSeqs(S), NEW a \in 1 .. Cardinality(S)
  PROVE  /\ IsFiniteSet(S \ {f[a]}) /\ Cardinality(S \ {f[a]}) = Cardinality(S) - 1 /\ S \ {f[a]} \in SUBSET V
         /\ f[a] \in S
         /\ \E g \in SetToSeqs(S \ {f[a]}) : Load(w, f) = w[f[a]] + Load(w, g)
  <1> DEFINE m == Cardinality(S)
             n == m - 1
             x == f[a]
             Z == S \ {x}
             g == [k \in 1 .. n |-> IF k < a THEN f[k] ELSE f[k + 1]]
  <1>0. m \in Nat /\ n \in Nat /\ m = n + 1 /\ n = m - 1 /\ Cardinality(S) = m /\ a \in 1 .. m
    BY FS_CardinalityType
  <1> HIDE DEF m, n
  <1>1. f \in Seq(S) /\ Len(f) = m /\ \A c, d \in 1 .. m : c # d => f[c] # f[d]
    BY <1>0 DEF SetToSeqs
  <1>2. \A k \in 1 .. m : f[k] \in S /\ (k # a => f[k] \in Z)
    BY <1>0, <1>1
  <1>3. IsFiniteSet(Z) /\ Cardinality(Z) = n /\ Z \in SUBSET V /\ x \in S
    <2>1. x \in S
      BY <1>0, <1>2
    <2>2. IsFiniteSet(Z) /\ Cardinality(Z) = Cardinality(S) - 1
      BY <2>1, FS_RemoveElement
    <2> QED
      BY <2>1, <2>2, <1>0
  <1>4. ASSUME NEW k \in 1 .. n
        PROVE  /\ k < a => k \in 1 .. m /\ k # a
               /\ ~ (k < a) => k + 1 \in 1 .. m /\ k + 1 # a
    BY <1>0
  <1>5. g \in [1 .. n -> Z]
    BY <1>2, <1>4
  <1>6. ASSUME NEW c \in 1 .. n, NEW d \in 1 .. n, c # d
        PROVE  g[c] # g[d]
    <2> DEFINE C == IF c < a THEN c ELSE c + 1
               D == IF d < a THEN d ELSE d + 1
    <2>1. C \in 1 .. m /\ D \in 1 .. m /\ C # D
      BY <1>0, <1>6, <1>4
    <2>2. g[c] = f[C] /\ g[d] = f[D]
      OBVIOUS
    <2> QED
      BY <2>1, <2>2, <1>1
  <1>g. \A k \in 1 .. n : g[k] = IF k < a THEN f[k] ELSE f[k + 1]
    OBVIOUS
  <1> HIDE DEF g, Z, x
  <1>7. g \in SetToSeqs(Z)
    BY <1>3, <1>5, <1>6 DEF SetToSeqs
  <1> DEFINE F == [k \in 1 .. Len(f) |-> w[f[k]]]
             G == [k \in 1 .. Len(g) |-> w[g[k]]]
  <1>8. g \in Seq(Z) /\ Len(g) = n
    BY <1>3, <1>7, OrderIs
  <1>9. f \in Seq(V) /\ g \in Seq(V)
    <2>1. Z \subseteq V /\ S \subseteq V
      BY <1>3
    <2> QED
      BY <1>1, <1>8, <2>1, SeqMonotonic
  <1>10. F \in Seq(Nat) /\ Len(F) = m /\ G \in Seq(Nat) /\ Len(G) = n
    BY <1>1, <1>8, <1>9, WeightsAre
  <1>11. /\ \A k \in 1 .. m : F[k] = w[f[k]]
         /\ \A k \in 1 .. n : G[k] = w[g[k]]
    BY <1>1, <1>8
  <1> HIDE DEF F, G
  <1>12. ASSUME NEW k \in 1 .. n
         PROVE  G[k] = IF k < a THEN F[k] ELSE F[k + 1]
    BY <1>g, <1>4, <1>11
  <1>13. Len(G) = Len(F) - 1 /\ a \in 1 .. Len(F) /\ F[a] = w[x]
    BY <1>0, <1>10, <1>11 DEF x
  <1>14. Total(F) = F[a] + Total(G)
    BY <1>10, <1>12, <1>13, TotalWithout
  <1>15. Load(w, f) = w[x] + Load(w, g)
    BY <1>13, <1>14 DEF F, G, Load
  <1> QED
    BY <1>0, <1>3, <1>7, <1>15 DEF Z, x

\* What the members of a finite set weigh does not depend on their order.
LEMMA OrdersAgree ==
  ASSUME NEW V, NEW w \in [V -> Nat]
  PROVE  \A S \in SUBSET V : IsFiniteSet(S) =>
           \A s, r \in SetToSeqs(S) : Load(w, s) = Load(w, r)
  <1> DEFINE Agree(Z) == \A f, g \in SetToSeqs(Z) : Load(w, f) = Load(w, g)
             T == { n \in Nat : \A Z \in SUBSET V : IsFiniteSet(Z) /\ Cardinality(Z) = n => Agree(Z) }
  <1>1. 0 \in T
    <2> SUFFICES ASSUME NEW Z \in SUBSET V, IsFiniteSet(Z), Cardinality(Z) = 0,
                        NEW f \in SetToSeqs(Z), NEW g \in SetToSeqs(Z)
                 PROVE  Load(w, f) = Load(w, g)
      OBVIOUS
    <2>1. f \in Seq(Z) /\ Len(f) = 0 /\ g \in Seq(Z) /\ Len(g) = 0
      BY OrderIs
    <2>2. f = << >> /\ g = << >>
      BY <2>1
    <2> QED
      BY <2>2
  <1>t. \A n \in T : n \in Nat
    OBVIOUS
  <1>u. \A n \in T : \A Z \in SUBSET V : IsFiniteSet(Z) /\ Cardinality(Z) = n => Agree(Z)
    OBVIOUS
  <1>2. ASSUME NEW n \in Nat, n \in T
        PROVE  n + 1 \in T
    <2> HIDE DEF T
    <2>0. n \in Nat /\ n + 1 \in Nat
      OBVIOUS
    <2> DEFINE m == n + 1
    <2>m. m \in Nat /\ m = n + 1 /\ m \in 1 .. m
      OBVIOUS
    <2> HIDE DEF m
    <2>2. ASSUME NEW Z \in SUBSET V, IsFiniteSet(Z), Cardinality(Z) = m,
                 NEW f \in SetToSeqs(Z), NEW a \in 1 .. m
          PROVE  /\ IsFiniteSet(Z \ {f[a]}) /\ Cardinality(Z \ {f[a]}) = n
                 /\ Z \ {f[a]} \in SUBSET V /\ f[a] \in Z
                 /\ \E e \in SetToSeqs(Z \ {f[a]}) : Load(w, f) = w[f[a]] + Load(w, e)
      <3>1. a \in 1 .. Cardinality(Z) /\ Cardinality(Z) - 1 = n
        BY <2>m, <2>2
      <3> QED
        BY <2>2, <3>1, OrderWithout
    <2>1. ASSUME NEW Z \in SUBSET V, IsFiniteSet(Z), Cardinality(Z) = m,
                 NEW f \in SetToSeqs(Z), NEW g \in SetToSeqs(Z)
          PROVE  Load(w, f) = Load(w, g)
      <3>1. /\ IsFiniteSet(Z \ {f[m]}) /\ Cardinality(Z \ {f[m]}) = n
            /\ Z \ {f[m]} \in SUBSET V /\ f[m] \in Z
            /\ \E e \in SetToSeqs(Z \ {f[m]}) : Load(w, f) = w[f[m]] + Load(w, e)
        BY <2>m, <2>1, <2>2
      <3>2. PICK e \in SetToSeqs(Z \ {f[m]}) : Load(w, f) = w[f[m]] + Load(w, e)
        BY <3>1
      <3>3. \A x \in Z : \E j \in 1 .. Cardinality(Z) : g[j] = x
        BY <2>1, OrderIs
      <3>4. PICK j \in 1 .. m : g[j] = f[m]
        BY <2>1, <3>1, <3>3
      <3>5. /\ IsFiniteSet(Z \ {g[j]}) /\ Cardinality(Z \ {g[j]}) = n
            /\ Z \ {g[j]} \in SUBSET V /\ g[j] \in Z
            /\ \E h \in SetToSeqs(Z \ {g[j]}) : Load(w, g) = w[g[j]] + Load(w, h)
        BY <2>m, <2>1, <2>2
      <3>6. PICK h \in SetToSeqs(Z \ {f[m]}) : Load(w, g) = w[f[m]] + Load(w, h)
        BY <3>4, <3>5
      <3>7. Load(w, e) = Load(w, h)
        BY <1>2, <1>u, <3>1
      <3> QED
        BY <3>2, <3>6, <3>7
    <2> QED
      BY <2>0, <2>1, <2>m DEF T
  <1> HIDE DEF T
  <1>3. T \in SUBSET Nat
    BY DEF T
  <1>4. T = Nat
    BY <1>1, <1>2, <1>3, SetInduction
  <1>5. ASSUME NEW S \in SUBSET V, IsFiniteSet(S)
        PROVE  Agree(S)
    <2>1. Cardinality(S) \in T
      BY <1>4, <1>5, FS_CardinalityType
    <2> QED
      BY <2>1, <1>5, <1>u
  <1> QED
    BY <1>5

\* Two members of e for one of s.
\* e has for each member of s two that weigh as much.
Doubles(W, e, w, s) ==
  /\ Len(e) = 2 * Len(s)
  /\ \A k \in 1 .. Len(s) : W[e[2 * k - 1]] + W[e[2 * k]] = w[s[k]]

LEMMA LoadPairs ==
  ASSUME NEW S, NEW W \in [S -> Nat], NEW e \in Seq(S),
         NEW V, NEW w \in [V -> Nat], NEW s \in Seq(V), Doubles(W, e, w, s)
  PROVE  Load(W, e) = Load(w, s)
  <1> DEFINE E == [k \in 1 .. Len(e) |-> W[e[k]]]
             D == [k \in 1 .. Len(s) |-> w[s[k]]]
             n == Len(s)
  <1>0. n \in Nat /\ Len(s) = n /\ 2 * n \in Nat /\ Len(e) = 2 * n
    BY DEF Doubles
  <1>d. \A k \in 1 .. n : W[e[2 * k - 1]] + W[e[2 * k]] = w[s[k]]
    BY DEF Doubles
  <1>1. E \in Seq(Nat) /\ Len(E) = 2 * n /\ D \in Seq(Nat) /\ Len(D) = n
    BY <1>0, WeightsAre
  <1>2. \A k \in 1 .. n : D[k] = w[s[k]]
    BY <1>0
  <1>3. \A k \in 1 .. 2 * n : E[k] = W[e[k]]
    BY <1>0
  <1> HIDE DEF E, D, n
  <1>4. ASSUME NEW k \in 1 .. n
        PROVE  E[2 * k - 1] + E[2 * k] = D[k]
    <2>1. 2 * k - 1 \in 1 .. 2 * n /\ 2 * k \in 1 .. 2 * n
      BY <1>0
    <2> QED
      BY <2>1, <1>0, <1>d, <1>2, <1>3
  <1>5. PICK f : Sums(f, E)
    BY <1>1, SumsExist
  <1>6. PICK g : Sums(g, D)
    BY <1>1, SumsExist
  <1>7. /\ f \in [0 .. 2 * n -> Nat] /\ f[0] = 0
        /\ \A k \in 1 .. 2 * n : f[k] = f[k - 1] + E[k]
    BY <1>1, <1>5 DEF Sums
  <1>8. /\ g \in [0 .. n -> Nat] /\ g[0] = 0
        /\ \A k \in 1 .. n : g[k] = g[k - 1] + D[k]
    BY <1>1, <1>6 DEF Sums
  <1>9. \A k \in 1 .. 2 * n : E[k] \in Nat
    BY <1>1
  <1> DEFINE T == { k \in Nat : k <= n => f[2 * k] = g[k] }
  <1>10. 0 \in T
    BY <1>7, <1>8
  <1>11. ASSUME NEW k \in Nat, k \in T
         PROVE  k + 1 \in T
    <2> SUFFICES ASSUME k + 1 <= n
                 PROVE  f[2 * (k + 1)] = g[k + 1]
      OBVIOUS
    <2>0. f[2 * k] = g[k]
      BY <1>0, <1>11
    <2> HIDE DEF T
    <2>1. k + 1 \in 1 .. n /\ (k + 1) - 1 = k
      BY <1>0
    <2>2. /\ 2 * (k + 1) \in 1 .. 2 * n /\ 2 * (k + 1) - 1 \in 1 .. 2 * n
          /\ (2 * (k + 1) - 1) - 1 = 2 * k /\ 2 * k \in 0 .. 2 * n
      BY <1>0, <2>1
    <2> DEFINE b == 2 * (k + 1)
               a == b - 1
    <2>3. f[b] = f[a] + E[b] /\ f[a] = f[2 * k] + E[a]
      BY <2>2, <1>7
    <2>4. g[k + 1] = g[k] + D[k + 1]
      BY <2>1, <1>8
    <2>5. E[a] + E[b] = D[k + 1]
      BY <2>1, <1>4
    <2>6. E[a] \in Nat /\ E[b] \in Nat /\ f[2 * k] \in Nat
      BY <2>2, <1>7, <1>9
    <2> HIDE DEF a, b
    <2> QED
      BY <2>0, <2>3, <2>4, <2>5, <2>6 DEF b
  <1> HIDE DEF T
  <1>12. T \in SUBSET Nat
    BY DEF T
  <1>13. T = Nat
    BY <1>10, <1>11, <1>12, SetInduction
  <1>14. f[2 * n] = g[n]
    <2>1. n \in T /\ n <= n
      BY <1>0, <1>13
    <2> QED
      BY <2>1 DEF T
  <1>15. Total(E) = f[2 * n] /\ Total(D) = g[n]
    BY <1>1, <1>5, <1>6, TotalIs
  <1> QED
    BY <1>14, <1>15 DEF E, D, Load

LEMMA Halves ==
  ASSUME NEW k \in Nat
  PROVE  /\ (2 * k - 1) % 2 = 1 /\ ((2 * k - 1) + 1) \div 2 = k
         /\ (2 * k) % 2 = 0 /\ (2 * k + 1) \div 2 = k
  OBVIOUS

LEMMA Parity ==
  ASSUME NEW n \in Nat, NEW k \in 1 .. 2 * n
  PROVE  \E j \in 1 .. n : k = 2 * j - 1 \/ k = 2 * j
  <1>1. (k + 1) \div 2 \in 1 .. n /\ (k = 2 * ((k + 1) \div 2) - 1 \/ k = 2 * ((k + 1) \div 2))
    OBVIOUS
  <1> QED
    BY <1>1

-----------------------------------------------------------------------------
(***************************************************************************)
(* Fixed sizes and dimensions.                                             *)
(***************************************************************************)
Wide == Nat \cup { -1 }

LEMMA SchemaIs ==
  ASSUME Schemas, NEW t \in Type
  PROVE  /\ Schema[t].size \in Nat /\ Schema[t].raw \in Nat
         /\ Schema[t].elems \in Seq(Type) /\ Schema[t].bulk \in BOOLEAN
         /\ Schema[t].kind \in { "slice", "array", "pointer" } =>
              Len(Schema[t].elems) = 1 /\ Schema[t].elems[1] \in Type
         /\ Schema[t].kind = "map" =>
              /\ Len(Schema[t].elems) = 2
              /\ Schema[t].elems[1] \in Type /\ Schema[t].elems[2] \in Type
  <1>1. /\ Schema[t].size \in Nat /\ Schema[t].raw \in Nat
        /\ Schema[t].elems \in Seq(Type) /\ Schema[t].bulk \in BOOLEAN
        /\ Schema[t].kind \in { "slice", "array", "pointer" } => Len(Schema[t].elems) = 1
        /\ Schema[t].kind = "map" => Len(Schema[t].elems) = 2
    BY DEF Schemas
  <1> DEFINE e == Schema[t].elems
  <1>2. e \in Seq(Type)
    BY <1>1
  <1> HIDE DEF e
  <1>3. \A k \in 1 .. Len(e) : e[k] \in Type
    BY <1>2, ElementOfSeq
  <1>4. /\ Len(e) = 1 => e[1] \in Type
        /\ Len(e) = 2 => e[1] \in Type /\ e[2] \in Type
    BY <1>3
  <1> QED
    BY <1>1, <1>4 DEF e

LEMMA FixedSizeIs ==
  ASSUME Schemas, NEW rank, ArraysEnd(rank)
  PROVE  \A t \in Type :
           /\ FixedSize(t) \in Wide
           /\ Schema[t].kind \in { "fixed", "block" } => FixedSize(t) = Schema[t].size
           /\ Schema[t].kind = "array" =>
                FixedSize(t) = IF FixedSize(Schema[t].elems[1]) >= 0
                                 THEN Schema[t].size * FixedSize(Schema[t].elems[1]) ELSE -1
           /\ Schema[t].kind \notin { "fixed", "block", "array" } => FixedSize(t) = -1
  <1> DEFINE R(w, u) ==
               IF Schema[u].kind \in { "fixed", "block" } THEN Schema[u].size
               ELSE IF Schema[u].kind = "array" /\ w[Schema[u].elems[1]] >= 0
                 THEN Schema[u].size * w[Schema[u].elems[1]]
               ELSE -1
             Is(w) == w = [u \in Type |-> R(w, u)]
             F == Maps(Type, Wide)
             Phi == [w \in F |-> [u \in Type |-> R(w, u)]]
             width == CHOOSE w : Is(w)
             zero == [u \in Type |-> 0]
  <1>k. rank \in Maps(Type, Nat)
    BY DEF ArraysEnd, Maps
  <1>r. rank \in [Type -> Nat]
        /\ \A t \in Type : Schema[t].kind = "array" => rank[Schema[t].elems[1]] < rank[t]
    BY DEF ArraysEnd
  <1>1. ASSUME NEW w, NEW u \in Type,
               Schema[u].kind = "array" => w[Schema[u].elems[1]] \in Wide
        PROVE  /\ R(w, u) \in Wide
               /\ Schema[u].kind \in { "fixed", "block" } => R(w, u) = Schema[u].size
               /\ Schema[u].kind = "array" =>
                    R(w, u) = IF w[Schema[u].elems[1]] >= 0
                                THEN Schema[u].size * w[Schema[u].elems[1]] ELSE -1
               /\ Schema[u].kind \notin { "fixed", "block", "array" } => R(w, u) = -1
    <2>1. Schema[u].size \in Nat
      BY SchemaIs
    <2>2. CASE Schema[u].kind \in { "fixed", "block" }
      BY <2>1, <2>2 DEF Wide
    <2>3. CASE Schema[u].kind = "array"
      <3> DEFINE v == w[Schema[u].elems[1]]
                 z == Schema[u].size
      <3>1. v \in Wide /\ z \in Nat
        BY <1>1, <2>1, <2>3
      <3>2. R(w, u) = IF v >= 0 THEN z * v ELSE -1
        BY <2>3
      <3> HIDE DEF v, z, R
      <3>3. R(w, u) \in Wide
        BY <3>1, <3>2 DEF Wide
      <3> QED
        BY <2>3, <3>2, <3>3 DEF v, z
    <2>4. CASE Schema[u].kind \notin { "fixed", "block", "array" }
      BY <2>4 DEF Wide
    <2> QED
      BY <2>2, <2>3, <2>4
  <1>2. ASSUME NEW f, NEW g, NEW u \in Type,
               Schema[u].kind = "array" => f[Schema[u].elems[1]] = g[Schema[u].elems[1]]
        PROVE  R(f, u) = R(g, u)
    BY <1>2
  <1> HIDE DEF R
  <1>3. Phi \in Maps(F, F)
    <2>1. ASSUME NEW w \in [Type -> Wide], NEW u \in Type
          PROVE  R(w, u) \in Wide
      <3>1. Schema[u].kind = "array" => w[Schema[u].elems[1]] \in Wide
        BY SchemaIs
      <3> QED
        BY <1>1, <3>1
    <2> QED
      BY <2>1 DEF Maps
  <1>4. Descends(Phi, Type, rank)
    <2>1. ASSUME NEW f \in [Type -> Wide], NEW g \in [Type -> Wide], NEW u \in Type,
                 \A y \in Type : rank[y] < rank[u] => f[y] = g[y]
          PROVE  Phi[f][u] = Phi[g][u]
      <3>1. Schema[u].kind = "array" => f[Schema[u].elems[1]] = g[Schema[u].elems[1]]
        BY <1>r, <2>1, SchemaIs
      <3>2. R(f, u) = R(g, u)
        BY <1>2, <3>1
      <3> QED
        BY <3>2 DEF Maps
    <2>2. DOMAIN Phi = [Type -> Wide]
      BY DEF Maps
    <2> HIDE DEF Phi
    <2> QED
      BY <2>1, <2>2 DEF Descends
  <1>5. zero \in F
    BY DEF Wide, Maps
  <1>6. PICK f \in F : Phi[f] = f
    <2> HIDE DEF Phi, zero
    <2> QED
      BY <1>k, <1>3, <1>4, <1>5, Unfolding
  <1>7. Is(f)
    BY <1>6 DEF Maps
  <1>8. Is(width)
    BY <1>7
  <1>9. ASSUME NEW t \in Type
        PROVE  FixedSize(t) = width[t]
    BY DEF FixedSize, R
  <1> HIDE DEF width
  <1>10. \A u \in Type : width[u] = R(width, u)
    BY <1>8
  <1> HIDE DEF Is, Phi
  <1> DEFINE T == { n \in Nat : \A u \in Type : rank[u] < n => width[u] \in Wide }
  <1>11. 0 \in T
    BY <1>r
  <1>12. ASSUME NEW n \in Nat, n \in T
         PROVE  n + 1 \in T
    <2>1. ASSUME NEW u \in Type, rank[u] < n + 1
          PROVE  width[u] \in Wide
      <3>1. ASSUME Schema[u].kind = "array"
            PROVE  width[Schema[u].elems[1]] \in Wide
        <4>1. Schema[u].elems[1] \in Type /\ rank[Schema[u].elems[1]] < rank[u]
          BY <3>1, <1>r, SchemaIs
        <4>2. rank[Schema[u].elems[1]] < n
          BY <4>1, <2>1, <1>r
        <4> QED
          BY <4>1, <4>2, <1>12
      <3> QED
        BY <3>1, <1>1, <1>10
    <2> QED
      BY <2>1
  <1>13. \A n \in T : \A u \in Type : rank[u] < n => width[u] \in Wide
    OBVIOUS
  <1> HIDE DEF T
  <1>14. T \in SUBSET Nat
    BY DEF T
  <1>15. T = Nat
    BY <1>11, <1>12, <1>14, SetInduction
  <1>16. ASSUME NEW u \in Type
         PROVE  width[u] \in Wide
    <2>1. rank[u] + 1 \in Nat /\ rank[u] < rank[u] + 1
      BY <1>r
    <2> QED
      BY <2>1, <1>13, <1>15
  <1>17. ASSUME NEW t \in Type
         PROVE  Schema[t].kind = "array" => width[Schema[t].elems[1]] \in Wide
                                            /\ FixedSize(Schema[t].elems[1]) = width[Schema[t].elems[1]]
    BY <1>9, <1>16, SchemaIs
  <1>18. ASSUME NEW t \in Type
         PROVE /\ FixedSize(t) \in Wide
               /\ Schema[t].kind \in { "fixed", "block" } => FixedSize(t) = Schema[t].size
               /\ Schema[t].kind = "array" =>
                    FixedSize(t) = IF FixedSize(Schema[t].elems[1]) >= 0
                                     THEN Schema[t].size * FixedSize(Schema[t].elems[1]) ELSE -1
               /\ Schema[t].kind \notin { "fixed", "block", "array" } => FixedSize(t) = -1
    <2>1. FixedSize(t) = R(width, t) /\ width[t] = R(width, t)
      BY <1>9, <1>10
    <2>2. Schema[t].kind = "array" =>
            R(width, t) = IF width[Schema[t].elems[1]] >= 0
                            THEN Schema[t].size * width[Schema[t].elems[1]] ELSE -1
      BY <1>1, <1>17
    <2>3. /\ R(width, t) \in Wide
          /\ Schema[t].kind \in { "fixed", "block" } => R(width, t) = Schema[t].size
          /\ Schema[t].kind \notin { "fixed", "block", "array" } => R(width, t) = -1
      BY <1>1, <1>17
    <2> QED
      BY <2>1, <2>2, <2>3, <1>17
  <1> QED
    BY <1>18

LEMMA DimensionsIs ==
  ASSUME Schemas, NEW rank, ArraysEnd(rank)
  PROVE  \A t \in Type :
           /\ Schema[t].kind # "array" => Dimensions(t) = 0
           /\ Schema[t].kind = "array" => Dimensions(t) = 1 + Dimensions(Schema[t].elems[1])
           /\ Dimensions(t) \in Nat
  <1> DEFINE R(w, u) == IF Schema[u].kind = "array" THEN 1 + w[Schema[u].elems[1]] ELSE 0
             Is(w) == w = [u \in Type |-> R(w, u)]
             F == Maps(Type, Nat)
             Phi == [w \in F |-> [u \in Type |-> R(w, u)]]
             dims == CHOOSE w : Is(w)
             zero == [u \in Type |-> 0]
  <1>k. rank \in Maps(Type, Nat)
    BY DEF ArraysEnd, Maps
  <1>r. rank \in [Type -> Nat]
        /\ \A t \in Type : Schema[t].kind = "array" => rank[Schema[t].elems[1]] < rank[t]
    BY DEF ArraysEnd
  <1>3. Phi \in Maps(F, F)
    <2>1. ASSUME NEW w \in [Type -> Nat], NEW u \in Type
          PROVE  R(w, u) \in Nat
      <3>1. Schema[u].kind = "array" => w[Schema[u].elems[1]] \in Nat
        BY SchemaIs
      <3> QED
        BY <3>1
    <2> HIDE DEF R
    <2> QED
      BY <2>1 DEF Maps
  <1>4. Descends(Phi, Type, rank)
    <2>1. ASSUME NEW f \in [Type -> Nat], NEW g \in [Type -> Nat], NEW u \in Type,
                 \A y \in Type : rank[y] < rank[u] => f[y] = g[y]
          PROVE  Phi[f][u] = Phi[g][u]
      <3>1. Schema[u].kind = "array" => f[Schema[u].elems[1]] = g[Schema[u].elems[1]]
        BY <1>r, <2>1, SchemaIs
      <3>2. R(f, u) = R(g, u)
        BY <3>1
      <3> HIDE DEF R
      <3> QED
        BY <3>2 DEF Maps
    <2>2. DOMAIN Phi = [Type -> Nat]
      BY DEF Maps
    <2> HIDE DEF Phi
    <2> QED
      BY <2>1, <2>2 DEF Descends
  <1> HIDE DEF R
  <1>5. zero \in F
    BY DEF Maps
  <1>6. PICK f \in F : Phi[f] = f
    <2> HIDE DEF Phi, zero
    <2> QED
      BY <1>k, <1>3, <1>4, <1>5, Unfolding
  <1>7. Is(f)
    BY <1>6 DEF Maps
  <1>8. Is(dims)
    BY <1>7
  <1>9. ASSUME NEW t \in Type
        PROVE  Dimensions(t) = dims[t]
    BY DEF Dimensions, R
  <1> HIDE DEF dims
  <1>10. \A u \in Type : dims[u] = R(dims, u)
    BY <1>8
  <1> HIDE DEF Is, Phi
  <1>11. ASSUME NEW t \in Type
         PROVE  /\ Schema[t].kind # "array" => Dimensions(t) = 0
                /\ Schema[t].kind = "array" => Dimensions(t) = 1 + Dimensions(Schema[t].elems[1])
    BY <1>9, <1>10, SchemaIs DEF R
  <1> DEFINE T == { n \in Nat : \A u \in Type : rank[u] < n => Dimensions(u) \in Nat }
  <1>12. 0 \in T
    BY <1>r
  <1>13. ASSUME NEW n \in Nat, n \in T
         PROVE  n + 1 \in T
    <2>1. ASSUME NEW u \in Type, rank[u] < n + 1
          PROVE  Dimensions(u) \in Nat
      <3>1. ASSUME Schema[u].kind = "array"
            PROVE  Dimensions(Schema[u].elems[1]) \in Nat
        <4>1. Schema[u].elems[1] \in Type /\ rank[Schema[u].elems[1]] < rank[u]
          BY <3>1, <1>r, SchemaIs
        <4>2. rank[Schema[u].elems[1]] < n
          BY <4>1, <2>1, <1>r
        <4> QED
          BY <4>1, <4>2, <1>13
      <3> QED
        BY <3>1, <1>11
    <2> QED
      BY <2>1
  <1>14. \A n \in T : \A u \in Type : rank[u] < n => Dimensions(u) \in Nat
    OBVIOUS
  <1> HIDE DEF T
  <1>15. T \in SUBSET Nat
    BY DEF T
  <1>16. T = Nat
    BY <1>12, <1>13, <1>15, SetInduction
  <1>17. ASSUME NEW u \in Type
         PROVE  Dimensions(u) \in Nat
    <2>1. rank[u] + 1 \in Nat /\ rank[u] < rank[u] + 1
      BY <1>r
    <2> QED
      BY <2>1, <1>14, <1>16
  <1> QED
    BY <1>11, <1>17

-----------------------------------------------------------------------------
(***************************************************************************)
(* Flattening.                                                             *)
(***************************************************************************)
LEMMA FlattenIs ==
  ASSUME NEW S, NEW z \in Seq(Seq(S))
  PROVE  /\ FlattenSeq(z) \in Seq(S)
         /\ Len(FlattenSeq(z)) = Total([k \in 1 .. Len(z) |-> Len(z[k])])
  <1> DEFINE n == Len(z)
             q == [k \in 1 .. n |-> Len(z[k])]
  <1>0. n \in Nat /\ \A k \in 1 .. n : z[k] \in Seq(S) /\ Len(z[k]) \in Nat
    OBVIOUS
  <1>1. q \in Seq(Nat) /\ Len(q) = n /\ \A k \in 1 .. n : q[k] = Len(z[k])
    BY <1>0
  <1>c. ASSUME NEW a \in Seq(S), NEW b \in Seq(S)
        PROVE  a \o b \in Seq(S) /\ Len(a \o b) = Len(a) + Len(b)
    BY ConcatProperties
  <1>2. CASE n = 0
    <2>1. z = << >> /\ q = << >>
      BY <1>0, <1>1, <1>2
    <2>2. FlattenSeq(z) = z
      BY <1>2 DEF FlattenSeq
    <2>3. << >> \in Seq(S) /\ Len(<< >>) = 0
      OBVIOUS
    <2> HIDE DEF q
    <2>4. Total(q) = 0
      BY <2>1, TotalEmpty
    <2>5. FlattenSeq(z) \in Seq(S) /\ Len(FlattenSeq(z)) = Total(q)
      BY <2>1, <2>2, <2>3, <2>4
    <2> QED
      BY <2>5 DEF q
  <1>3. CASE n # 0
    <2> DEFINE Is(g) == g = [k \in 1 .. n |-> IF k = 1 THEN z[k] ELSE g[k - 1] \o z[k]]
               u == CHOOSE g : Is(g)
               c == z[1]
               e == [k \in Nat |-> IF k + 2 \in 1 .. n THEN z[k + 2] ELSE c]
               P == Seq(S)
               h == [x \in Nat \X P |-> x[2] \o e[x[1]]]
    <2>0. n - 1 \in Nat /\ c \in P
      BY <1>0, <1>3
    <2>1. /\ \A k \in Nat : e[k] \in P
          /\ \A k \in Nat : k + 2 \in 1 .. n => e[k] = z[k + 2]
      BY <1>0, <2>0
    <2> HIDE DEF e, c
    <2>2. h \in [Nat \X P -> P]
      <3>1. ASSUME NEW x \in Nat \X P
            PROVE  x[2] \o e[x[1]] \in P
        <4>1. x[1] \in Nat /\ x[2] \in P
          OBVIOUS
        <4>2. e[x[1]] \in P
          BY <4>1, <2>1
        <4> QED
          BY <4>1, <4>2, ConcatProperties
      <3> QED
        BY <3>1
    <2>3. \A k \in Nat, s \in P : h[<<k, s>>] = s \o e[k]
      OBVIOUS
    <2> HIDE DEF h
    <2>4. Upto(n - 1, P, c, h) # {}
      <3> HIDE DEF P, n
      <3> QED
        BY <2>0, <2>2, UptoExists
    <2>5. PICK g : g \in Upto(n - 1, P, c, h)
      BY <2>4
    <2>6. /\ g \in [0 .. n - 1 -> P] /\ g[0] = c
          /\ \A k \in 0 .. (n - 1) - 1 : g[k + 1] = h[<<k, g[k]>>]
      BY <2>5 DEF Upto
    <2> DEFINE f == [k \in 1 .. n |-> g[k - 1]]
    <2>7. ASSUME NEW k \in 1 .. n, k # 1
          PROVE  g[k - 1] = g[(k - 1) - 1] \o z[k]
      <3>1. /\ k - 2 \in 0 .. (n - 1) - 1 /\ (k - 2) + 1 = k - 1 /\ (k - 1) - 1 = k - 2
            /\ k - 2 \in Nat /\ (k - 2) + 2 = k /\ k - 2 \in 0 .. n - 1
        BY <1>0, <2>7
      <3>2. g[k - 2] \in P
        BY <2>6, <3>1
      <3>3. g[k - 1] = h[<<k - 2, g[k - 2]>>]
        BY <2>6, <3>1
      <3>4. h[<<k - 2, g[k - 2]>>] = g[k - 2] \o e[k - 2]
        BY <2>3, <3>1, <3>2
      <3>5. e[k - 2] = z[k]
        BY <2>1, <3>1
      <3> QED
        BY <3>1, <3>3, <3>4, <3>5
    <2>8. Is(f)
      <3>1. ASSUME NEW k \in 1 .. n
            PROVE  f[k] = IF k = 1 THEN z[k] ELSE f[k - 1] \o z[k]
        <4>1. CASE k = 1
          BY <4>1, <2>6 DEF c
        <4>2. CASE k # 1
          <5>1. k - 1 \in 1 .. n
            BY <4>2, <1>0
          <5> QED
            BY <4>2, <5>1, <2>7
        <4> QED
          BY <4>1, <4>2
      <3> QED
        BY <3>1
    <2>9. Is(u)
      BY <2>8
    <2>10. FlattenSeq(z) = u[n]
      BY <1>3 DEF FlattenSeq
    <2> HIDE DEF u, f
    <2>11. \A k \in 1 .. n : u[k] = IF k = 1 THEN z[k] ELSE u[k - 1] \o z[k]
      BY <2>9
    <2>12. PICK m : Sums(m, q)
      <3> HIDE DEF q
      <3> QED
        BY <1>1, SumsExist
    <2> HIDE DEF q
    <2>13. /\ m \in [0 .. n -> Nat] /\ m[0] = 0
           /\ \A k \in 1 .. n : m[k] = m[k - 1] + q[k]
      BY <1>1, <2>12 DEF Sums
    <2> DEFINE T == { k \in Nat : k + 1 <= n => u[k + 1] \in Seq(S) /\ Len(u[k + 1]) = m[k + 1] }
    <2>14. 0 \in T
      <3>1. 1 \in 1 .. n /\ 1 - 1 = 0 /\ 0 + 1 = 1
        BY <1>0, <1>3
      <3>2. u[1] = z[1] /\ m[1] = 0 + Len(z[1])
        BY <3>1, <2>11, <2>13, <1>1
      <3> QED
        BY <3>1, <3>2, <1>0
    <2>15. ASSUME NEW k \in Nat, k \in T
           PROVE  k + 1 \in T
      <3> SUFFICES ASSUME (k + 1) + 1 <= n
                   PROVE  u[(k + 1) + 1] \in Seq(S) /\ Len(u[(k + 1) + 1]) = m[(k + 1) + 1]
        OBVIOUS
      <3>1. u[k + 1] \in Seq(S) /\ Len(u[k + 1]) = m[k + 1]
        BY <2>15, <1>0
      <3> HIDE DEF T
      <3> DEFINE j == (k + 1) + 1
      <3>2. j \in 1 .. n /\ j # 1 /\ j - 1 = k + 1
        BY <1>0
      <3>3. u[j] = u[k + 1] \o z[j]
        BY <3>2, <2>11
      <3>4. m[j] = m[k + 1] + Len(z[j]) /\ z[j] \in Seq(S)
        BY <3>2, <2>13, <1>0, <1>1
      <3> HIDE DEF j
      <3>5. u[j] \in Seq(S) /\ Len(u[j]) = Len(u[k + 1]) + Len(z[j])
        BY <3>1, <3>3, <3>4, <1>c
      <3>6. u[j] \in Seq(S) /\ Len(u[j]) = m[j]
        BY <3>1, <3>4, <3>5
      <3> QED
        BY <3>6 DEF j
    <2>16. \A k \in T : k + 1 <= n => u[k + 1] \in Seq(S) /\ Len(u[k + 1]) = m[k + 1]
      OBVIOUS
    <2> HIDE DEF T
    <2>17. T \in SUBSET Nat
      BY DEF T
    <2>18. T = Nat
      BY <2>14, <2>15, <2>17, SetInduction
    <2>19. u[n] \in Seq(S) /\ Len(u[n]) = m[n]
      <3>1. n - 1 \in Nat /\ (n - 1) + 1 = n /\ n <= n
        BY <1>0, <2>0
      <3> QED
        BY <3>1, <2>16, <2>18
    <2>20. Total(q) = m[n]
      BY <1>1, <2>12, TotalIs
    <2> QED
      BY <2>10, <2>19, <2>20 DEF q
  <1> QED
    BY <1>2, <1>3

\* A sequence of r sequences of c members each has c * r in all.
LEMMA FlattenConst ==
  ASSUME NEW S, NEW z \in Seq(Seq(S)), NEW c \in Nat, \A k \in 1 .. Len(z) : Len(z[k]) = c
  PROVE  FlattenSeq(z) \in Seq(S) /\ Len(FlattenSeq(z)) = c * Len(z)
  <1> DEFINE q == [k \in 1 .. Len(z) |-> Len(z[k])]
  <1>1. FlattenSeq(z) \in Seq(S) /\ Len(FlattenSeq(z)) = Total(q)
    BY FlattenIs
  <1>2. q \in Seq(Nat) /\ Len(q) = Len(z) /\ \A k \in 1 .. Len(q) : q[k] = c
    OBVIOUS
  <1> HIDE DEF q
  <1>3. Total(q) = c * Len(q)
    BY <1>2, TotalConst
  <1> QED
    BY <1>1, <1>2, <1>3

\* g flattens v n times.
Flattens(g, n, v) == g = [k \in 0 .. n |-> IF k = 0 THEN v ELSE FlattenSeq(g[k - 1])]

LEMMA FlatExists ==
  ASSUME NEW v
  PROVE  \A n \in Nat : \E g : Flattens(g, n, v)
  <1> DEFINE Is(n, g) == g = [k \in 0 .. n |-> IF k = 0 THEN v ELSE FlattenSeq(g[k - 1])]
             T == { n \in Nat : \E g : Is(n, g) }
  <1>1. 0 \in T
    <2> DEFINE g == [k \in 0 .. 0 |-> v]
    <2>1. Is(0, g)
      OBVIOUS
    <2> HIDE DEF g
    <2> QED
      BY <2>1
  <1>2. ASSUME NEW n \in Nat, n \in T
        PROVE  n + 1 \in T
    <2>1. PICK g : Is(n, g)
      BY <1>2
    <2>2. \A k \in 0 .. n : g[k] = IF k = 0 THEN v ELSE FlattenSeq(g[k - 1])
      BY <2>1
    <2> HIDE DEF Is
    <2> DEFINE e == [k \in 0 .. n + 1 |-> IF k <= n THEN g[k] ELSE FlattenSeq(g[n])]
    <2>3. ASSUME NEW k \in 0 .. n + 1
          PROVE  e[k] = IF k = 0 THEN v ELSE FlattenSeq(e[k - 1])
      <3>1. CASE k = 0
        <4>1. 0 \in 0 .. n /\ 0 \in 0 .. n + 1
          OBVIOUS
        <4> QED
          BY <4>1, <3>1, <2>2
      <3>2. CASE k # 0
        <4>1. k - 1 \in 0 .. n /\ k - 1 \in 0 .. n + 1 /\ k - 1 <= n
          BY <3>2
        <4>2. e[k - 1] = g[k - 1]
          BY <4>1
        <4>3. CASE k <= n
          <5>1. k \in 0 .. n
            BY <4>3
          <5>2. e[k] = g[k] /\ g[k] = FlattenSeq(g[k - 1])
            BY <4>3, <5>1, <3>2, <2>2
          <5> QED
            BY <5>2, <4>2, <3>2
        <4>4. CASE ~ (k <= n)
          <5>1. k - 1 = n
            BY <4>4
          <5>2. e[k] = FlattenSeq(g[n])
            BY <4>4
          <5> QED
            BY <5>1, <5>2, <4>2, <3>2
        <4> QED
          BY <4>3, <4>4
      <3> QED
        BY <3>1, <3>2
    <2>4. Is(n + 1, e)
      BY <2>3 DEF Is
    <2> HIDE DEF e
    <2> QED
      BY <2>4
  <1> HIDE DEF T
  <1>3. T \in SUBSET Nat
    BY DEF T
  <1>4. T = Nat
    BY <1>1, <1>2, <1>3, SetInduction
  <1> QED
    BY <1>4 DEF T, Flattens

LEMMA FlatOf ==
  ASSUME NEW v, NEW n \in Nat, NEW g, Flattens(g, n, v)
  PROVE  Flat(n, v) = g[n]
  <1> DEFINE Is(f) == f = [k \in 0 .. n |-> IF k = 0 THEN v ELSE FlattenSeq(f[k - 1])]
             u == CHOOSE f : Is(f)
  <1>1. Is(g)
    BY DEF Flattens
  <1>2. Is(u)
    BY <1>1
  <1>3. Flat(n, v) = u[n]
    BY DEF Flat
  <1> HIDE DEF u
  <1>4. /\ \A k \in 0 .. n : g[k] = IF k = 0 THEN v ELSE FlattenSeq(g[k - 1])
        /\ \A k \in 0 .. n : u[k] = IF k = 0 THEN v ELSE FlattenSeq(u[k - 1])
    BY <1>1, <1>2
  <1> HIDE DEF Is
  <1> DEFINE T == { k \in Nat : k <= n => u[k] = g[k] }
  <1>5. 0 \in T
    <2>1. 0 \in 0 .. n
      OBVIOUS
    <2> QED
      BY <2>1, <1>4
  <1>6. ASSUME NEW k \in Nat, k \in T
        PROVE  k + 1 \in T
    <2> SUFFICES ASSUME k + 1 <= n
                 PROVE  u[k + 1] = g[k + 1]
      OBVIOUS
    <2>1. k + 1 \in 0 .. n /\ k + 1 # 0 /\ (k + 1) - 1 = k /\ u[k] = g[k]
      BY <1>6
    <2> QED
      BY <2>1, <1>4
  <1> HIDE DEF T
  <1>7. T \in SUBSET Nat
    BY DEF T
  <1>8. T = Nat
    BY <1>5, <1>6, <1>7, SetInduction
  <1>9. u[n] = g[n]
    BY <1>8 DEF T
  <1> QED
    BY <1>3, <1>9

LEMMA FlatZero ==
  ASSUME NEW v
  PROVE  Flat(0, v) = v
  <1>1. 0 \in Nat /\ 0 \in 0 .. 0
    OBVIOUS
  <1>2. PICK g : Flattens(g, 0, v)
    BY <1>1, FlatExists
  <1>3. g[0] = v
    BY <1>1, <1>2 DEF Flattens
  <1> QED
    BY <1>1, <1>2, <1>3, FlatOf

LEMMA FlatNext ==
  ASSUME NEW v, NEW n \in Nat
  PROVE  Flat(n + 1, v) = Flat(n, FlattenSeq(v))
  <1> DEFINE m == n + 1
             y == FlattenSeq(v)
  <1>0. m \in Nat /\ m = n + 1
    OBVIOUS
  <1> HIDE DEF m
  <1>1. PICK g : Flattens(g, m, v)
    BY <1>0, FlatExists
  <1>2. \A k \in 0 .. m : g[k] = IF k = 0 THEN v ELSE FlattenSeq(g[k - 1])
    BY <1>1 DEF Flattens
  <1>3. Flat(m, v) = g[m]
    BY <1>0, <1>1, FlatOf
  <1> DEFINE f == [k \in 0 .. n |-> g[k + 1]]
  <1>4. ASSUME NEW k \in 0 .. n
        PROVE  f[k] = IF k = 0 THEN y ELSE FlattenSeq(f[k - 1])
    <2>1. k + 1 \in 0 .. m /\ k + 1 # 0 /\ (k + 1) - 1 = k /\ k \in 0 .. m
      BY <1>0
    <2>2. f[k] = FlattenSeq(g[k])
      BY <2>1, <1>2
    <2>3. CASE k = 0
      BY <2>1, <2>2, <2>3, <1>2
    <2>4. CASE k # 0
      <3>1. k - 1 \in 0 .. n /\ (k - 1) + 1 = k
        BY <2>4
      <3>2. f[k - 1] = g[k]
        BY <3>1
      <3> QED
        BY <2>2, <2>4, <3>2
    <2> QED
      BY <2>3, <2>4
  <1>f. f = [k \in 0 .. n |-> f[k]]
    OBVIOUS
  <1>n. f[n] = g[n + 1]
    OBVIOUS
  <1> HIDE DEF f, y
  <1>5. Flattens(f, n, y)
    BY <1>4, <1>f DEF Flattens
  <1>6. Flat(n, y) = f[n]
    BY <1>5, FlatOf
  <1> QED
    BY <1>0, <1>3, <1>6, <1>n DEF y

-----------------------------------------------------------------------------
(***************************************************************************)
(* Values and their parts.                                                 *)
(***************************************************************************)
ElementsOf(x) == [k \in 1 .. Len(x.v) |-> Item(Schema[x.t].elems[1], x.v[k])]

FieldsOf(x) == [k \in 1 .. Len(x.v) |-> Item(Schema[x.t].elems[k], x.v[k])]

EntriesOf(x, s) ==
  [k \in 1 .. (2 * Len(s)) |->
     Item(Schema[x.t].elems[2 - (k % 2)], s[(k + 1) \div 2][2 - (k % 2)])]

MemberOf(x) == <<Item(Schema[x.t].elems[x.v[1]], x.v[2])>>

\* s is a sequence of items, all of a lower depth than x.
Under(Items, depth, x, s) ==
  s \in Seq(Items) /\ \A k \in 1 .. Len(s) : depth[s[k]] < depth[x]

LEMMA ItemIs ==
  ASSUME NEW Items, NEW depth, Trees(Items, depth), NEW x \in Items
  PROVE  /\ x = Item(x.t, x.v) /\ x.t \in Type /\ WellFormed(x) /\ depth[x] \in Nat
         /\ \A y \in Parts(x) : y \in Items /\ depth[y] < depth[x]
  BY DEF Trees

LEMMA ElementsAre ==
  ASSUME NEW Items, NEW depth, Trees(Items, depth), NEW x \in Items,
         Schema[x.t].kind \in { "slice", "array", "pointer" }
  PROVE  /\ Len(x.v) \in Nat /\ x.v = [k \in 1 .. Len(x.v) |-> x.v[k]]
         /\ Schema[x.t].kind = "array" => Len(x.v) = Schema[x.t].size
         /\ Schema[x.t].kind = "pointer" => Len(x.v) <= 1
         /\ Under(Items, depth, x, ElementsOf(x)) /\ Len(ElementsOf(x)) = Len(x.v)
         /\ \A k \in 1 .. Len(x.v) : /\ ElementsOf(x)[k] = Item(Schema[x.t].elems[1], x.v[k])
                                     /\ Item(Schema[x.t].elems[1], x.v[k]) \in Items
  <1>1. /\ IsSeq(x.v)
        /\ Schema[x.t].kind = "array" => Len(x.v) = Schema[x.t].size
        /\ Schema[x.t].kind = "pointer" => Len(x.v) <= 1
    BY ItemIs DEF WellFormed
  <1>2. Len(x.v) \in Nat /\ x.v = [k \in 1 .. Len(x.v) |-> x.v[k]]
    BY <1>1 DEF IsSeq
  <1>3. Parts(x) = { Item(Schema[x.t].elems[1], x.v[k]) : k \in 1 .. Len(x.v) }
    BY DEF Parts
  <1>4. ASSUME NEW k \in 1 .. Len(x.v)
        PROVE  /\ Item(Schema[x.t].elems[1], x.v[k]) \in Items
               /\ depth[Item(Schema[x.t].elems[1], x.v[k])] < depth[x]
    BY <1>3, ItemIs
  <1>5. /\ ElementsOf(x) \in Seq(Items) /\ Len(ElementsOf(x)) = Len(x.v)
        /\ \A k \in 1 .. Len(x.v) : ElementsOf(x)[k] = Item(Schema[x.t].elems[1], x.v[k])
    BY <1>2, <1>4 DEF ElementsOf
  <1> QED
    BY <1>1, <1>2, <1>4, <1>5 DEF Under

LEMMA FieldsAre ==
  ASSUME NEW Items, NEW depth, Trees(Items, depth), NEW x \in Items,
         Schema[x.t].kind = "struct"
  PROVE  /\ Len(x.v) \in Nat /\ Len(x.v) = Len(Schema[x.t].elems)
         /\ Under(Items, depth, x, FieldsOf(x)) /\ Len(FieldsOf(x)) = Len(x.v)
         /\ \A k \in 1 .. Len(x.v) : /\ FieldsOf(x)[k] = Item(Schema[x.t].elems[k], x.v[k])
                                     /\ Item(Schema[x.t].elems[k], x.v[k]) \in Items
  <1>1. IsSeq(x.v) /\ Len(x.v) = Len(Schema[x.t].elems)
    BY ItemIs DEF WellFormed
  <1>2. Len(x.v) \in Nat
    BY <1>1 DEF IsSeq
  <1>3. Parts(x) = { Item(Schema[x.t].elems[k], x.v[k]) : k \in 1 .. Len(x.v) }
    BY DEF Parts
  <1>4. ASSUME NEW k \in 1 .. Len(x.v)
        PROVE  /\ Item(Schema[x.t].elems[k], x.v[k]) \in Items
               /\ depth[Item(Schema[x.t].elems[k], x.v[k])] < depth[x]
    BY <1>3, ItemIs
  <1>5. /\ FieldsOf(x) \in Seq(Items) /\ Len(FieldsOf(x)) = Len(x.v)
        /\ \A k \in 1 .. Len(x.v) : FieldsOf(x)[k] = Item(Schema[x.t].elems[k], x.v[k])
    BY <1>2, <1>4 DEF FieldsOf
  <1> QED
    BY <1>1, <1>2, <1>4, <1>5 DEF Under

LEMMA EntriesAre ==
  ASSUME NEW Items, NEW depth, Trees(Items, depth), NEW x \in Items,
         Schema[x.t].kind = "map", NEW s \in SetToSeqs(x.v)
  PROVE  /\ IsFiniteSet(x.v) /\ Len(s) \in Nat /\ s \in Seq(x.v)
         /\ Under(Items, depth, x, EntriesOf(x, s)) /\ Len(EntriesOf(x, s)) = 2 * Len(s)
         /\ \A k \in 1 .. Len(s) :
              /\ EntriesOf(x, s)[2 * k - 1] = Item(Schema[x.t].elems[1], s[k][1])
              /\ EntriesOf(x, s)[2 * k] = Item(Schema[x.t].elems[2], s[k][2])
         /\ \A p \in x.v : /\ Item(Schema[x.t].elems[1], p[1]) \in Items
                           /\ Item(Schema[x.t].elems[2], p[2]) \in Items
  <1> DEFINE a == Schema[x.t].elems[1]
             b == Schema[x.t].elems[2]
             E == EntriesOf(x, s)
             n == Len(s)
  <1>1. IsFiniteSet(x.v)
    BY ItemIs DEF WellFormed
  <1>2. n \in Nat /\ s \in Seq(x.v) /\ \A k \in 1 .. n : s[k] \in x.v
    BY <1>1, OrderIs
  <1>3. Parts(x) = UNION { { Item(a, p[1]), Item(b, p[2]) } : p \in x.v }
    BY DEF Parts
  <1>4. ASSUME NEW p \in x.v
        PROVE  /\ Item(a, p[1]) \in Items /\ depth[Item(a, p[1])] < depth[x]
               /\ Item(b, p[2]) \in Items /\ depth[Item(b, p[2])] < depth[x]
    <2>1. Item(a, p[1]) \in Parts(x) /\ Item(b, p[2]) \in Parts(x)
      BY <1>3
    <2> QED
      BY <2>1, ItemIs
  <1>5. ASSUME NEW k \in 1 .. n
        PROVE  /\ 2 * k - 1 \in 1 .. 2 * n /\ 2 * k \in 1 .. 2 * n
               /\ E[2 * k - 1] = Item(a, s[k][1]) /\ E[2 * k] = Item(b, s[k][2])
    <2>1. k \in Nat /\ 2 * k - 1 \in 1 .. 2 * n /\ 2 * k \in 1 .. 2 * n
      BY <1>2
    <2>2. /\ (2 * k - 1) % 2 = 1 /\ ((2 * k - 1) + 1) \div 2 = k
          /\ (2 * k) % 2 = 0 /\ (2 * k + 1) \div 2 = k
      BY <2>1, Halves
    <2>3. \A j \in 1 .. 2 * n :
            E[j] = Item(Schema[x.t].elems[2 - (j % 2)], s[(j + 1) \div 2][2 - (j % 2)])
      BY DEF EntriesOf
    <2> HIDE DEF E, n
    <2>4. /\ E[2 * k - 1] = Item(Schema[x.t].elems[2 - ((2 * k - 1) % 2)],
                                 s[((2 * k - 1) + 1) \div 2][2 - ((2 * k - 1) % 2)])
          /\ E[2 * k] = Item(Schema[x.t].elems[2 - ((2 * k) % 2)],
                             s[(2 * k + 1) \div 2][2 - ((2 * k) % 2)])
      BY <2>1, <2>3
    <2>5. 2 - 1 = 1 /\ 2 - 0 = 2
      OBVIOUS
    <2>6. E[2 * k - 1] = Item(Schema[x.t].elems[2 - 1], s[k][2 - 1])
      BY <2>2, <2>4
    <2>7. E[2 * k] = Item(Schema[x.t].elems[2 - 0], s[k][2 - 0])
      BY <2>2, <2>4
    <2> QED
      BY <2>1, <2>5, <2>6, <2>7
  <1>6. DOMAIN E = 1 .. 2 * n /\ E = [k \in 1 .. 2 * n |-> E[k]]
    BY DEF EntriesOf
  <1> HIDE DEF E, n, a, b
  <1>7. ASSUME NEW j \in 1 .. 2 * n
        PROVE  E[j] \in Items /\ depth[E[j]] < depth[x]
    <2>1. PICK k \in 1 .. n : j = 2 * k - 1 \/ j = 2 * k
      BY <1>2, Parity
    <2>2. s[k] \in x.v
      BY <1>2
    <2>3. E[2 * k - 1] = Item(a, s[k][1]) /\ E[2 * k] = Item(b, s[k][2])
      BY <1>5
    <2>4. /\ Item(a, s[k][1]) \in Items /\ depth[Item(a, s[k][1])] < depth[x]
          /\ Item(b, s[k][2]) \in Items /\ depth[Item(b, s[k][2])] < depth[x]
      BY <1>4, <2>2
    <2> QED
      BY <2>1, <2>3, <2>4
  <1>8. E \in Seq(Items) /\ Len(E) = 2 * n
    BY <1>2, <1>6, <1>7
  <1>9. Under(Items, depth, x, E)
    BY <1>7, <1>8 DEF Under
  <1> QED
    BY <1>1, <1>2, <1>4, <1>5, <1>8, <1>9 DEF E, n, a, b

LEMMA MemberIs ==
  ASSUME NEW Items, NEW depth, Trees(Items, depth), NEW x \in Items,
         Schema[x.t].kind = "union", x.v[1] \in DOMAIN Schema[x.t].elems
  PROVE  /\ Under(Items, depth, x, MemberOf(x)) /\ Len(MemberOf(x)) = 1
         /\ Item(Schema[x.t].elems[x.v[1]], x.v[2]) \in Items
  <1> DEFINE y == Item(Schema[x.t].elems[x.v[1]], x.v[2])
  <1>1. Parts(x) = { y }
    BY DEF Parts
  <1>2. y \in Items /\ depth[y] < depth[x]
    BY <1>1, ItemIs
  <1>3. MemberOf(x) = <<y>>
    BY DEF MemberOf
  <1> HIDE DEF y
  <1>4. <<y>> \in Seq(Items) /\ Len(<<y>>) = 1 /\ <<y>>[1] = y
    BY <1>2
  <1> QED
    BY <1>2, <1>3, <1>4 DEF Under, y

-----------------------------------------------------------------------------
(***************************************************************************)
(* The memory of a value has the bytes fixedSize says.                     *)
(***************************************************************************)

\* The values of type t.
Of(Items, t) == { x.v : x \in { y \in Items : y.t = t } }

LEMMA OfIs ==
  ASSUME NEW Items, NEW depth, Trees(Items, depth), NEW t, NEW v
  PROVE  v \in Of(Items, t) <=> Item(t, v) \in Items
  <1>1. ASSUME v \in Of(Items, t)
        PROVE  Item(t, v) \in Items
    <2>1. PICK x \in Items : x.t = t /\ x.v = v
      BY <1>1 DEF Of
    <2>2. x = Item(x.t, x.v)
      BY ItemIs
    <2> QED
      BY <2>1, <2>2
  <1>2. ASSUME Item(t, v) \in Items
        PROVE  v \in Of(Items, t)
    <2>1. Item(t, v).t = t /\ Item(t, v).v = v
      BY DEF Item
    <2> QED
      BY <1>2, <2>1 DEF Of
  <1> QED
    BY <1>1, <1>2

LEMMA FixedValue ==
  ASSUME NEW Items, NEW depth, Trees(Items, depth), NEW t \in Type, NEW v \in Of(Items, t)
  PROVE  /\ Schema[t].kind \in { "fixed", "block" } =>
              v \in Seq(Nat) /\ Len(v) = Schema[t].size
         /\ Schema[t].kind = "array" =>
              v \in Seq(Of(Items, Schema[t].elems[1])) /\ Len(v) = Schema[t].size
  <1> DEFINE x == Item(t, v)
             e == Schema[t].elems[1]
             S == Of(Items, e)
  <1>1. x \in Items /\ x.t = t /\ x.v = v
    BY OfIs DEF Item
  <1> HIDE DEF x
  <1>2. ASSUME Schema[t].kind \in { "fixed", "block" }
        PROVE  v \in Seq(Nat) /\ Len(v) = Schema[t].size
    <2>1. WellFormed(x)
      BY <1>1, ItemIs
    <2> QED
      BY <1>1, <1>2, <2>1 DEF WellFormed
  <1>3. ASSUME Schema[t].kind = "array"
        PROVE  v \in Seq(S) /\ Len(v) = Schema[t].size
    <2>1. /\ Len(v) \in Nat /\ v = [k \in 1 .. Len(v) |-> v[k]] /\ Len(v) = Schema[t].size
          /\ \A k \in 1 .. Len(v) : Item(e, v[k]) \in Items
      BY <1>1, <1>3, ElementsAre
    <2>2. \A k \in 1 .. Len(v) : v[k] \in S
      BY <2>1, OfIs
    <2> HIDE DEF S
    <2> QED
      BY <2>1, <2>2
  <1> QED
    BY <1>2, <1>3

LEMMA TimesAssociates ==
  ASSUME NEW a \in Nat, NEW b \in Nat, NEW c \in Nat
  PROVE  a * (b * c) = (b * a) * c
  OBVIOUS

LEMMA FlatLength ==
  ASSUME NEW Items, NEW depth, NEW rank, Encodable(Items, depth, rank)
  PROVE  \A t \in Type : FixedSize(t) \in Nat =>
           \A s \in Seq(Of(Items, t)) :
             /\ Flat(Dimensions(t) + 1, s) \in Seq(Nat)
             /\ Len(Flat(Dimensions(t) + 1, s)) = FixedSize(t) * Len(s)
  <1>0. Schemas /\ ArraysEnd(rank) /\ Trees(Items, depth)
    BY DEF Encodable
  <1>r. rank \in [Type -> Nat]
        /\ \A t \in Type : Schema[t].kind = "array" => rank[Schema[t].elems[1]] < rank[t]
    BY <1>0 DEF ArraysEnd
  <1> DEFINE Unrolls(t) == FixedSize(t) \in Nat =>
               \A s \in Seq(Of(Items, t)) :
                 /\ Flat(Dimensions(t) + 1, s) \in Seq(Nat)
                 /\ Len(Flat(Dimensions(t) + 1, s)) = FixedSize(t) * Len(s)
             T == { n \in Nat : \A t \in Type : rank[t] < n => Unrolls(t) }
  <1>1. 0 \in T
    BY <1>r
  <1>2. ASSUME NEW n \in Nat, n \in T
        PROVE  n + 1 \in T
    <2>0. \A e \in Type : rank[e] < n => Unrolls(e)
      BY <1>2
    <2>1. ASSUME NEW t \in Type, rank[t] < n + 1, FixedSize(t) \in Nat,
                 NEW s \in Seq(Of(Items, t))
          PROVE  /\ Flat(Dimensions(t) + 1, s) \in Seq(Nat)
                 /\ Len(Flat(Dimensions(t) + 1, s)) = FixedSize(t) * Len(s)
      <3> DEFINE y == FlattenSeq(s)
      <3>0. Len(s) \in Nat /\ \A k \in 1 .. Len(s) : s[k] \in Of(Items, t)
        OBVIOUS
      <3>s. s = [k \in 1 .. Len(s) |-> s[k]]
        OBVIOUS
      <3>f. FixedSize(t) # -1
        BY <2>1
      <3> HIDE DEF y
      <3>1. CASE Schema[t].kind \in { "fixed", "block" }
        <4>1. FixedSize(t) = Schema[t].size /\ Dimensions(t) = 0
          BY <3>1, <1>0, FixedSizeIs, DimensionsIs
        <4>2. \A k \in 1 .. Len(s) : s[k] \in Seq(Nat) /\ Len(s[k]) = FixedSize(t)
          BY <3>0, <3>1, <4>1, <1>0, FixedValue
        <4>3. s \in Seq(Seq(Nat))
          BY <3>0, <3>s, <4>2
        <4>4. y \in Seq(Nat) /\ Len(y) = FixedSize(t) * Len(s)
          BY <2>1, <4>2, <4>3, FlattenConst DEF y
        <4>5. Flat(0 + 1, s) = y
          BY FlatNext, FlatZero DEF y
        <4> QED
          BY <4>1, <4>4, <4>5
      <3>2. CASE Schema[t].kind = "array"
        <4> DEFINE e == Schema[t].elems[1]
                   z == Schema[t].size
                   S == Of(Items, e)
                   d == Dimensions(e)
                   w == FixedSize(e)
        <4>1. e \in Type /\ z \in Nat /\ rank[e] < rank[t]
          BY <3>2, <1>0, <1>r, SchemaIs
        <4>2. w \in Wide /\ FixedSize(t) = IF w >= 0 THEN z * w ELSE -1
          BY <3>2, <4>1, <1>0, FixedSizeIs
        <4>3. d \in Nat /\ Dimensions(t) = 1 + d
          BY <3>2, <4>1, <1>0, DimensionsIs
        <4>4. \A k \in 1 .. Len(s) : s[k] \in Seq(S) /\ Len(s[k]) = z
          BY <3>0, <3>2, <1>0, FixedValue
        <4>5. Unrolls(e)
          <5>1. rank[e] < n
            BY <2>1, <4>1, <1>r
          <5> QED
            BY <5>1, <4>1, <2>0
        <4> HIDE DEF Unrolls
        <4>6. w \in Nat /\ FixedSize(t) = z * w
          <5> HIDE DEF w
          <5> QED
            BY <4>2, <3>f DEF Wide
        <4> HIDE DEF S, z, w, d
        <4>7. s \in Seq(Seq(S))
          BY <3>0, <3>s, <4>4
        <4>8. y \in Seq(S) /\ Len(y) = z * Len(s)
          BY <4>1, <4>4, <4>7, FlattenConst DEF y
        <4>9. Flat(d + 1, y) \in Seq(Nat) /\ Len(Flat(d + 1, y)) = w * Len(y)
          BY <4>5, <4>6, <4>8 DEF Unrolls, S, w, d
        <4>10. Flat((d + 1) + 1, s) = Flat(d + 1, y)
          <5>1. d + 1 \in Nat
            BY <4>3
          <5> QED
            BY <5>1, FlatNext DEF y
        <4>11. w * (z * Len(s)) = (z * w) * Len(s)
          BY <3>0, <4>1, <4>6, TimesAssociates
        <4>12. Dimensions(t) + 1 = (d + 1) + 1
          BY <4>3
        <4> QED
          BY <4>6, <4>8, <4>9, <4>10, <4>11, <4>12
      <3>3. CASE Schema[t].kind \notin { "fixed", "block", "array" }
        BY <3>3, <3>f, <1>0, FixedSizeIs
      <3> QED
        BY <3>1, <3>2, <3>3
    <2> QED
      BY <2>1
  <1>3. \A n \in T : \A t \in Type : rank[t] < n => Unrolls(t)
    OBVIOUS
  <1> HIDE DEF T
  <1>4. T \in SUBSET Nat
    BY DEF T
  <1>5. T = Nat
    BY <1>1, <1>2, <1>4, SetInduction
  <1>6. ASSUME NEW t \in Type
        PROVE  Unrolls(t)
    <2>1. rank[t] + 1 \in Nat /\ rank[t] < rank[t] + 1
      BY <1>r
    <2> QED
      BY <2>1, <1>3, <1>5
  <1> QED
    BY <1>6

LEMMA FlatOne ==
  ASSUME NEW Items, NEW depth, NEW rank, Encodable(Items, depth, rank),
         NEW t \in Type, FixedSize(t) \in Nat, NEW v \in Of(Items, t)
  PROVE  /\ Flat(Dimensions(t), v) \in Seq(Nat)
         /\ Len(Flat(Dimensions(t), v)) = FixedSize(t)
  <1>0. Schemas /\ ArraysEnd(rank) /\ Trees(Items, depth)
    BY DEF Encodable
  <1>f. FixedSize(t) # -1
    OBVIOUS
  <1>1. CASE Schema[t].kind \in { "fixed", "block" }
    <2>1. FixedSize(t) = Schema[t].size /\ Dimensions(t) = 0
      BY <1>1, <1>0, FixedSizeIs, DimensionsIs
    <2> QED
      BY <2>1, <1>0, <1>1, FlatZero, FixedValue
  <1>2. CASE Schema[t].kind = "array"
    <2> DEFINE e == Schema[t].elems[1]
               z == Schema[t].size
               S == Of(Items, e)
               d == Dimensions(e)
               w == FixedSize(e)
    <2>1. e \in Type /\ z \in Nat
      BY <1>2, <1>0, SchemaIs
    <2>2. w \in Wide /\ FixedSize(t) = IF w >= 0 THEN z * w ELSE -1
      BY <1>2, <2>1, <1>0, FixedSizeIs
    <2>3. d \in Nat /\ Dimensions(t) = 1 + d
      BY <1>2, <2>1, <1>0, DimensionsIs
    <2>4. v \in Seq(S) /\ Len(v) = z
      BY <1>2, <1>0, FixedValue
    <2>5. w \in Nat /\ FixedSize(t) = z * w
      <3> HIDE DEF w
      <3> QED
        BY <2>2, <1>f DEF Wide
    <2>6. Flat(d + 1, v) \in Seq(Nat) /\ Len(Flat(d + 1, v)) = w * Len(v)
      BY <2>1, <2>4, <2>5, FlatLength
    <2> HIDE DEF d, w, z
    <2>7. w * z = z * w
      BY <2>1, <2>5
    <2>8. Dimensions(t) = d + 1
      BY <2>3
    <2> QED
      BY <2>4, <2>5, <2>6, <2>7, <2>8
  <1>3. CASE Schema[t].kind \notin { "fixed", "block", "array" }
    BY <1>3, <1>f, <1>0, FixedSizeIs
  <1> QED
    BY <1>1, <1>2, <1>3

\* The fields of a flat struct.
LEMMA FlatFields ==
  ASSUME NEW Items, NEW depth, NEW rank, Encodable(Items, depth, rank),
         NEW x \in Items, NEW r, FlatStruct(x.t, r)
  PROVE  /\ Len(x.v) \in Nat /\ Len(x.v) = Len(Schema[x.t].elems)
         /\ \A k \in 1 .. Len(x.v) :
              /\ Schema[x.t].elems[k] \in Type /\ FixedSize(Schema[x.t].elems[k]) \in Nat
              /\ x.v[k] \in Of(Items, Schema[x.t].elems[k])
         /\ [k \in 1 .. Len(x.v) |-> FixedSize(Schema[x.t].elems[k])] \in Seq(Nat)
         /\ Total([k \in 1 .. Len(x.v) |-> FixedSize(Schema[x.t].elems[k])]) = r
  <1> DEFINE e == Schema[x.t].elems
             sizes == [k \in 1 .. Len(e) |-> FixedSize(e[k])]
  <1>0. Schemas /\ Trees(Items, depth)
    BY DEF Encodable
  <1>1. Schema[x.t].kind = "struct" /\ sizes \in Seq(Nat) /\ Total(sizes) = r
    BY DEF FlatStruct
  <1>2. /\ Len(x.v) \in Nat /\ Len(x.v) = Len(e)
        /\ \A k \in 1 .. Len(x.v) : Item(e[k], x.v[k]) \in Items
    BY <1>0, <1>1, FieldsAre
  <1>3. e \in Seq(Type) /\ x.t \in Type
    BY <1>0, SchemaIs, ItemIs
  <1> HIDE DEF e
  <1>4. ASSUME NEW k \in 1 .. Len(e)
        PROVE  e[k] \in Type /\ FixedSize(e[k]) \in Nat
    <2>1. Len(sizes) = Len(e) /\ sizes[k] = FixedSize(e[k])
      BY <1>3
    <2> HIDE DEF sizes
    <2>2. sizes[k] \in Nat
      BY <1>1, <2>1, ElementOfSeq
    <2> QED
      BY <2>1, <2>2, <1>3, ElementOfSeq
  <1>5. \A k \in 1 .. Len(e) : x.v[k] \in Of(Items, e[k])
    BY <1>0, <1>2, OfIs
  <1> QED
    BY <1>1, <1>2, <1>4, <1>5 DEF e

LEMMA ListIs ==
  ASSUME NEW S, NEW n \in Nat, NEW z \in [1 .. n -> S]
  PROVE  z \in Seq(S) /\ Len(z) = n
  OBVIOUS

LEMMA StructMemoryIs ==
  ASSUME NEW Items, NEW depth, NEW rank, Encodable(Items, depth, rank),
         NEW x \in Items, NEW r, FlatStruct(x.t, r)
  PROVE  StructMemory(x.t, x.v) \in Seq(Nat) /\ Len(StructMemory(x.t, x.v)) = r
  <1> DEFINE e == Schema[x.t].elems
             n == Len(x.v)
             z == [k \in 1 .. n |-> Flat(Dimensions(e[k]), x.v[k])]
             q == [k \in 1 .. n |-> FixedSize(e[k])]
  <1>1. /\ n \in Nat /\ q \in Seq(Nat) /\ Total(q) = r
        /\ \A k \in 1 .. n : e[k] \in Type /\ FixedSize(e[k]) \in Nat /\ x.v[k] \in Of(Items, e[k])
    BY FlatFields
  <1>2. ASSUME NEW k \in 1 .. n
        PROVE  z[k] \in Seq(Nat) /\ Len(z[k]) = FixedSize(e[k])
    <2>1. z[k] = Flat(Dimensions(e[k]), x.v[k])
      OBVIOUS
    <2> HIDE DEF z
    <2> QED
      BY <2>1, <1>1, FlatOne
  <1>3. z \in Seq(Seq(Nat)) /\ Len(z) = n
    <2>1. z = [k \in 1 .. n |-> z[k]]
      OBVIOUS
    <2> DEFINE S == Seq(Nat)
    <2>2. \A k \in 1 .. n : z[k] \in S
      BY <1>2
    <2>n. n \in Nat
      BY <1>1
    <2> HIDE DEF z, n, S
    <2>3. z \in [1 .. n -> S]
      BY <2>1, <2>2
    <2>4. z \in Seq(S) /\ Len(z) = n
      BY <2>n, <2>3, ListIs
    <2> QED
      BY <2>4 DEF S
  <1>4. StructMemory(x.t, x.v) = FlattenSeq(z)
    BY DEF StructMemory
  <1> HIDE DEF z, n, e
  <1>5. [k \in 1 .. Len(z) |-> Len(z[k])] = q
    BY <1>2, <1>3
  <1> HIDE DEF q
  <1> QED
    BY <1>1, <1>3, <1>4, <1>5, FlattenIs

\* Memory, of the value that is to be visited next.
MemoryOf(x) ==
  IF Schema[x.t].kind = "struct" THEN StructMemory(x.t, x.v)
  ELSE IF Schema[Schema[x.t].elems[1]].kind = "struct"
    THEN FlattenSeq([k \in 1 .. Len(x.v) |-> StructMemory(Schema[x.t].elems[1], x.v[k])])
  ELSE Flat(Dimensions(Schema[x.t].elems[1]) + 1, x.v)

\* A block is copied whole: it has the bytes that Size counts.
LEMMA MemoryIs ==
  ASSUME NEW Items, NEW depth, NEW rank, Encodable(Items, depth, rank),
         NEW x \in Items, Schema[x.t].bulk
  PROVE  /\ Schema[x.t].kind = "struct" =>
              MemoryOf(x) \in Seq(Nat) /\ Len(MemoryOf(x)) = Schema[x.t].raw
         /\ Schema[x.t].kind \in { "slice", "array" } =>
              MemoryOf(x) \in Seq(Nat) /\ Len(MemoryOf(x)) = Schema[x.t].raw * Len(x.v)
  <1> DEFINE e == Schema[x.t].elems[1]
             r == Schema[x.t].raw
             n == Len(x.v)
             M == MemoryOf(x)
  <1>0. Schemas /\ ArraysEnd(rank) /\ BlocksAreFlat /\ Trees(Items, depth) /\ x.t \in Type
    BY ItemIs DEF Encodable
  <1>1. /\ Schema[x.t].kind = "struct" => FlatStruct(x.t, r)
        /\ Schema[x.t].kind \in { "slice", "array" } => FixedSize(e) = r \/ FlatStruct(e, r)
    <2> DEFINE t == x.t
    <2>1. t \in Type /\ Schema[t].bulk
      BY <1>0
    <2> HIDE DEF t
    <2>2. /\ Schema[t].kind = "struct" => FlatStruct(t, Schema[t].raw)
          /\ Schema[t].kind \in { "slice", "array" } =>
               \/ FixedSize(Schema[t].elems[1]) = Schema[t].raw
               \/ FlatStruct(Schema[t].elems[1], Schema[t].raw)
      BY <1>0, <2>1 DEF BlocksAreFlat
    <2> QED
      BY <2>2 DEF t
  <1>r. r \in Nat
    BY <1>0, SchemaIs
  <1>2. ASSUME Schema[x.t].kind = "struct"
        PROVE  M \in Seq(Nat) /\ Len(M) = r
    BY <1>1, <1>2, StructMemoryIs DEF MemoryOf
  <1>3. ASSUME Schema[x.t].kind \in { "slice", "array" }
        PROVE  M \in Seq(Nat) /\ Len(M) = r * n
    <2>1. /\ n \in Nat /\ x.v = [k \in 1 .. n |-> x.v[k]] /\ e \in Type
          /\ \A k \in 1 .. n : Item(e, x.v[k]) \in Items
      BY <1>0, <1>3, ElementsAre, SchemaIs
    <2>2. CASE FlatStruct(e, r)
      <3> DEFINE z == [k \in 1 .. n |-> StructMemory(e, x.v[k])]
      <3>1. Schema[e].kind = "struct"
        BY <2>2 DEF FlatStruct
      <3>2. M = FlattenSeq(z)
        BY <1>3, <3>1 DEF MemoryOf
      <3>3. ASSUME NEW k \in 1 .. n
            PROVE  StructMemory(e, x.v[k]) \in Seq(Nat) /\ Len(StructMemory(e, x.v[k])) = r
        <4> DEFINE y == Item(e, x.v[k])
        <4>1. y \in Items /\ y.t = e /\ y.v = x.v[k]
          BY <2>1 DEF Item
        <4> HIDE DEF y
        <4> QED
          BY <2>2, <4>1, StructMemoryIs
      <3>4. z \in Seq(Seq(Nat)) /\ Len(z) = n /\ \A k \in 1 .. Len(z) : Len(z[k]) = r
        BY <2>1, <3>3
      <3> HIDE DEF z, M
      <3> QED
        BY <1>r, <3>2, <3>4, FlattenConst
    <2>3. CASE FixedSize(e) = r
      <3> DEFINE S == Of(Items, e)
      <3>1. Schema[e].kind # "struct"
        <4>1. FixedSize(e) # -1
          BY <2>3, <1>r
        <4> QED
          BY <4>1, <2>1, <1>0, FixedSizeIs
      <3>2. M = Flat(Dimensions(e) + 1, x.v)
        BY <1>3, <3>1 DEF MemoryOf
      <3>3. \A k \in 1 .. n : x.v[k] \in S
        BY <2>1, <1>0, OfIs
      <3>4. x.v \in Seq(S)
        <4> HIDE DEF S
        <4> QED
          BY <2>1, <3>3
      <3> HIDE DEF M
      <3> QED
        BY <1>r, <2>1, <2>3, <3>2, <3>4, FlatLength
    <2> QED
      BY <1>1, <1>3, <2>2, <2>3
  <1> QED
    BY <1>2, <1>3

-----------------------------------------------------------------------------
(***************************************************************************)
(* What a value weighs: W says of an item how many bytes the wire needs    *)
(* for it, U how many unions of an undeclared type it has.                 *)
(***************************************************************************)
LEMMA OrderExists ==
  ASSUME NEW S, IsFiniteSet(S)
  PROVE  SetToSeqs(S) # {}
  <1> DEFINE n == Cardinality(S)
  <1>1. PICK f : f \in Bijection(1 .. n, S)
    BY FS_CardinalityType DEF ExistsBijection
  <1>2. f \in [1 .. n -> S] /\ \A j, k \in 1 .. n : f[j] = f[k] => j = k
    BY <1>1 DEF Bijection, Injection, IsInjective
  <1>3. f \in SetToSeqs(S)
    BY <1>2 DEF SetToSeqs
  <1> QED
    BY <1>3

IsDeclared(x) == x.v[1] \in DOMAIN Schema[x.t].elems

\* The parts of x, in one of the orders they may be visited in.
InOrder(x) ==
  IF Schema[x.t].kind \in { "slice", "array", "pointer" } THEN ElementsOf(x)
  ELSE IF Schema[x.t].kind = "struct" THEN FieldsOf(x)
  ELSE IF Schema[x.t].kind = "map" THEN EntriesOf(x, CHOOSE s \in SetToSeqs(x.v) : TRUE)
  ELSE IF Schema[x.t].kind = "union" /\ IsDeclared(x) THEN MemberOf(x)
  ELSE << >>

LEMMA InOrderIs ==
  ASSUME NEW Items, NEW depth, Trees(Items, depth), NEW x \in Items
  PROVE  Under(Items, depth, x, InOrder(x))
  <1>1. CASE Schema[x.t].kind \in { "slice", "array", "pointer" }
    BY <1>1, ElementsAre DEF InOrder
  <1>2. CASE Schema[x.t].kind = "struct"
    BY <1>2, FieldsAre DEF InOrder
  <1>3. CASE Schema[x.t].kind = "map"
    <2> DEFINE s == CHOOSE s \in SetToSeqs(x.v) : TRUE
    <2>1. IsFiniteSet(x.v)
      BY <1>3, ItemIs DEF WellFormed
    <2>2. s \in SetToSeqs(x.v)
      BY <2>1, OrderExists
    <2>3. InOrder(x) = EntriesOf(x, s)
      BY <1>3 DEF InOrder
    <2> HIDE DEF s
    <2> QED
      BY <1>3, <2>2, <2>3, EntriesAre
  <1>4. CASE Schema[x.t].kind = "union" /\ IsDeclared(x)
    BY <1>4, MemberIs DEF InOrder, IsDeclared
  <1>5. CASE /\ Schema[x.t].kind \notin { "slice", "array", "pointer", "struct", "map" }
             /\ ~ (Schema[x.t].kind = "union" /\ IsDeclared(x))
    <2>1. InOrder(x) = << >>
      BY <1>5 DEF InOrder
    <2>2. << >> \in Seq(Items) /\ Len(<< >>) = 0
      OBVIOUS
    <2> QED
      BY <2>1, <2>2 DEF Under
  <1> QED
    BY <1>1, <1>2, <1>3, <1>4, <1>5

\* W is, for every item, what it has of its own and what its parts have.
Weighs(W, Items, own) ==
  W \in [Items -> Nat] /\ \A x \in Items : W[x] = own[x] + Load(W, InOrder(x))

LEMMA WeightExists ==
  ASSUME NEW Items, NEW depth, Trees(Items, depth), NEW own \in [Items -> Nat]
  PROVE  \E W : Weighs(W, Items, own)
  <1> DEFINE F == Maps(Items, Nat)
             Phi == [W \in F |-> [x \in Items |-> own[x] + Load(W, InOrder(x))]]
             zero == [x \in Items |-> 0]
  <1>1. depth \in Maps(Items, Nat)
    BY DEF Trees, Maps
  <1>2. zero \in F
    BY DEF Maps
  <1>3. Phi \in Maps(F, F)
    <2>1. ASSUME NEW W \in [Items -> Nat], NEW x \in Items
          PROVE  own[x] + Load(W, InOrder(x)) \in Nat
      <3>1. InOrder(x) \in Seq(Items)
        BY InOrderIs DEF Under
      <3>2. Load(W, InOrder(x)) \in Nat /\ own[x] \in Nat
        BY <3>1, LoadNat
      <3> QED
        BY <3>2
    <2> QED
      BY <2>1 DEF Maps
  <1>4. Descends(Phi, Items, depth)
    <2>1. ASSUME NEW f \in [Items -> Nat], NEW g \in [Items -> Nat], NEW x \in Items,
                 \A y \in Items : depth[y] < depth[x] => f[y] = g[y]
          PROVE  Phi[f][x] = Phi[g][x]
      <3> DEFINE s == InOrder(x)
      <3>1. s \in Seq(Items) /\ \A k \in 1 .. Len(s) : depth[s[k]] < depth[x]
        BY InOrderIs DEF Under
      <3> HIDE DEF s
      <3>2. \A k \in 1 .. Len(s) : f[s[k]] = g[s[k]]
        BY <2>1, <3>1
      <3>3. Load(f, s) = Load(g, s)
        BY <3>2, LoadAgrees
      <3> QED
        BY <3>3 DEF s, Maps
    <2>2. DOMAIN Phi = [Items -> Nat]
      BY DEF Maps
    <2> HIDE DEF Phi
    <2> QED
      BY <2>1, <2>2 DEF Descends
  <1>5. PICK W \in F : Phi[W] = W
    <2> HIDE DEF Phi, zero
    <2> QED
      BY <1>1, <1>2, <1>3, <1>4, Unfolding
  <1>6. Weighs(W, Items, own)
    BY <1>5 DEF Weighs, Maps
  <1> QED
    BY <1>6

\* The bytes of x itself: of a basic, a string or a []byte, and of every prefix.
OwnBytes(x) ==
  IF Schema[x.t].kind \in { "fixed", "block" } THEN Schema[x.t].size
  ELSE IF Schema[x.t].kind \in { "string", "bytes" } THEN SizeUvarint(Len(x.v)) + Len(x.v)
  ELSE IF Schema[x.t].kind = "slice" THEN SizeUvarint(Len(x.v))
  ELSE IF Schema[x.t].kind = "map" THEN SizeUvarint(Cardinality(x.v))
  ELSE IF Schema[x.t].kind = "pointer" THEN 1
  ELSE IF Schema[x.t].kind = "union" /\ x.v[1] <= Len(Schema[x.t].elems) THEN TagLen(x.v[1])
  ELSE 0

\* One for a union that Size, Marshal and Append panic on.
OwnStops(x) ==
  IF Schema[x.t].kind = "union" /\ ~ (x.v[1] <= Len(Schema[x.t].elems)) THEN 1 ELSE 0

\* What each prefix comes to.
LEMMA PrefixIs ==
  ASSUME NEW Items, NEW depth, NEW rank, Encodable(Items, depth, rank), NEW x \in Items
  PROVE  /\ Schema[x.t].kind \in { "string", "bytes", "slice" } =>
              /\ PutUvarint(Len(x.v)) \in Seq(Nat)
              /\ SizeUvarint(Len(x.v)) = Len(PutUvarint(Len(x.v)))
         /\ Schema[x.t].kind = "map" =>
              /\ PutUvarint(Cardinality(x.v)) \in Seq(Nat)
              /\ SizeUvarint(Cardinality(x.v)) = Len(PutUvarint(Cardinality(x.v)))
         /\ Schema[x.t].kind = "union" /\ x.v[1] <= Len(Schema[x.t].elems) =>
              /\ PutUvarint(x.v[1]) \in Seq(Nat)
              /\ TagLen(x.v[1]) = Len(PutUvarint(x.v[1]))
  <1>1. PrefixesFit(Items)
    BY DEF Encodable
  <1>2. /\ Schema[x.t].kind \in { "string", "bytes", "slice" } => Count(x) = Len(x.v)
        /\ Schema[x.t].kind = "map" => Count(x) = Cardinality(x.v)
        /\ Schema[x.t].kind = "union" => Count(x) = x.v[1]
    BY DEF Count
  <1>3. /\ Schema[x.t].kind \in { "string", "bytes", "slice", "map" } =>
             /\ PutUvarint(Count(x)) \in Seq(Nat)
             /\ SizeUvarint(Count(x)) = Len(PutUvarint(Count(x)))
        /\ Schema[x.t].kind = "union" /\ Count(x) <= Len(Schema[x.t].elems) =>
             /\ PutUvarint(Count(x)) \in Seq(Nat)
             /\ TagLen(Count(x)) = Len(PutUvarint(Count(x)))
    BY <1>1 DEF PrefixesFit
  <1>4. ASSUME Schema[x.t].kind \in { "string", "bytes", "slice" }
        PROVE  /\ PutUvarint(Len(x.v)) \in Seq(Nat)
               /\ SizeUvarint(Len(x.v)) = Len(PutUvarint(Len(x.v)))
    BY <1>2, <1>3, <1>4
  <1>5. ASSUME Schema[x.t].kind = "map"
        PROVE  /\ PutUvarint(Cardinality(x.v)) \in Seq(Nat)
               /\ SizeUvarint(Cardinality(x.v)) = Len(PutUvarint(Cardinality(x.v)))
    BY <1>2, <1>3, <1>5
  <1>6. ASSUME Schema[x.t].kind = "union", x.v[1] <= Len(Schema[x.t].elems)
        PROVE  /\ PutUvarint(x.v[1]) \in Seq(Nat)
               /\ TagLen(x.v[1]) = Len(PutUvarint(x.v[1]))
    BY <1>2, <1>3, <1>6
  <1> QED
    BY <1>4, <1>5, <1>6

LEMMA OwnNat ==
  ASSUME NEW Items, NEW depth, NEW rank, Encodable(Items, depth, rank), NEW x \in Items
  PROVE  OwnBytes(x) \in Nat /\ OwnStops(x) \in Nat
  <1>0. Schemas /\ Trees(Items, depth) /\ x.t \in Type
    BY ItemIs DEF Encodable
  <1>1. CASE Schema[x.t].kind \in { "fixed", "block" }
    BY <1>0, <1>1, SchemaIs DEF OwnBytes, OwnStops
  <1>2. CASE Schema[x.t].kind \in { "string", "bytes" }
    <2>1. x.v \in Seq(Nat)
      BY <1>0, <1>2, ItemIs DEF WellFormed
    <2>2. SizeUvarint(Len(x.v)) = Len(PutUvarint(Len(x.v))) /\ PutUvarint(Len(x.v)) \in Seq(Nat)
      BY <1>2, PrefixIs
    <2>3. Len(x.v) \in Nat /\ SizeUvarint(Len(x.v)) \in Nat
      BY <2>1, <2>2
    <2> QED
      BY <1>2, <2>3 DEF OwnBytes, OwnStops
  <1>3. CASE Schema[x.t].kind \in { "slice", "map" }
    <2>1. OwnBytes(x) \in Nat
      <3>1. CASE Schema[x.t].kind = "slice"
        BY <3>1, PrefixIs DEF OwnBytes
      <3>2. CASE Schema[x.t].kind = "map"
        BY <3>2, PrefixIs DEF OwnBytes
      <3> QED
        BY <1>3, <3>1, <3>2
    <2> QED
      BY <1>3, <2>1 DEF OwnStops
  <1>4. CASE Schema[x.t].kind = "union"
    <2>1. CASE x.v[1] <= Len(Schema[x.t].elems)
      BY <1>4, <2>1, PrefixIs DEF OwnBytes, OwnStops
    <2>2. CASE ~ (x.v[1] <= Len(Schema[x.t].elems))
      BY <1>4, <2>2 DEF OwnBytes, OwnStops
    <2> QED
      BY <2>1, <2>2
  <1>5. CASE Schema[x.t].kind \notin { "fixed", "block", "string", "bytes", "slice", "map", "union" }
    BY <1>5 DEF OwnBytes, OwnStops
  <1> QED
    BY <1>1, <1>2, <1>3, <1>4, <1>5

Bytes(W, Items) == Weighs(W, Items, [x \in Items |-> OwnBytes(x)])

Stops(U, Items) == Weighs(U, Items, [x \in Items |-> OwnStops(x)])

LEMMA BytesExist ==
  ASSUME NEW Items, NEW depth, NEW rank, Encodable(Items, depth, rank)
  PROVE  /\ \E W : Bytes(W, Items)
         /\ \E U : Stops(U, Items)
  <1>1. Trees(Items, depth)
    BY DEF Encodable
  <1>2. /\ [x \in Items |-> OwnBytes(x)] \in [Items -> Nat]
        /\ [x \in Items |-> OwnStops(x)] \in [Items -> Nat]
    BY OwnNat
  <1> QED
    BY <1>1, <1>2, WeightExists DEF Bytes, Stops

\* What both weigh, kind by kind.
LEMMA BytesAre ==
  ASSUME NEW Items, NEW W, Bytes(W, Items), NEW U, Stops(U, Items), NEW x \in Items
  PROVE  /\ W \in [Items -> Nat] /\ W[x] = OwnBytes(x) + Load(W, InOrder(x))
         /\ U \in [Items -> Nat] /\ U[x] = OwnStops(x) + Load(U, InOrder(x))
  BY DEF Bytes, Stops, Weighs

LEMMA BasicWeighs ==
  ASSUME NEW Items, NEW depth, NEW rank, Encodable(Items, depth, rank),
         NEW W, Bytes(W, Items), NEW U, Stops(U, Items), NEW x \in Items
  PROVE  /\ Schema[x.t].kind \in { "fixed", "block" } => W[x] = Schema[x.t].size /\ U[x] = 0
         /\ Schema[x.t].kind \in { "string", "bytes" } =>
              W[x] = SizeUvarint(Len(x.v)) + Len(x.v) /\ U[x] = 0
  <1>1. ASSUME Schema[x.t].kind \in { "fixed", "block", "string", "bytes" }
        PROVE  W[x] = OwnBytes(x) /\ U[x] = 0
    <2>1. InOrder(x) = << >> /\ OwnStops(x) = 0
      BY <1>1 DEF InOrder, OwnStops
    <2>2. OwnBytes(x) \in Nat
      BY OwnNat
    <2> QED
      BY <2>1, <2>2, LoadEmpty, BytesAre
  <1>2. ASSUME Schema[x.t].kind \in { "fixed", "block" }
        PROVE  W[x] = Schema[x.t].size /\ U[x] = 0
    BY <1>1, <1>2 DEF OwnBytes
  <1>3. ASSUME Schema[x.t].kind \in { "string", "bytes" }
        PROVE  W[x] = SizeUvarint(Len(x.v)) + Len(x.v) /\ U[x] = 0
    BY <1>1, <1>3 DEF OwnBytes
  <1> QED
    BY <1>2, <1>3

LEMMA ElementsWeigh ==
  ASSUME NEW Items, NEW depth, NEW rank, Encodable(Items, depth, rank),
         NEW W, Bytes(W, Items), NEW U, Stops(U, Items), NEW x \in Items,
         Schema[x.t].kind \in { "slice", "array", "pointer" }
  PROVE  /\ ElementsOf(x) \in Seq(Items)
         /\ Load(W, ElementsOf(x)) \in Nat /\ Load(U, ElementsOf(x)) \in Nat
         /\ W[x] = (CASE Schema[x.t].kind = "slice" -> SizeUvarint(Len(x.v))
                      [] Schema[x.t].kind = "array" -> 0
                      [] Schema[x.t].kind = "pointer" -> 1) + Load(W, ElementsOf(x))
         /\ U[x] = Load(U, ElementsOf(x))
  <1>0. Trees(Items, depth)
    BY DEF Encodable
  <1>1. InOrder(x) = ElementsOf(x) /\ OwnStops(x) = 0
    BY DEF InOrder, OwnStops
  <1>2. ElementsOf(x) \in Seq(Items)
    BY <1>0, ElementsAre DEF Under
  <1>3. /\ W \in [Items -> Nat] /\ W[x] = OwnBytes(x) + Load(W, ElementsOf(x))
        /\ U \in [Items -> Nat] /\ U[x] = 0 + Load(U, ElementsOf(x))
    BY <1>1, BytesAre
  <1>4. Load(W, ElementsOf(x)) \in Nat /\ Load(U, ElementsOf(x)) \in Nat
    BY <1>2, <1>3, LoadNat
  <1>5. OwnBytes(x) = (CASE Schema[x.t].kind = "slice" -> SizeUvarint(Len(x.v))
                         [] Schema[x.t].kind = "array" -> 0
                         [] Schema[x.t].kind = "pointer" -> 1)
    BY DEF OwnBytes
  <1> QED
    BY <1>2, <1>3, <1>4, <1>5

LEMMA FieldsWeigh ==
  ASSUME NEW Items, NEW depth, NEW rank, Encodable(Items, depth, rank),
         NEW W, Bytes(W, Items), NEW U, Stops(U, Items), NEW x \in Items,
         Schema[x.t].kind = "struct"
  PROVE  /\ FieldsOf(x) \in Seq(Items)
         /\ W[x] = Load(W, FieldsOf(x)) /\ U[x] = Load(U, FieldsOf(x))
  <1>0. Trees(Items, depth)
    BY DEF Encodable
  <1>1. InOrder(x) = FieldsOf(x) /\ OwnStops(x) = 0 /\ OwnBytes(x) = 0
    BY DEF InOrder, OwnStops, OwnBytes
  <1>2. FieldsOf(x) \in Seq(Items)
    BY <1>0, FieldsAre DEF Under
  <1>3. /\ W \in [Items -> Nat] /\ W[x] = 0 + Load(W, FieldsOf(x))
        /\ U \in [Items -> Nat] /\ U[x] = 0 + Load(U, FieldsOf(x))
    BY <1>1, BytesAre
  <1>4. Load(W, FieldsOf(x)) \in Nat /\ Load(U, FieldsOf(x)) \in Nat
    BY <1>2, <1>3, LoadNat
  <1> QED
    BY <1>2, <1>3, <1>4

LEMMA MemberWeighs ==
  ASSUME NEW Items, NEW depth, NEW rank, Encodable(Items, depth, rank),
         NEW W, Bytes(W, Items), NEW U, Stops(U, Items), NEW x \in Items,
         Schema[x.t].kind = "union"
  PROVE  /\ ~ (x.v[1] <= Len(Schema[x.t].elems)) => U[x] > 0
         /\ x.v[1] = 0 => W[x] = TagLen(0) /\ U[x] = 0
         /\ x.v[1] # 0 /\ x.v[1] <= Len(Schema[x.t].elems) =>
              /\ MemberOf(x) \in Seq(Items)
              /\ W[x] = TagLen(x.v[1]) + Load(W, MemberOf(x))
              /\ U[x] = Load(U, MemberOf(x))
  <1> DEFINE e == Schema[x.t].elems
             tag == x.v[1]
  <1>0. Schemas /\ Trees(Items, depth) /\ x.t \in Type
    BY ItemIs DEF Encodable
  <1>1. e \in Seq(Type) /\ Len(e) \in Nat /\ DOMAIN e = 1 .. Len(e)
    <2>1. e \in Seq(Type)
      BY <1>0, SchemaIs
    <2> HIDE DEF e
    <2> QED
      BY <2>1
  <1>2. tag \in Nat
    BY <1>0, ItemIs DEF WellFormed
  <1>3. /\ W \in [Items -> Nat] /\ W[x] = OwnBytes(x) + Load(W, InOrder(x))
        /\ U \in [Items -> Nat] /\ U[x] = OwnStops(x) + Load(U, InOrder(x))
    BY BytesAre
  <1>4. ASSUME ~ (tag <= Len(e))
        PROVE  U[x] > 0
    <2>1. OwnStops(x) = 1
      BY <1>4 DEF OwnStops
    <2>2. InOrder(x) \in Seq(Items)
      BY <1>0, InOrderIs DEF Under
    <2>3. Load(U, InOrder(x)) \in Nat
      BY <1>3, <2>2, LoadNat
    <2> QED
      BY <1>3, <2>1, <2>3
  <1>5. ASSUME tag = 0
        PROVE  W[x] = TagLen(0) /\ U[x] = 0
    <2>1. tag <= Len(e) /\ tag \notin DOMAIN e
      BY <1>1, <1>5
    <2>2. InOrder(x) = << >>
      BY <2>1 DEF InOrder, IsDeclared
    <2>3. OwnStops(x) = 0 /\ OwnBytes(x) = TagLen(0)
      BY <1>5, <2>1 DEF OwnStops, OwnBytes
    <2>4. OwnBytes(x) \in Nat
      BY OwnNat
    <2> QED
      BY <1>3, <2>2, <2>3, <2>4, LoadEmpty
  <1>6. ASSUME tag # 0, tag <= Len(e)
        PROVE  /\ MemberOf(x) \in Seq(Items)
               /\ W[x] = TagLen(tag) + Load(W, MemberOf(x))
               /\ U[x] = Load(U, MemberOf(x))
    <2>1. tag \in DOMAIN e
      BY <1>1, <1>2, <1>6
    <2>2. InOrder(x) = MemberOf(x)
      BY <2>1 DEF InOrder, IsDeclared
    <2>3. MemberOf(x) \in Seq(Items)
      BY <1>0, <2>1, MemberIs DEF Under
    <2>4. OwnStops(x) = 0 /\ OwnBytes(x) = TagLen(tag)
      BY <1>6 DEF OwnStops, OwnBytes
    <2>5. Load(U, MemberOf(x)) \in Nat
      BY <1>3, <2>3, LoadNat
    <2> QED
      BY <1>3, <2>2, <2>3, <2>4, <2>5
  <1> QED
    BY <1>4, <1>5, <1>6

\* A map weighs the same in every order its entries are visited in.
LEMMA EntriesWeigh ==
  ASSUME NEW Items, NEW depth, NEW rank, Encodable(Items, depth, rank),
         NEW W, Bytes(W, Items), NEW U, Stops(U, Items), NEW x \in Items,
         Schema[x.t].kind = "map", NEW s \in SetToSeqs(x.v)
  PROVE  /\ EntriesOf(x, s) \in Seq(Items)
         /\ W[x] = SizeUvarint(Cardinality(x.v)) + Load(W, EntriesOf(x, s))
         /\ U[x] = Load(U, EntriesOf(x, s))
  <1> DEFINE r == CHOOSE r \in SetToSeqs(x.v) : TRUE
             a == Schema[x.t].elems[1]
             b == Schema[x.t].elems[2]
  <1>0. Trees(Items, depth)
    BY DEF Encodable
  <1>1. InOrder(x) = EntriesOf(x, r) /\ OwnStops(x) = 0 /\ OwnBytes(x) = SizeUvarint(Cardinality(x.v))
    BY DEF InOrder, OwnStops, OwnBytes
  <1>2. r \in SetToSeqs(x.v)
    OBVIOUS
  <1> HIDE DEF r
  <1>3. /\ W \in [Items -> Nat] /\ W[x] = SizeUvarint(Cardinality(x.v)) + Load(W, EntriesOf(x, r))
        /\ U \in [Items -> Nat] /\ U[x] = 0 + Load(U, EntriesOf(x, r))
    BY <1>1, BytesAre
  <1>4. ASSUME NEW V \in [Items -> Nat]
        PROVE  Load(V, EntriesOf(x, s)) = Load(V, EntriesOf(x, r))
    <2> DEFINE w == [p \in x.v |-> V[Item(a, p[1])] + V[Item(b, p[2])]]
    <2>1. /\ IsFiniteSet(x.v)
          /\ \A p \in x.v : Item(a, p[1]) \in Items /\ Item(b, p[2]) \in Items
      BY <1>0, EntriesAre
    <2>2. w \in [x.v -> Nat]
      BY <2>1
    <2>3. \A p \in x.v : w[p] = V[Item(a, p[1])] + V[Item(b, p[2])]
      OBVIOUS
    <2> HIDE DEF w
    <2>4. ASSUME NEW f \in SetToSeqs(x.v)
          PROVE  Load(V, EntriesOf(x, f)) = Load(w, f)
      <3> DEFINE E == EntriesOf(x, f)
      <3>1. /\ f \in Seq(x.v) /\ Len(f) \in Nat /\ E \in Seq(Items) /\ Len(E) = 2 * Len(f)
            /\ \A k \in 1 .. Len(f) : E[2 * k - 1] = Item(a, f[k][1]) /\ E[2 * k] = Item(b, f[k][2])
        BY <1>0, EntriesAre DEF Under
      <3> HIDE DEF E
      <3>2. \A k \in 1 .. Len(f) : V[E[2 * k - 1]] + V[E[2 * k]] = w[f[k]]
        <4>1. \A k \in 1 .. Len(f) : f[k] \in x.v
          BY <3>1, ElementOfSeq
        <4> QED
          BY <3>1, <4>1, <2>3
      <3>3. f \in Seq(x.v) /\ E \in Seq(Items) /\ Len(E) = 2 * Len(f)
        BY <3>1
      <3>4. Load(V, E) = Load(w, f)
        <4>1. Doubles(V, E, w, f)
          BY <3>2, <3>3 DEF Doubles
        <4> QED
          BY <2>2, <3>3, <4>1, LoadPairs
      <3> QED
        BY <3>4 DEF E
    <2>5. Load(w, s) = Load(w, r)
      <3>1. x.v \in SUBSET x.v
        OBVIOUS
      <3> QED
        BY <1>2, <2>1, <2>2, <3>1, OrdersAgree
    <2> QED
      BY <1>2, <2>4, <2>5
  <1>5. EntriesOf(x, s) \in Seq(Items) /\ EntriesOf(x, r) \in Seq(Items)
    BY <1>0, <1>2, EntriesAre DEF Under
  <1>6. Load(U, EntriesOf(x, r)) \in Nat
    BY <1>3, <1>5, LoadNat
  <1> QED
    BY <1>3, <1>4, <1>5, <1>6

LEMMA ItemOf ==
  ASSUME NEW t, NEW v
  PROVE  Item(t, v).t = t /\ Item(t, v).v = v
  BY DEF Item

\* What has a fixed size takes it.
LEMMA FixedWeighs ==
  ASSUME NEW Items, NEW depth, NEW rank, Encodable(Items, depth, rank),
         NEW W, Bytes(W, Items), NEW U, Stops(U, Items)
  PROVE  \A x \in Items : FixedSize(x.t) \in Nat => W[x] = FixedSize(x.t) /\ U[x] = 0
  <1>0. Schemas /\ ArraysEnd(rank) /\ Trees(Items, depth)
    BY DEF Encodable
  <1>d. \A x \in Items : depth[x] \in Nat /\ x.t \in Type
    BY <1>0, ItemIs
  <1>w. W \in [Items -> Nat] /\ U \in [Items -> Nat]
    BY DEF Bytes, Stops, Weighs
  <1> DEFINE Takes(x) == FixedSize(x.t) \in Nat => W[x] = FixedSize(x.t) /\ U[x] = 0
             T == { n \in Nat : \A x \in Items : depth[x] < n => Takes(x) }
  <1>1. 0 \in T
    BY <1>d
  <1>2. ASSUME NEW n \in Nat, n \in T
        PROVE  n + 1 \in T
    <2>0. \A y \in Items : depth[y] < n => Takes(y)
      BY <1>2
    <2>1. ASSUME NEW x \in Items, depth[x] < n + 1, FixedSize(x.t) \in Nat
          PROVE  W[x] = FixedSize(x.t) /\ U[x] = 0
      <3> DEFINE t == x.t
                 e == Schema[t].elems[1]
                 E == ElementsOf(x)
                 w == FixedSize(e)
      <3>0. t \in Type /\ depth[x] \in Nat
        BY <1>d
      <3>1. CASE Schema[t].kind \in { "fixed", "block" }
        <4>1. FixedSize(t) = Schema[t].size
          BY <3>0, <3>1, <1>0, FixedSizeIs
        <4> QED
          BY <3>1, <4>1, BasicWeighs
      <3>2. CASE Schema[t].kind = "array"
        <4>1. e \in Type /\ Schema[t].size \in Nat
          BY <3>0, <3>2, <1>0, SchemaIs
        <4>2. w \in Wide /\ FixedSize(t) = IF w >= 0 THEN Schema[t].size * w ELSE -1
          BY <3>0, <3>2, <4>1, <1>0, FixedSizeIs
        <4>3. w \in Nat /\ FixedSize(t) = Schema[t].size * w
          <5> HIDE DEF w
          <5>1. FixedSize(t) # -1
            BY <2>1
          <5> QED
            BY <4>2, <5>1 DEF Wide
        <4>4. /\ E \in Seq(Items) /\ \A k \in 1 .. Len(E) : depth[E[k]] < depth[x] /\ E[k].t = e
              /\ Len(E) = Schema[t].size
          <5>1. /\ Under(Items, depth, x, E) /\ Len(E) = Len(x.v) /\ Len(x.v) = Schema[t].size
                /\ \A k \in 1 .. Len(x.v) : E[k] = Item(e, x.v[k])
            BY <3>2, <1>0, ElementsAre
          <5> HIDE DEF E, e, t
          <5>2. E \in Seq(Items) /\ \A k \in 1 .. Len(E) : depth[E[k]] < depth[x]
            BY <5>1 DEF Under
          <5>3. \A k \in 1 .. Len(E) : E[k].t = e
            BY <5>1, ItemOf
          <5> QED
            BY <5>1, <5>2, <5>3
        <4>5. /\ Load(W, E) \in Nat /\ Load(U, E) \in Nat
              /\ W[x] = Load(W, E) /\ U[x] = Load(U, E)
          BY <3>2, ElementsWeigh
        <4> HIDE DEF E, w, t
        <4>6. ASSUME NEW k \in 1 .. Len(E)
              PROVE  W[E[k]] = w /\ U[E[k]] = 0
          <5>1. E[k] \in Items
            BY <4>4, ElementOfSeq
          <5>2. depth[E[k]] < n
            <6>1. depth[E[k]] < depth[x] /\ depth[E[k]] \in Nat
              BY <4>4, <5>1, <1>d
            <6> QED
              BY <6>1, <2>1, <3>0
          <5>3. Takes(E[k]) /\ E[k].t = e
            BY <2>0, <4>4, <5>1, <5>2
          <5> QED
            BY <5>3, <4>3 DEF w
        <4>7. Load(W, E) = w * Len(E)
          BY <1>w, <4>3, <4>4, <4>6, LoadConst
        <4>8. Load(U, E) = 0 * Len(E)
          BY <1>w, <4>4, <4>6, LoadConst
        <4> QED
          BY <4>1, <4>3, <4>4, <4>5, <4>7, <4>8 DEF t
      <3>3. CASE Schema[t].kind \notin { "fixed", "block", "array" }
        <4>1. FixedSize(t) = -1
          BY <3>0, <3>3, <1>0, FixedSizeIs
        <4> QED
          BY <4>1, <2>1
      <3> QED
        BY <3>1, <3>2, <3>3
    <2> QED
      BY <2>1
  <1>3. \A n \in T : \A x \in Items : depth[x] < n => Takes(x)
    OBVIOUS
  <1> HIDE DEF T
  <1>4. T \in SUBSET Nat
    BY DEF T
  <1>5. T = Nat
    BY <1>1, <1>2, <1>4, SetInduction
  <1>6. ASSUME NEW x \in Items
        PROVE  Takes(x)
    <2>1. depth[x] + 1 \in Nat /\ depth[x] < depth[x] + 1
      BY <1>d
    <2> QED
      BY <2>1, <1>3, <1>5
  <1> QED
    BY <1>6

\* So does a struct of fields that have one.
LEMMA FlatWeighs ==
  ASSUME NEW Items, NEW depth, NEW rank, Encodable(Items, depth, rank),
         NEW W, Bytes(W, Items), NEW U, Stops(U, Items),
         NEW x \in Items, NEW r, FlatStruct(x.t, r)
  PROVE  W[x] = r /\ U[x] = 0
  <1> DEFINE e == Schema[x.t].elems
             E == FieldsOf(x)
             n == Len(x.v)
             q == [k \in 1 .. n |-> FixedSize(e[k])]
  <1>1. /\ n \in Nat /\ Total(q) = r
        /\ \A k \in 1 .. n : e[k] \in Type /\ FixedSize(e[k]) \in Nat
    BY FlatFields
  <1>2. Schema[x.t].kind = "struct"
    BY DEF FlatStruct
  <1>3. E \in Seq(Items) /\ W[x] = Load(W, E) /\ U[x] = Load(U, E)
    BY <1>2, FieldsWeigh
  <1>4. Len(E) = n /\ \A k \in 1 .. n : E[k] \in Items /\ E[k].t = e[k]
    <2>1. Trees(Items, depth)
      BY DEF Encodable
    <2>2. Len(E) = n /\ \A k \in 1 .. n : E[k] = Item(e[k], x.v[k]) /\ Item(e[k], x.v[k]) \in Items
      BY <2>1, <1>2, FieldsAre
    <2> HIDE DEF e, E, n
    <2> QED
      BY <2>2, ItemOf
  <1>w. W \in [Items -> Nat] /\ U \in [Items -> Nat]
    BY DEF Bytes, Stops, Weighs
  <1> HIDE DEF E, n
  <1>5. \A k \in 1 .. n : W[E[k]] = FixedSize(e[k]) /\ U[E[k]] = 0
    BY <1>1, <1>4, FixedWeighs
  <1>6. Load(W, E) = r
    <2>1. [k \in 1 .. Len(E) |-> W[E[k]]] = q
      BY <1>4, <1>5
    <2>2. Load(W, E) = Total([k \in 1 .. Len(E) |-> W[E[k]]])
      BY DEF Load
    <2> HIDE DEF q
    <2> QED
      BY <2>1, <2>2, <1>1
  <1>7. Load(U, E) = 0 * Len(E)
    BY <1>w, <1>3, <1>4, <1>5, LoadConst
  <1> QED
    BY <1>1, <1>3, <1>4, <1>6, <1>7

\* What Size multiplies, and what Marshal and Append copy, is what is there.
LEMMA BlockWeighs ==
  ASSUME NEW Items, NEW depth, NEW rank, Encodable(Items, depth, rank),
         NEW W, Bytes(W, Items), NEW U, Stops(U, Items), NEW x \in Items
  PROVE  /\ Schema[x.t].bulk /\ Schema[x.t].kind = "struct" =>
              W[x] = Schema[x.t].raw /\ U[x] = 0
         /\ Schema[x.t].bulk /\ Schema[x.t].kind \in { "slice", "array" } =>
              /\ Load(W, ElementsOf(x)) = Schema[x.t].raw * Len(x.v)
              /\ Load(U, ElementsOf(x)) = 0
         /\ Schema[x.t].kind \in { "slice", "array" } /\ FixedSize(Schema[x.t].elems[1]) >= 0 =>
              /\ Load(W, ElementsOf(x)) = FixedSize(Schema[x.t].elems[1]) * Len(x.v)
              /\ Load(U, ElementsOf(x)) = 0
  <1> DEFINE e == Schema[x.t].elems[1]
             r == Schema[x.t].raw
             E == ElementsOf(x)
             n == Len(x.v)
  <1>0. Schemas /\ ArraysEnd(rank) /\ BlocksAreFlat /\ Trees(Items, depth) /\ x.t \in Type
    BY ItemIs DEF Encodable
  <1>w. W \in [Items -> Nat] /\ U \in [Items -> Nat]
    BY DEF Bytes, Stops, Weighs
  <1>1. ASSUME Schema[x.t].bulk
        PROVE  /\ Schema[x.t].kind = "struct" => FlatStruct(x.t, r)
               /\ Schema[x.t].kind \in { "slice", "array" } => FixedSize(e) = r \/ FlatStruct(e, r)
    <2> DEFINE t == x.t
    <2>1. t \in Type /\ Schema[t].bulk
      BY <1>0, <1>1
    <2> HIDE DEF t
    <2>2. /\ Schema[t].kind = "struct" => FlatStruct(t, Schema[t].raw)
          /\ Schema[t].kind \in { "slice", "array" } =>
               \/ FixedSize(Schema[t].elems[1]) = Schema[t].raw
               \/ FlatStruct(Schema[t].elems[1], Schema[t].raw)
      BY <1>0, <2>1 DEF BlocksAreFlat
    <2> QED
      BY <2>2 DEF t
  <1>2. ASSUME Schema[x.t].bulk, Schema[x.t].kind = "struct"
        PROVE  W[x] = r /\ U[x] = 0
    BY <1>1, <1>2, FlatWeighs
  <1>r. r \in Nat
    BY <1>0, SchemaIs
  <1>3. ASSUME Schema[x.t].kind \in { "slice", "array" }, NEW c \in Nat,
               FixedSize(e) = c \/ FlatStruct(e, c)
        PROVE  Load(W, E) = c * n /\ Load(U, E) = 0
    <2>1. /\ E \in Seq(Items) /\ Len(E) = n /\ n \in Nat
          /\ \A k \in 1 .. n : E[k] \in Items /\ E[k].t = e
      <3>1. /\ Under(Items, depth, x, E) /\ Len(E) = n /\ n \in Nat
            /\ \A k \in 1 .. n : E[k] = Item(e, x.v[k]) /\ Item(e, x.v[k]) \in Items
        BY <1>0, <1>3, ElementsAre
      <3>2. E \in Seq(Items)
        BY <3>1 DEF Under
      <3> HIDE DEF e, E, n
      <3> QED
        BY <3>1, <3>2, ItemOf
    <2> HIDE DEF E, n, e
    <2>2. ASSUME NEW k \in 1 .. n
          PROVE  W[E[k]] = c /\ U[E[k]] = 0
      <3> DEFINE y == E[k]
      <3>0. y \in Items /\ y.t = e
        BY <2>1
      <3> HIDE DEF y
      <3>1. ASSUME FixedSize(e) = c
            PROVE  W[y] = c /\ U[y] = 0
        <4>1. FixedSize(y.t) = c /\ FixedSize(y.t) \in Nat
          BY <3>0, <3>1
        <4> QED
          BY <3>0, <3>1, <4>1, FixedWeighs
      <3>2. ASSUME FlatStruct(e, c)
            PROVE  W[y] = c /\ U[y] = 0
        <4>1. FlatStruct(y.t, c)
          BY <3>0, <3>2
        <4> QED
          BY <3>0, <4>1, FlatWeighs
      <3>3. W[y] = c /\ U[y] = 0
        BY <1>3, <3>1, <3>2
      <3> QED
        BY <3>3 DEF y
    <2>3. Load(W, E) = c * Len(E)
      BY <1>w, <2>1, <2>2, LoadConst
    <2>4. Load(U, E) = 0 * Len(E)
      BY <1>w, <2>1, <2>2, LoadConst
    <2> QED
      BY <2>1, <2>3, <2>4
  <1>4. ASSUME Schema[x.t].bulk, Schema[x.t].kind \in { "slice", "array" }
        PROVE  Load(W, E) = r * n /\ Load(U, E) = 0
    BY <1>1, <1>3, <1>4, <1>r
  <1>5. ASSUME Schema[x.t].kind \in { "slice", "array" }, FixedSize(e) >= 0
        PROVE  Load(W, E) = FixedSize(e) * n /\ Load(U, E) = 0
    <2>1. e \in Type
      BY <1>0, <1>5, SchemaIs
    <2> DEFINE c == FixedSize(e)
    <2>2. c \in Wide /\ c >= 0
      BY <1>0, <1>5, <2>1, FixedSizeIs
    <2>3. c \in Nat
      <3> HIDE DEF c
      <3> QED
        BY <2>2 DEF Wide
    <2> HIDE DEF E, n
    <2>4. FixedSize(e) = c \/ FlatStruct(e, c)
      OBVIOUS
    <2> HIDE DEF c
    <2>5. Load(W, E) = c * n /\ Load(U, E) = 0
      BY <1>3, <1>5, <2>3, <2>4
    <2> QED
      BY <2>5 DEF c
  <1> QED
    BY <1>2, <1>4, <1>5

-----------------------------------------------------------------------------
(***************************************************************************)
(* What each kind of value comes to: n bytes of its own, and more to visit. *)
(***************************************************************************)
Share(Items, W, U, x, n, more) ==
  /\ n \in Nat /\ more \in Seq(Items)
  /\ W[x] = n + Load(W, more) /\ U[x] = Load(U, more)

Weighed(Items, W, U) == Bytes(W, Items) /\ Stops(U, Items)

\* A part that is taken as a block is not visited.
LEMMA ShareBlock ==
  ASSUME NEW Items, NEW W \in [Items -> Nat], NEW U \in [Items -> Nat], NEW x \in Items,
         NEW n, NEW s, Share(Items, W, U, x, n, s),
         NEW c \in Nat, Load(W, s) = c, Load(U, s) = 0
  PROVE  Share(Items, W, U, x, n + c, << >>)
  <1>1. n \in Nat /\ W[x] = n + c /\ U[x] = 0
    BY DEF Share
  <1>2. Load(W, << >>) = 0 /\ Load(U, << >>) = 0 /\ << >> \in Seq(Items)
    BY LoadEmpty
  <1> QED
    BY <1>1, <1>2 DEF Share

LEMMA BasicShares ==
  ASSUME NEW Items, NEW depth, NEW rank, Encodable(Items, depth, rank),
         NEW W, NEW U, Weighed(Items, W, U), NEW x \in Items
  PROVE  /\ Schema[x.t].kind \in { "fixed", "block" } =>
              /\ x.v \in Seq(Nat) /\ Len(x.v) = Schema[x.t].size
              /\ Share(Items, W, U, x, Len(x.v), << >>)
         /\ Schema[x.t].kind \in { "string", "bytes" } =>
              /\ x.v \in Seq(Nat) /\ PutUvarint(Len(x.v)) \in Seq(Nat)
              /\ SizeUvarint(Len(x.v)) = Len(PutUvarint(Len(x.v)))
              /\ Share(Items, W, U, x, Len(PutUvarint(Len(x.v))) + Len(x.v), << >>)
  <1>0. Bytes(W, Items) /\ Stops(U, Items) /\ Trees(Items, depth)
    BY DEF Weighed, Encodable
  <1>1. Load(W, << >>) = 0 /\ Load(U, << >>) = 0 /\ << >> \in Seq(Items)
    BY LoadEmpty
  <1>2. ASSUME Schema[x.t].kind \in { "fixed", "block" }
        PROVE  /\ x.v \in Seq(Nat) /\ Len(x.v) = Schema[x.t].size
               /\ Share(Items, W, U, x, Len(x.v), << >>)
    <2>1. x.v \in Seq(Nat) /\ Len(x.v) = Schema[x.t].size
      BY <1>0, <1>2, ItemIs DEF WellFormed
    <2>2. W[x] = Schema[x.t].size /\ U[x] = 0
      BY <1>0, <1>2, BasicWeighs
    <2>3. Len(x.v) \in Nat
      BY <2>1
    <2> QED
      BY <1>1, <2>1, <2>2, <2>3 DEF Share
  <1>3. ASSUME Schema[x.t].kind \in { "string", "bytes" }
        PROVE  /\ x.v \in Seq(Nat) /\ PutUvarint(Len(x.v)) \in Seq(Nat)
               /\ SizeUvarint(Len(x.v)) = Len(PutUvarint(Len(x.v)))
               /\ Share(Items, W, U, x, Len(PutUvarint(Len(x.v))) + Len(x.v), << >>)
    <2>1. x.v \in Seq(Nat)
      BY <1>0, <1>3, ItemIs DEF WellFormed
    <2>2. W[x] = SizeUvarint(Len(x.v)) + Len(x.v) /\ U[x] = 0
      BY <1>0, <1>3, BasicWeighs
    <2>3. PutUvarint(Len(x.v)) \in Seq(Nat) /\ SizeUvarint(Len(x.v)) = Len(PutUvarint(Len(x.v)))
      BY <1>3, PrefixIs
    <2>4. Len(x.v) \in Nat /\ Len(PutUvarint(Len(x.v))) \in Nat
      BY <2>1, <2>3
    <2> DEFINE p == Len(PutUvarint(Len(x.v)))
               l == Len(x.v)
    <2>5. W[x] = p + l /\ U[x] = 0 /\ p \in Nat /\ l \in Nat
      BY <2>2, <2>3, <2>4
    <2> HIDE DEF p, l
    <2>6. Share(Items, W, U, x, p + l, << >>)
      BY <1>1, <2>5 DEF Share
    <2> QED
      BY <2>1, <2>3, <2>6 DEF p, l
  <1> QED
    BY <1>2, <1>3

LEMMA SliceShares ==
  ASSUME NEW Items, NEW depth, NEW rank, Encodable(Items, depth, rank),
         NEW W, NEW U, Weighed(Items, W, U), NEW x \in Items, Schema[x.t].kind = "slice"
  PROVE  /\ PutUvarint(Len(x.v)) \in Seq(Nat)
         /\ SizeUvarint(Len(x.v)) = Len(PutUvarint(Len(x.v)))
         /\ Share(Items, W, U, x, Len(PutUvarint(Len(x.v))), ElementsOf(x))
         /\ FixedSize(Schema[x.t].elems[1]) >= 0 =>
              Share(Items, W, U, x,
                Len(PutUvarint(Len(x.v))) + FixedSize(Schema[x.t].elems[1]) * Len(x.v), << >>)
         /\ Schema[x.t].bulk =>
              /\ MemoryOf(x) \in Seq(Nat) /\ Len(MemoryOf(x)) = Schema[x.t].raw * Len(x.v)
              /\ Share(Items, W, U, x,
                   Len(PutUvarint(Len(x.v))) + Schema[x.t].raw * Len(x.v), << >>)
  <1> DEFINE l == Len(PutUvarint(Len(x.v)))
             E == ElementsOf(x)
             f == FixedSize(Schema[x.t].elems[1]) * Len(x.v)
             r == Schema[x.t].raw * Len(x.v)
  <1>0. Bytes(W, Items) /\ Stops(U, Items) /\ Trees(Items, depth)
    BY DEF Weighed, Encodable
  <1>w. W \in [Items -> Nat] /\ U \in [Items -> Nat]
    BY <1>0 DEF Bytes, Stops, Weighs
  <1>1. PutUvarint(Len(x.v)) \in Seq(Nat) /\ SizeUvarint(Len(x.v)) = l
    BY PrefixIs
  <1>2. l \in Nat
    BY <1>1
  <1>3. /\ E \in Seq(Items) /\ Load(W, E) \in Nat
        /\ W[x] = SizeUvarint(Len(x.v)) + Load(W, E) /\ U[x] = Load(U, E)
    BY <1>0, ElementsWeigh
  <1>4. Share(Items, W, U, x, l, E)
    <2> HIDE DEF E, l
    <2> QED
      BY <1>1, <1>2, <1>3 DEF Share
  <1>5. ASSUME FixedSize(Schema[x.t].elems[1]) >= 0
        PROVE  Share(Items, W, U, x, l + f, << >>)
    <2>1. Load(W, E) = f /\ Load(U, E) = 0
      BY <1>0, <1>5, BlockWeighs
    <2> HIDE DEF E, l, f
    <2> QED
      BY <1>w, <1>3, <1>4, <2>1, ShareBlock
  <1>6. ASSUME Schema[x.t].bulk
        PROVE  /\ MemoryOf(x) \in Seq(Nat) /\ Len(MemoryOf(x)) = r
               /\ Share(Items, W, U, x, l + r, << >>)
    <2>1. Load(W, E) = r /\ Load(U, E) = 0
      BY <1>0, <1>6, BlockWeighs
    <2>2. MemoryOf(x) \in Seq(Nat) /\ Len(MemoryOf(x)) = r
      BY <1>6, MemoryIs
    <2> HIDE DEF E, l, r
    <2> QED
      BY <1>w, <1>3, <1>4, <2>1, <2>2, ShareBlock
  <1> QED
    BY <1>1, <1>4, <1>5, <1>6

LEMMA ArrayShares ==
  ASSUME NEW Items, NEW depth, NEW rank, Encodable(Items, depth, rank),
         NEW W, NEW U, Weighed(Items, W, U), NEW x \in Items, Schema[x.t].kind = "array"
  PROVE  /\ Share(Items, W, U, x, 0, ElementsOf(x))
         /\ FixedSize(Schema[x.t].elems[1]) >= 0 =>
              Share(Items, W, U, x, FixedSize(Schema[x.t].elems[1]) * Schema[x.t].size, << >>)
         /\ Schema[x.t].bulk =>
              /\ MemoryOf(x) \in Seq(Nat) /\ Len(MemoryOf(x)) = Schema[x.t].raw * Schema[x.t].size
              /\ Share(Items, W, U, x, Schema[x.t].raw * Schema[x.t].size, << >>)
  <1> DEFINE E == ElementsOf(x)
             f == FixedSize(Schema[x.t].elems[1]) * Schema[x.t].size
             r == Schema[x.t].raw * Schema[x.t].size
  <1>0. Bytes(W, Items) /\ Stops(U, Items) /\ Trees(Items, depth)
    BY DEF Weighed, Encodable
  <1>w. W \in [Items -> Nat] /\ U \in [Items -> Nat]
    BY <1>0 DEF Bytes, Stops, Weighs
  <1>1. Len(x.v) = Schema[x.t].size
    BY <1>0, ElementsAre
  <1>3. /\ E \in Seq(Items) /\ Load(W, E) \in Nat
        /\ W[x] = 0 + Load(W, E) /\ U[x] = Load(U, E)
    BY <1>0, ElementsWeigh
  <1>4. Share(Items, W, U, x, 0, E)
    <2> HIDE DEF E
    <2> QED
      BY <1>3 DEF Share
  <1>5. ASSUME FixedSize(Schema[x.t].elems[1]) >= 0
        PROVE  Share(Items, W, U, x, f, << >>)
    <2>1. Load(W, E) = f /\ Load(U, E) = 0
      BY <1>0, <1>1, <1>5, BlockWeighs
    <2> HIDE DEF E, f
    <2>2. Share(Items, W, U, x, 0 + f, << >>) /\ f \in Nat
      BY <1>w, <1>3, <1>4, <2>1, ShareBlock
    <2>3. 0 + f = f
      BY <2>2
    <2> QED
      BY <2>2, <2>3
  <1>6. ASSUME Schema[x.t].bulk
        PROVE  /\ MemoryOf(x) \in Seq(Nat) /\ Len(MemoryOf(x)) = r
               /\ Share(Items, W, U, x, r, << >>)
    <2>1. Load(W, E) = r /\ Load(U, E) = 0
      BY <1>0, <1>1, <1>6, BlockWeighs
    <2>2. MemoryOf(x) \in Seq(Nat) /\ Len(MemoryOf(x)) = r
      BY <1>1, <1>6, MemoryIs
    <2> HIDE DEF E, r
    <2>3. Share(Items, W, U, x, 0 + r, << >>) /\ r \in Nat
      BY <1>w, <1>3, <1>4, <2>1, ShareBlock
    <2>4. 0 + r = r
      BY <2>3
    <2> QED
      BY <2>2, <2>3, <2>4
  <1> QED
    BY <1>4, <1>5, <1>6

LEMMA PointerShares ==
  ASSUME NEW Items, NEW depth, NEW rank, Encodable(Items, depth, rank),
         NEW W, NEW U, Weighed(Items, W, U), NEW x \in Items, Schema[x.t].kind = "pointer"
  PROVE  /\ Share(Items, W, U, x, 1, ElementsOf(x))
         /\ x.v = << >> => Share(Items, W, U, x, 1, << >>)
  <1>0. Bytes(W, Items) /\ Stops(U, Items)
    BY DEF Weighed
  <1>1. Share(Items, W, U, x, 1, ElementsOf(x))
    BY <1>0, ElementsWeigh DEF Share
  <1>2. ASSUME x.v = << >>
        PROVE  ElementsOf(x) = << >>
    BY <1>2 DEF ElementsOf
  <1> QED
    BY <1>1, <1>2

LEMMA StructShares ==
  ASSUME NEW Items, NEW depth, NEW rank, Encodable(Items, depth, rank),
         NEW W, NEW U, Weighed(Items, W, U), NEW x \in Items, Schema[x.t].kind = "struct"
  PROVE  /\ Share(Items, W, U, x, 0, FieldsOf(x))
         /\ Schema[x.t].bulk =>
              /\ MemoryOf(x) \in Seq(Nat) /\ Len(MemoryOf(x)) = Schema[x.t].raw
              /\ Share(Items, W, U, x, Schema[x.t].raw, << >>)
  <1>0. Bytes(W, Items) /\ Stops(U, Items)
    BY DEF Weighed
  <1>w. W \in [Items -> Nat] /\ U \in [Items -> Nat]
    BY <1>0 DEF Bytes, Stops, Weighs
  <1>1. Share(Items, W, U, x, 0, FieldsOf(x))
    <2>1. /\ FieldsOf(x) \in Seq(Items)
          /\ W[x] = Load(W, FieldsOf(x)) /\ U[x] = Load(U, FieldsOf(x))
      BY <1>0, FieldsWeigh
    <2>2. W[x] \in Nat
      BY <1>w
    <2> QED
      BY <2>1, <2>2 DEF Share
  <1>2. ASSUME Schema[x.t].bulk
        PROVE  /\ MemoryOf(x) \in Seq(Nat) /\ Len(MemoryOf(x)) = Schema[x.t].raw
               /\ Share(Items, W, U, x, Schema[x.t].raw, << >>)
    <2>1. MemoryOf(x) \in Seq(Nat) /\ Len(MemoryOf(x)) = Schema[x.t].raw
      BY <1>2, MemoryIs
    <2>2. W[x] = Schema[x.t].raw /\ U[x] = 0
      BY <1>0, <1>2, BlockWeighs
    <2>3. W[x] \in Nat
      BY <1>w
    <2>4. Load(W, << >>) = 0 /\ Load(U, << >>) = 0 /\ << >> \in Seq(Items)
      BY LoadEmpty
    <2> QED
      BY <2>1, <2>2, <2>3, <2>4 DEF Share
  <1> QED
    BY <1>1, <1>2

LEMMA MapShares ==
  ASSUME NEW Items, NEW depth, NEW rank, Encodable(Items, depth, rank),
         NEW W, NEW U, Weighed(Items, W, U), NEW x \in Items, Schema[x.t].kind = "map",
         NEW s \in SetToSeqs(x.v)
  PROVE  /\ PutUvarint(Cardinality(x.v)) \in Seq(Nat)
         /\ SizeUvarint(Cardinality(x.v)) = Len(PutUvarint(Cardinality(x.v)))
         /\ Share(Items, W, U, x, Len(PutUvarint(Cardinality(x.v))), EntriesOf(x, s))
  <1> DEFINE p == PutUvarint(Cardinality(x.v))
  <1>0. Bytes(W, Items) /\ Stops(U, Items)
    BY DEF Weighed
  <1>1. p \in Seq(Nat) /\ SizeUvarint(Cardinality(x.v)) = Len(p)
    BY PrefixIs
  <1>2. /\ EntriesOf(x, s) \in Seq(Items)
        /\ W[x] = SizeUvarint(Cardinality(x.v)) + Load(W, EntriesOf(x, s))
        /\ U[x] = Load(U, EntriesOf(x, s))
    BY <1>0, EntriesWeigh
  <1> HIDE DEF p
  <1>3. Len(p) \in Nat
    BY <1>1
  <1>4. Share(Items, W, U, x, Len(p), EntriesOf(x, s))
    BY <1>1, <1>2, <1>3 DEF Share
  <1> QED
    BY <1>1, <1>4 DEF p

LEMMA UnionShares ==
  ASSUME NEW Items, NEW depth, NEW rank, Encodable(Items, depth, rank),
         NEW W, NEW U, Weighed(Items, W, U), NEW x \in Items, Schema[x.t].kind = "union"
  PROVE  /\ ~ (x.v[1] <= Len(Schema[x.t].elems)) => U[x] > 0
         /\ x.v[1] <= Len(Schema[x.t].elems) =>
              /\ PutUvarint(x.v[1]) \in Seq(Nat) /\ TagLen(x.v[1]) = Len(PutUvarint(x.v[1]))
              /\ x.v[1] = 0 => Share(Items, W, U, x, Len(PutUvarint(x.v[1])), << >>)
              /\ x.v[1] # 0 => Share(Items, W, U, x, Len(PutUvarint(x.v[1])), MemberOf(x))
  <1> DEFINE p == PutUvarint(x.v[1])
  <1>0. Bytes(W, Items) /\ Stops(U, Items)
    BY DEF Weighed
  <1>1. /\ ~ (x.v[1] <= Len(Schema[x.t].elems)) => U[x] > 0
        /\ x.v[1] = 0 => W[x] = TagLen(0) /\ U[x] = 0
        /\ x.v[1] # 0 /\ x.v[1] <= Len(Schema[x.t].elems) =>
              /\ MemberOf(x) \in Seq(Items)
              /\ W[x] = TagLen(x.v[1]) + Load(W, MemberOf(x))
              /\ U[x] = Load(U, MemberOf(x))
    BY <1>0, MemberWeighs
  <1>2. ASSUME x.v[1] <= Len(Schema[x.t].elems)
        PROVE  p \in Seq(Nat) /\ TagLen(x.v[1]) = Len(p)
    BY <1>2, PrefixIs
  <1> HIDE DEF p
  <1>3. ASSUME x.v[1] <= Len(Schema[x.t].elems)
        PROVE  Len(p) \in Nat
    BY <1>2, <1>3
  <1>4. ASSUME x.v[1] <= Len(Schema[x.t].elems), x.v[1] = 0
        PROVE  Share(Items, W, U, x, Len(p), << >>)
    <2>1. Load(W, << >>) = 0 /\ Load(U, << >>) = 0 /\ << >> \in Seq(Items)
      BY LoadEmpty
    <2>2. W[x] = Len(p) /\ U[x] = 0 /\ Len(p) \in Nat
      BY <1>1, <1>2, <1>3, <1>4
    <2> QED
      BY <2>1, <2>2 DEF Share
  <1>5. ASSUME x.v[1] <= Len(Schema[x.t].elems), x.v[1] # 0
        PROVE  Share(Items, W, U, x, Len(p), MemberOf(x))
    BY <1>1, <1>2, <1>3, <1>5 DEF Share
  <1> QED
    BY <1>1, <1>2, <1>4, <1>5 DEF p

-----------------------------------------------------------------------------
(***************************************************************************)
(* The invariant.  While a method runs, what it has counted, put or        *)
(* appended and what is left to visit weigh together as much as the value. *)
(***************************************************************************)
Whole == Item(root, val)

Typed(Items) ==
  /\ Whole \in Items /\ todo \in Seq(Items)
  /\ pass \in { "size", "marshal", "append", "done", "panic" }
  /\ size \in Nat /\ i \in Nat /\ IsSeq(buf) /\ out \in Seq(Nat) /\ before \in Seq(Nat)

Measuring(W, U) ==
  pass = "size" =>
    /\ buf = << >> /\ i = 0 /\ out = << >> /\ before = << >>
    /\ size + Load(W, todo) = W[Whole] /\ Load(U, todo) = U[Whole]

\* Size has visited the whole value, and no union of an undeclared type.
Measured(W, U) ==
  pass \in { "marshal", "append", "done" } =>
    size = W[Whole] /\ U[Whole] = 0 /\ Load(U, todo) = 0

Marshalling(W) ==
  /\ pass = "marshal" => out = << >> /\ before = << >>
  /\ pass = "marshal" /\ Len(buf) >= size => i + Load(W, todo) = size
  /\ pass \in { "append", "done" } /\ Len(buf) >= size => i = size

Appending(W) ==
  /\ pass = "append" => Len(out) + Load(W, todo) = Len(before) + size
  /\ pass = "done" => Len(out) = Len(before) + size

Panicked == pass = "panic" => buf = << >> \/ Len(buf) < size

Behind == \A k \in (size + 1) .. Len(buf) : buf[k] = Fill

Ahead == Len(before) <= Len(out) /\ \A k \in 1 .. Len(before) : out[k] = before[k]

Agree(Items, W, U) ==
  /\ Typed(Items)
  /\ Measuring(W, U) /\ Measured(W, U) /\ Marshalling(W) /\ Appending(W)
  /\ Panicked /\ Behind /\ Ahead

LEMMA EmptyBuffer == IsSeq(<< >>) /\ Len(<< >>) = 0
  BY DEF IsSeq

\* At the start nothing is counted.
LEMMA AgreeAtInit ==
  ASSUME NEW Items, NEW depth, NEW rank, Encodable(Items, depth, rank),
         NEW W \in [Items -> Nat], NEW U \in [Items -> Nat], Init
  PROVE  Agree(Items, W, U)
  <1>1. Whole \in Items
    BY DEF Encodable, Trees, Init, Whole
  <1>2. /\ pass = "size" /\ todo = <<Whole>> /\ size = 0 /\ buf = << >> /\ i = 0
        /\ out = << >> /\ before = << >>
    BY DEF Init, Whole
  <1>3. Typed(Items)
    BY <1>1, <1>2, EmptyBuffer DEF Typed
  <1>4. Load(W, todo) = W[Whole] /\ Load(U, todo) = U[Whole] /\ W[Whole] \in Nat
    BY <1>1, <1>2, LoadOne
  <1>5. Measuring(W, U)
    BY <1>2, <1>4 DEF Measuring
  <1> QED
    BY <1>2, <1>3, <1>5, EmptyBuffer
       DEF Agree, Measured, Marshalling, Appending, Panicked, Behind, Ahead

\* What is visited next, and what that leaves.
LEMMA NextIs ==
  ASSUME NEW Items, NEW W \in [Items -> Nat], NEW U \in [Items -> Nat],
         todo \in Seq(Items), todo # << >>,
         NEW n, NEW more, Share(Items, W, U, Head(todo), n, more)
  PROVE  /\ n \in Nat /\ more \o Tail(todo) \in Seq(Items)
         /\ Load(W, todo) \in Nat /\ Load(W, more \o Tail(todo)) \in Nat
         /\ Load(W, todo) = n + Load(W, more \o Tail(todo))
         /\ Load(U, todo) = Load(U, more \o Tail(todo))
  <1>1. n \in Nat /\ more \in Seq(Items) /\ W[Head(todo)] = n + Load(W, more)
        /\ U[Head(todo)] = Load(U, more)
    BY DEF Share
  <1> DEFINE T == Tail(todo)
             x == Head(todo)
  <1>2. /\ T \in Seq(Items) /\ Load(W, todo) = W[x] + Load(W, T) /\ Load(W, T) \in Nat
        /\ Load(U, todo) = U[x] + Load(U, T) /\ Load(U, T) \in Nat
    BY LoadHead
  <1> HIDE DEF T
  <1>3. /\ Load(W, more \o T) = Load(W, more) + Load(W, T) /\ Load(W, more) \in Nat
        /\ Load(U, more \o T) = Load(U, more) + Load(U, T) /\ Load(U, more) \in Nat
    BY <1>1, <1>2, LoadConcat, LoadNat
  <1>4. more \o T \in Seq(Items)
    BY <1>1, <1>2
  <1> HIDE DEF x
  <1>5. W[x] = n + Load(W, more) /\ U[x] = Load(U, more)
    BY <1>1 DEF x
  <1>6. /\ Load(W, todo) = n + Load(W, more \o T)
        /\ Load(U, todo) = Load(U, more \o T)
        /\ Load(W, todo) \in Nat /\ Load(W, more \o T) \in Nat
    BY <1>1, <1>2, <1>3, <1>5
  <1> QED
    BY <1>1, <1>4, <1>6 DEF T

\* A step of Size.
LEMMA AddStep ==
  ASSUME NEW Items, NEW W \in [Items -> Nat], NEW U \in [Items -> Nat], Agree(Items, W, U),
         pass = "size", todo # << >>,
         NEW n, NEW more, Share(Items, W, U, Head(todo), n, more), Add(n, more)
  PROVE  Agree(Items, W, U)'
  <1>1. /\ size' = size + n /\ todo' = more \o Tail(todo)
        /\ root' = root /\ val' = val /\ pass' = pass /\ buf' = buf /\ i' = i /\ out' = out
        /\ before' = before
    BY DEF Add
  <1>2. Typed(Items) /\ Measuring(W, U) /\ Ahead
    BY DEF Agree
  <1>3. todo \in Seq(Items) /\ size \in Nat
    BY <1>2 DEF Typed
  <1>4. /\ n \in Nat /\ todo' \in Seq(Items)
        /\ Load(W, todo) \in Nat /\ Load(W, todo') \in Nat
        /\ Load(W, todo) = n + Load(W, todo')
        /\ Load(U, todo) = Load(U, todo')
    <2>1. todo \in Seq(Items)
      BY <1>3
    <2>2. /\ n \in Nat /\ more \o Tail(todo) \in Seq(Items)
          /\ Load(W, todo) \in Nat /\ Load(W, more \o Tail(todo)) \in Nat
          /\ Load(W, todo) = n + Load(W, more \o Tail(todo))
          /\ Load(U, todo) = Load(U, more \o Tail(todo))
      BY <2>1, NextIs
    <2> QED
      BY <1>1, <2>2
  <1>w. Whole' = Whole
    BY <1>1 DEF Whole
  <1>5. Typed(Items)'
    <2>1. size + n \in Nat
      BY <1>3, <1>4
    <2> QED
      BY <1>1, <1>2, <1>4, <1>w, <2>1 DEF Typed
  <1>6. Measuring(W, U)'
    <2>1. /\ buf = << >> /\ i = 0 /\ out = << >> /\ before = << >>
          /\ size + Load(W, todo) = W[Whole] /\ Load(U, todo) = U[Whole]
      BY <1>2 DEF Measuring
    <2>2. size' + Load(W, todo') = W[Whole] /\ Load(U, todo') = U[Whole]
      BY <1>1, <1>3, <1>4, <2>1
    <2> QED
      BY <1>1, <1>w, <2>1, <2>2 DEF Measuring
  <1>7. Behind' /\ Panicked' /\ Ahead'
    <2>1. buf' = << >> /\ pass' = "size"
      BY <1>1, <1>2 DEF Measuring
    <2>2. size' \in Nat /\ Len(buf') = 0
      BY <1>1, <1>3, <1>4, <2>1
    <2>3. ASSUME NEW k \in (size' + 1) .. Len(buf')
          PROVE  FALSE
      <3> DEFINE a == size'
                 b == Len(buf')
      <3>1. a \in Nat /\ b = 0 /\ k \in (a + 1) .. b
        BY <2>2
      <3> HIDE DEF a, b
      <3> QED
        BY <3>1
    <2>4. Behind'
      BY <2>3 DEF Behind
    <2> QED
      BY <1>1, <1>2, <2>1, <2>4 DEF Panicked, Ahead
  <1>8. Measured(W, U)' /\ Marshalling(W)' /\ Appending(W)'
    BY <1>1 DEF Measured, Marshalling, Appending
  <1> QED
    BY <1>5, <1>6, <1>7, <1>8 DEF Agree

\* What Marshal writes at i.
LEMMA OverIs ==
  ASSUME NEW b, IsSeq(b), NEW o \in Nat, NEW bytes \in Seq(Nat), o + Len(bytes) <= Len(b)
  PROVE  /\ IsSeq(Over(b, o, bytes)) /\ Len(Over(b, o, bytes)) = Len(b)
         /\ \A k \in 1 .. Len(b) : k > o + Len(bytes) => Over(b, o, bytes)[k] = b[k]
  <1> DEFINE c == Over(b, o, bytes)
  <1>1. Len(b) \in Nat
    BY DEF IsSeq
  <1>2. c = [k \in 1 .. Len(b) |->
               IF k \in (o + 1) .. (o + Len(bytes)) THEN bytes[k - o] ELSE b[k]]
    BY DEF Over
  <1>3. Len(c) = Len(b) /\ c = [k \in 1 .. Len(c) |-> c[k]]
    BY <1>1, <1>2
  <1>4. ASSUME NEW k \in 1 .. Len(b), k > o + Len(bytes)
        PROVE  c[k] = b[k]
    <2>1. k \notin (o + 1) .. (o + Len(bytes))
      BY <1>4
    <2> QED
      BY <1>2, <2>1
  <1> HIDE DEF c
  <1> QED
    BY <1>1, <1>3, <1>4 DEF IsSeq, c

\* A step of Marshal to which n bytes fall and that has written them, if there
\* is room for the value.
Written(n, more) ==
  /\ todo' = more \o Tail(todo) /\ UNCHANGED <<root, val, pass, size, out, before>>
  /\ IsSeq(buf') /\ Len(buf') = Len(buf) /\ i' \in Nat
  /\ Len(buf) >= size =>
       i' = i + n /\ \A k \in 1 .. Len(buf) : k > i + n => buf'[k] = buf[k]

LEMMA AdvanceStep ==
  ASSUME NEW Items, NEW W \in [Items -> Nat], NEW U \in [Items -> Nat], Agree(Items, W, U),
         pass = "marshal", todo # << >>,
         NEW n, NEW more, Share(Items, W, U, Head(todo), n, more), Written(n, more)
  PROVE  Agree(Items, W, U)'
  <1>1. /\ root' = root /\ val' = val /\ pass' = pass /\ size' = size /\ out' = out
        /\ before' = before
        /\ todo' = more \o Tail(todo) /\ IsSeq(buf') /\ Len(buf') = Len(buf) /\ i' \in Nat
        /\ Len(buf) >= size => i' = i + n
        /\ Len(buf) >= size => \A k \in 1 .. Len(buf) : k > i + n => buf'[k] = buf[k]
    BY DEF Written
  <1>2. Typed(Items) /\ Measured(W, U) /\ Marshalling(W) /\ Behind /\ Ahead
    BY DEF Agree
  <1>3. todo \in Seq(Items) /\ size \in Nat /\ i \in Nat /\ Len(buf) \in Nat
    BY <1>2 DEF Typed, IsSeq
  <1>4. /\ n \in Nat /\ todo' \in Seq(Items)
        /\ Load(W, todo) \in Nat /\ Load(W, todo') \in Nat
        /\ Load(W, todo) = n + Load(W, todo')
        /\ Load(U, todo) = Load(U, todo')
    <2>1. todo \in Seq(Items)
      BY <1>3
    <2>2. /\ n \in Nat /\ more \o Tail(todo) \in Seq(Items)
          /\ Load(W, todo) \in Nat /\ Load(W, more \o Tail(todo)) \in Nat
          /\ Load(W, todo) = n + Load(W, more \o Tail(todo))
          /\ Load(U, todo) = Load(U, more \o Tail(todo))
      BY <2>1, NextIs
    <2> QED
      BY <1>1, <2>2
  <1>w. Whole' = Whole
    BY <1>1 DEF Whole
  <1>5. Typed(Items)'
    BY <1>1, <1>2, <1>4, <1>w DEF Typed
  <1>6. Measuring(W, U)' /\ Appending(W)' /\ Panicked'
    BY <1>1 DEF Measuring, Appending, Panicked
  <1>7. Measured(W, U)'
    BY <1>1, <1>2, <1>4, <1>w DEF Measured
  <1>8. out = << >> /\ before = << >> /\ (Len(buf) >= size => i + Load(W, todo) = size)
    BY <1>2 DEF Marshalling
  <1>9. Len(buf) >= size => i' + Load(W, todo') = size
    BY <1>1, <1>3, <1>4, <1>8
  <1>10. Marshalling(W)'
    BY <1>1, <1>8, <1>9 DEF Marshalling
  <1>11. Behind'
    <2> SUFFICES ASSUME NEW k \in (size + 1) .. Len(buf)
                 PROVE  buf'[k] = Fill
      BY <1>1 DEF Behind
    <2>1. k \in 1 .. Len(buf) /\ Len(buf) >= size /\ buf[k] = Fill
      BY <1>2, <1>3 DEF Behind
    <2>2. i + n <= size
      BY <1>3, <1>4, <1>8, <2>1
    <2>3. k > i + n
      BY <1>3, <1>4, <2>2
    <2> QED
      BY <1>1, <2>1, <2>3
  <1>12. Ahead'
    BY <1>1, <1>2 DEF Ahead
  <1> QED
    BY <1>5, <1>6, <1>7, <1>10, <1>11, <1>12 DEF Agree

\* When the buffer has the bytes Size says, there is room for the next part.
LEMMA RoomIs ==
  ASSUME NEW Items, NEW W \in [Items -> Nat], NEW U \in [Items -> Nat], Agree(Items, W, U),
         pass = "marshal", todo # << >>,
         NEW n, NEW more, Share(Items, W, U, Head(todo), n, more)
  PROVE  /\ Room \in Int /\ n \in Nat /\ i \in Nat /\ size \in Nat /\ IsSeq(buf)
         /\ Len(buf) \in Nat /\ Room = Len(buf) - i
         /\ Len(buf) >= size => n <= Room
  <1>1. Typed(Items) /\ Marshalling(W)
    BY DEF Agree
  <1>2. /\ todo \in Seq(Items) /\ size \in Nat /\ i \in Nat /\ Len(buf) \in Nat /\ IsSeq(buf)
        /\ Room = Len(buf) - i
    BY <1>1 DEF Typed, IsSeq, Room
  <1>3. /\ n \in Nat /\ Load(W, todo) = n + Load(W, more \o Tail(todo))
        /\ Load(W, more \o Tail(todo)) \in Nat
    <2>1. todo \in Seq(Items)
      BY <1>2
    <2> QED
      BY <2>1, NextIs
  <1>4. Len(buf) >= size => i + Load(W, todo) = size
    BY <1>1 DEF Marshalling
  <1>5. Room \in Int /\ (Len(buf) >= size => n <= Room)
    BY <1>2, <1>3, <1>4
  <1> QED
    BY <1>2, <1>3, <1>5

\* A panic of Marshal.
LEMMA PanicStep ==
  ASSUME NEW Items, NEW W, NEW U, Agree(Items, W, U),
         buf = << >> \/ Len(buf) < size, pass' = "panic",
         UNCHANGED <<root, val, todo, size, buf, i, out, before>>
  PROVE  Agree(Items, W, U)'
  <1>1. Typed(Items)'
    <2>1. Typed(Items) /\ Whole' = Whole
      BY DEF Agree, Whole
    <2> QED
      BY <2>1 DEF Typed
  <1>2. Behind' /\ Ahead'
    BY DEF Agree, Behind, Ahead
  <1>3. Panicked'
    BY DEF Panicked
  <1> QED
    BY <1>1, <1>2, <1>3 DEF Agree, Measuring, Measured, Marshalling, Appending

\* Nothing is written behind what there is room for.
LEMMA CopiedIs ==
  ASSUME NEW copied \in Seq(Nat), NEW n \in Nat, n <= Len(copied)
  PROVE  SubSeq(copied, 1, n) \in Seq(Nat) /\ Len(SubSeq(copied, 1, n)) = n
  <1>1. SubSeq(copied, 1, n) \in Seq(Nat)
    BY SubSeqProperties
  <1>2. Len(copied) \in Nat
    OBVIOUS
  <1>3. Len(SubSeq(copied, 1, n)) = IF 1 <= n THEN n - 1 + 1 ELSE 0
    BY <1>2, SubSeqProperties
  <1> QED
    BY <1>1, <1>3

LEMMA WriteStep ==
  ASSUME NEW Items, NEW W \in [Items -> Nat], NEW U \in [Items -> Nat], Agree(Items, W, U),
         pass = "marshal", todo # << >>,
         NEW bytes \in Seq(Nat), NEW copied \in Seq(Nat), NEW more,
         Share(Items, W, U, Head(todo), Len(bytes) + Len(copied), more),
         Write(bytes, copied, more)
  PROVE  Agree(Items, W, U)'
  <1> DEFINE a == Len(bytes)
             c == Len(copied)
             n == IF c <= Room - a THEN c ELSE Room - a
             P == bytes \o SubSeq(copied, 1, n)
  <1>1. a \in Nat /\ c \in Nat
    OBVIOUS
  <1>2. \/ /\ a <= Room
           /\ buf' = Over(buf, i, P) /\ i' = i + a + n
           /\ todo' = more \o Tail(todo)
           /\ UNCHANGED <<root, val, pass, size, out, before>>
        \/ /\ a > Room
           /\ pass' = "panic"
           /\ UNCHANGED <<root, val, todo, size, buf, i, out, before>>
    BY DEF Write
  <1> HIDE DEF a, c, n, P
  <1>3. Share(Items, W, U, Head(todo), a + c, more)
    BY DEF a, c
  <1>4. /\ Room \in Int /\ i \in Nat /\ size \in Nat /\ IsSeq(buf)
        /\ Len(buf) \in Nat /\ Room = Len(buf) - i
        /\ Len(buf) >= size => a + c <= Room
    <2> DEFINE m == a + c
    <2>1. Share(Items, W, U, Head(todo), m, more)
      BY <1>3
    <2> HIDE DEF m
    <2>2. /\ Room \in Int /\ i \in Nat /\ size \in Nat /\ IsSeq(buf)
          /\ Len(buf) \in Nat /\ Room = Len(buf) - i
          /\ Len(buf) >= size => m <= Room
      BY <2>1, RoomIs
    <2> QED
      BY <2>2 DEF m
  <1>5. CASE a <= Room /\ pass' = pass
    <2>0. /\ buf' = Over(buf, i, P) /\ i' = i + a + n
          /\ todo' = more \o Tail(todo)
          /\ UNCHANGED <<root, val, pass, size, out, before>>
      BY <1>1, <1>2, <1>4, <1>5
    <2>1. n \in Nat /\ n <= c /\ a + n <= Room /\ (a + c <= Room => n = c)
      BY <1>1, <1>4, <1>5 DEF n
    <2>2. P \in Seq(Nat) /\ Len(P) = a + n
      <3>1. SubSeq(copied, 1, n) \in Seq(Nat) /\ Len(SubSeq(copied, 1, n)) = n
        BY <2>1, CopiedIs DEF c
      <3> QED
        BY <3>1, ConcatProperties DEF P, a
    <2>3. i + Len(P) <= Len(buf)
      BY <1>1, <1>4, <2>1, <2>2
    <2>4. /\ IsSeq(buf') /\ Len(buf') = Len(buf)
          /\ \A k \in 1 .. Len(buf) : k > i + Len(P) => buf'[k] = buf[k]
      BY <1>4, <2>0, <2>2, <2>3, OverIs
    <2>5. i' \in Nat
      BY <1>1, <1>4, <2>0, <2>1
    <2>6. ASSUME Len(buf) >= size
          PROVE  /\ i' = i + (a + c)
                 /\ \A k \in 1 .. Len(buf) : k > i + (a + c) => buf'[k] = buf[k]
      <3>1. n = c /\ i + Len(P) = i + (a + c)
        BY <1>4, <2>1, <2>2, <2>6
      <3>2. i + a + c = i + (a + c)
        BY <1>1, <1>4
      <3> QED
        BY <2>0, <2>4, <3>1, <3>2
    <2>7. Written(a + c, more)
      BY <2>0, <2>4, <2>5, <2>6 DEF Written
    <2> QED
      BY <1>3, <2>7, AdvanceStep
  <1>6. CASE a > Room /\ pass' = "panic"
    <2>1. Len(buf) < size
      BY <1>1, <1>4, <1>6
    <2>2. UNCHANGED <<root, val, todo, size, buf, i, out, before>>
      BY <1>1, <1>2, <1>4, <1>6
    <2> QED
      BY <1>6, <2>1, <2>2, PanicStep
  <1> QED
    BY <1>1, <1>2, <1>4, <1>5, <1>6

LEMMA DescendStep ==
  ASSUME NEW Items, NEW W \in [Items -> Nat], NEW U \in [Items -> Nat], Agree(Items, W, U),
         pass = "marshal", todo # << >>,
         NEW parts, Share(Items, W, U, Head(todo), 0, parts), Descend(parts)
  PROVE  Agree(Items, W, U)'
  <1>1. /\ todo' = parts \o Tail(todo)
        /\ UNCHANGED <<root, val, pass, size, buf, i, out, before>>
    BY DEF Descend
  <1>2. i \in Nat /\ IsSeq(buf)
    BY DEF Agree, Typed
  <1>3. Written(0, parts)
    BY <1>1, <1>2 DEF Written
  <1> QED
    BY <1>3, AdvanceStep

\* A blittable struct: what fits is copied, all of it is counted.
LEMMA CopyStep ==
  ASSUME NEW Items, NEW W \in [Items -> Nat], NEW U \in [Items -> Nat], Agree(Items, W, U),
         pass = "marshal", todo # << >>,
         NEW memory \in Seq(Nat), NEW raw, Len(memory) = raw,
         Share(Items, W, U, Head(todo), raw, << >>),
         Room >= 0, buf' = Over(buf, i, SubSeq(memory, 1, Fits(memory))), i' = i + raw,
         todo' = Tail(todo), UNCHANGED <<root, val, pass, size, out, before>>
  PROVE  Agree(Items, W, U)'
  <1> DEFINE n == Fits(memory)
             P == SubSeq(memory, 1, n)
  <1>1. /\ Room \in Int /\ raw \in Nat /\ i \in Nat /\ size \in Nat /\ IsSeq(buf)
        /\ Len(buf) \in Nat /\ Room = Len(buf) - i
        /\ Len(buf) >= size => raw <= Room
    BY RoomIs
  <1>2. n \in Nat /\ n <= raw /\ n <= Room /\ (raw <= Room => n = raw)
    BY <1>1 DEF Fits
  <1>0. buf' = Over(buf, i, P)
    OBVIOUS
  <1> HIDE DEF n
  <1>3. P \in Seq(Nat) /\ Len(P) = n
    BY <1>2, CopiedIs
  <1> HIDE DEF P
  <1>4. i + Len(P) <= Len(buf)
    BY <1>1, <1>2, <1>3
  <1>5. /\ IsSeq(buf') /\ Len(buf') = Len(buf)
        /\ \A k \in 1 .. Len(buf) : k > i + Len(P) => buf'[k] = buf[k]
    <2>1. IsSeq(buf) /\ i \in Nat
      BY <1>1
    <2>2. /\ IsSeq(Over(buf, i, P)) /\ Len(Over(buf, i, P)) = Len(buf)
          /\ \A k \in 1 .. Len(buf) : k > i + Len(P) => Over(buf, i, P)[k] = buf[k]
      BY <2>1, <1>3, <1>4, OverIs
    <2> QED
      BY <1>0, <2>2
  <1>6. i' \in Nat
    BY <1>1
  <1>7. ASSUME Len(buf) >= size
        PROVE  i' = i + raw /\ \A k \in 1 .. Len(buf) : k > i + raw => buf'[k] = buf[k]
    <2>1. Len(P) = raw
      BY <1>1, <1>2, <1>3, <1>7
    <2> QED
      BY <1>5, <2>1
  <1>8. todo' = << >> \o Tail(todo)
    <2>1. Tail(todo) \in Seq(Items)
      <3>1. todo \in Seq(Items)
        BY DEF Agree, Typed
      <3> QED
        BY <3>1
    <2> QED
      BY <2>1
  <1>9. Written(raw, << >>)
    BY <1>5, <1>6, <1>7, <1>8 DEF Written
  <1> QED
    BY <1>9, AdvanceStep

LEMMA LeftIs ==
  ASSUME NEW Items, NEW W \in [Items -> Nat], NEW U \in [Items -> Nat], Agree(Items, W, U),
         todo # << >>,
         NEW n, NEW more, Share(Items, W, U, Head(todo), n, more)
  PROVE  /\ n \in Nat /\ more \o Tail(todo) \in Seq(Items)
         /\ Load(W, todo) \in Nat /\ Load(W, more \o Tail(todo)) \in Nat
         /\ Load(W, todo) = n + Load(W, more \o Tail(todo))
         /\ Load(U, todo) = Load(U, more \o Tail(todo))
  <1>1. todo \in Seq(Items)
    BY DEF Agree, Typed
  <1> QED
    BY <1>1, NextIs

\* A step of Append.
LEMMA PushStep ==
  ASSUME NEW Items, NEW W \in [Items -> Nat], NEW U \in [Items -> Nat], Agree(Items, W, U),
         pass = "append", todo # << >>,
         NEW bytes \in Seq(Nat), NEW more, Share(Items, W, U, Head(todo), Len(bytes), more),
         Push(bytes, more)
  PROVE  Agree(Items, W, U)'
  <1>1. /\ out' = out \o bytes /\ todo' = more \o Tail(todo)
        /\ root' = root /\ val' = val /\ pass' = pass /\ size' = size /\ buf' = buf /\ i' = i
        /\ before' = before
    BY DEF Push
  <1>2. Typed(Items) /\ Measured(W, U) /\ Marshalling(W) /\ Appending(W) /\ Behind /\ Ahead
    BY DEF Agree
  <1>3. todo \in Seq(Items) /\ size \in Nat /\ out \in Seq(Nat) /\ before \in Seq(Nat)
    BY <1>2 DEF Typed
  <1> DEFINE n == Len(bytes)
  <1>4. /\ n \in Nat /\ todo' \in Seq(Items)
        /\ Load(W, todo) \in Nat /\ Load(W, todo') \in Nat
        /\ Load(W, todo) = n + Load(W, todo')
        /\ Load(U, todo) = Load(U, todo')
    <2>0. Share(Items, W, U, Head(todo), n, more)
      OBVIOUS
    <2> HIDE DEF n
    <2>2. /\ n \in Nat /\ more \o Tail(todo) \in Seq(Items)
          /\ Load(W, todo) \in Nat /\ Load(W, more \o Tail(todo)) \in Nat
          /\ Load(W, todo) = n + Load(W, more \o Tail(todo))
          /\ Load(U, todo) = Load(U, more \o Tail(todo))
      BY <2>0, LeftIs
    <2> QED
      BY <1>1, <2>2
  <1>5. /\ out' \in Seq(Nat) /\ Len(out) \in Nat /\ Len(before) \in Nat
        /\ Len(out') = Len(out) + n
        /\ \A k \in 1 .. Len(out) : out'[k] = out[k]
    <2>1. /\ out \o bytes \in Seq(Nat) /\ Len(out \o bytes) = Len(out) + Len(bytes)
          /\ \A k \in 1 .. Len(out) + Len(bytes) :
               (out \o bytes)[k] = IF k <= Len(out) THEN out[k] ELSE bytes[k - Len(out)]
      BY <1>3, ConcatProperties
    <2>2. Len(out) \in Nat /\ Len(bytes) \in Nat /\ Len(before) \in Nat
      BY <1>3
    <2>3. ASSUME NEW k \in 1 .. Len(out)
          PROVE  (out \o bytes)[k] = out[k]
      <3>1. k \in 1 .. Len(out) + Len(bytes) /\ k <= Len(out)
        BY <2>2
      <3> QED
        BY <2>1, <3>1
    <2> QED
      BY <1>1, <2>1, <2>2, <2>3
  <1> HIDE DEF n
  <1>w. Whole' = Whole
    BY <1>1 DEF Whole
  <1>6. Typed(Items)'
    BY <1>1, <1>2, <1>4, <1>5, <1>w DEF Typed
  <1>7. Measuring(W, U)' /\ Panicked'
    BY <1>1 DEF Measuring, Panicked
  <1>8. Measured(W, U)'
    BY <1>1, <1>2, <1>4, <1>w DEF Measured
  <1>9. Marshalling(W)'
    BY <1>1, <1>2 DEF Marshalling
  <1>10. Appending(W)'
    <2>1. Len(out) + Load(W, todo) = Len(before) + size
      BY <1>2 DEF Appending
    <2>2. Len(out') + Load(W, todo') = Len(before) + size
      BY <1>3, <1>4, <1>5, <2>1
    <2> QED
      BY <1>1, <2>2 DEF Appending
  <1>11. Behind'
    BY <1>1, <1>2 DEF Behind
  <1>12. Ahead'
    <2>1. Len(before) <= Len(out) /\ \A k \in 1 .. Len(before) : out[k] = before[k]
      BY <1>2 DEF Ahead
    <2>2. Len(before) <= Len(out')
      BY <1>4, <1>5, <2>1
    <2>3. ASSUME NEW k \in 1 .. Len(before)
          PROVE  out'[k] = before[k]
      <3>1. k \in 1 .. Len(out)
        BY <1>5, <2>1
      <3> QED
        BY <1>5, <2>1, <3>1
    <2> QED
      BY <1>1, <2>2, <2>3 DEF Ahead
  <1> QED
    BY <1>6, <1>7, <1>8, <1>9, <1>10, <1>11, <1>12 DEF Agree

-----------------------------------------------------------------------------
(***************************************************************************)
(* Every step keeps the invariant.                                         *)
(***************************************************************************)
\* What an action takes from the value it visits.
LEMMA Here ==
  /\ This = Schema[Head(todo).t] /\ Val = Head(todo).v
  /\ Elements = ElementsOf(Head(todo)) /\ Fields = FieldsOf(Head(todo))
  /\ \A s : Entries(s) = EntriesOf(Head(todo), s)
  /\ Member = MemberOf(Head(todo)) /\ Orders = SetToSeqs(Head(todo).v)
  /\ Memory = MemoryOf(Head(todo))
  /\ ElemSize = FixedSize(Schema[Head(todo).t].elems[1])
  /\ FixedElem <=> FixedSize(Schema[Head(todo).t].elems[1]) >= 0
  /\ Bulk => Schema[Head(todo).t].bulk
  /\ Tag = Head(todo).v[1] /\ (Declared <=> Head(todo).v[1] <= Len(Schema[Head(todo).t].elems))
  BY DEF This, Val, Elements, ElementsOf, Fields, FieldsOf, Entries, EntriesOf, Member, MemberOf,
         Orders, Memory, MemoryOf, Elem, ElemSize, FixedElem, Bulk, Tag, Declared

LEMMA AtHead ==
  ASSUME NEW Items, NEW W, NEW U, Weighed(Items, W, U), Agree(Items, W, U)
  PROVE  /\ W \in [Items -> Nat] /\ U \in [Items -> Nat]
         /\ todo # << >> => Head(todo) \in Items
  <1>1. W \in [Items -> Nat] /\ U \in [Items -> Nat]
    BY DEF Weighed, Bytes, Stops, Weighs
  <1>2. todo \in Seq(Items)
    BY DEF Agree, Typed
  <1> QED
    BY <1>1, <1>2

LEMMA SizeSliceStep ==
  ASSUME NEW Items, NEW depth, NEW rank, Encodable(Items, depth, rank),
         NEW W, NEW U, Weighed(Items, W, U), Agree(Items, W, U), SizeSlice
  PROVE  Agree(Items, W, U)'
  <1> DEFINE x == Head(todo)
             p == PutUvarint(Len(x.v))
             f == FixedSize(Schema[x.t].elems[1]) * Len(x.v)
             r == Schema[x.t].raw * Len(x.v)
  <1>0. pass = "size" /\ todo # << >> /\ Schema[x.t].kind = "slice"
    BY Here DEF SizeSlice, Visit
  <1>1. W \in [Items -> Nat] /\ U \in [Items -> Nat] /\ x \in Items
    BY <1>0, AtHead
  <1>2. \/ FixedSize(Schema[x.t].elems[1]) >= 0 /\ Add(SizeUvarint(Len(x.v)) + f, << >>)
        \/ Schema[x.t].bulk /\ Add(SizeUvarint(Len(x.v)) + r, << >>)
        \/ Add(SizeUvarint(Len(x.v)), ElementsOf(x))
    BY Here DEF SizeSlice
  <1>3. /\ SizeUvarint(Len(x.v)) = Len(p)
        /\ Share(Items, W, U, x, Len(p), ElementsOf(x))
        /\ FixedSize(Schema[x.t].elems[1]) >= 0 => Share(Items, W, U, x, Len(p) + f, << >>)
        /\ Schema[x.t].bulk => Share(Items, W, U, x, Len(p) + r, << >>)
    BY <1>0, <1>1, SliceShares
  <1> HIDE DEF x, p, f, r
  <1>4. \E n, more : Share(Items, W, U, x, n, more) /\ Add(n, more)
    BY <1>2, <1>3
  <1> QED
    BY <1>0, <1>1, <1>4, AddStep DEF x

LEMMA SizeArrayStep ==
  ASSUME NEW Items, NEW depth, NEW rank, Encodable(Items, depth, rank),
         NEW W, NEW U, Weighed(Items, W, U), Agree(Items, W, U), SizeArray
  PROVE  Agree(Items, W, U)'
  <1> DEFINE x == Head(todo)
             f == FixedSize(Schema[x.t].elems[1]) * Schema[x.t].size
             r == Schema[x.t].raw * Schema[x.t].size
  <1>0. pass = "size" /\ todo # << >> /\ Schema[x.t].kind = "array"
    BY Here DEF SizeArray, Visit
  <1>1. W \in [Items -> Nat] /\ U \in [Items -> Nat] /\ x \in Items
    BY <1>0, AtHead
  <1>2. \/ FixedSize(Schema[x.t].elems[1]) >= 0 /\ Add(f, << >>)
        \/ Schema[x.t].bulk /\ Add(r, << >>)
        \/ Add(0, ElementsOf(x))
    BY Here DEF SizeArray
  <1>3. /\ Share(Items, W, U, x, 0, ElementsOf(x))
        /\ FixedSize(Schema[x.t].elems[1]) >= 0 => Share(Items, W, U, x, f, << >>)
        /\ Schema[x.t].bulk => Share(Items, W, U, x, r, << >>)
    BY <1>0, <1>1, ArrayShares
  <1> HIDE DEF x, f, r
  <1>4. \E n, more : Share(Items, W, U, x, n, more) /\ Add(n, more)
    BY <1>2, <1>3
  <1> QED
    BY <1>0, <1>1, <1>4, AddStep DEF x

LEMMA SizeMapStep ==
  ASSUME NEW Items, NEW depth, NEW rank, Encodable(Items, depth, rank),
         NEW W, NEW U, Weighed(Items, W, U), Agree(Items, W, U), SizeMap
  PROVE  Agree(Items, W, U)'
  <1> DEFINE x == Head(todo)
             p == PutUvarint(Cardinality(x.v))
  <1>0. pass = "size" /\ todo # << >> /\ Schema[x.t].kind = "map"
    BY Here DEF SizeMap, Visit
  <1>1. W \in [Items -> Nat] /\ U \in [Items -> Nat] /\ x \in Items
    BY <1>0, AtHead
  <1>2. PICK s \in SetToSeqs(x.v) : Add(SizeUvarint(Cardinality(x.v)), EntriesOf(x, s))
    BY Here DEF SizeMap
  <1>3. /\ SizeUvarint(Cardinality(x.v)) = Len(p)
        /\ Share(Items, W, U, x, Len(p), EntriesOf(x, s))
    BY <1>0, <1>1, MapShares
  <1> HIDE DEF x, p
  <1>4. \E n, more : Share(Items, W, U, x, n, more) /\ Add(n, more)
    BY <1>2, <1>3
  <1> QED
    BY <1>0, <1>1, <1>4, AddStep DEF x

LEMMA SizeUnionStep ==
  ASSUME NEW Items, NEW depth, NEW rank, Encodable(Items, depth, rank),
         NEW W, NEW U, Weighed(Items, W, U), Agree(Items, W, U), SizeUnion
  PROVE  Agree(Items, W, U)'
  <1> DEFINE x == Head(todo)
             tag == x.v[1]
             p == PutUvarint(tag)
  <1>0. pass = "size" /\ todo # << >> /\ Schema[x.t].kind = "union"
        /\ tag <= Len(Schema[x.t].elems)
    BY Here DEF SizeUnion, Visit
  <1>1. W \in [Items -> Nat] /\ U \in [Items -> Nat] /\ x \in Items
    BY <1>0, AtHead
  <1>2. \/ tag = 0 /\ Add(TagLen(tag), << >>)
        \/ tag # 0 /\ Add(TagLen(tag), MemberOf(x))
    BY Here DEF SizeUnion
  <1>3. /\ TagLen(tag) = Len(p)
        /\ tag = 0 => Share(Items, W, U, x, Len(p), << >>)
        /\ tag # 0 => Share(Items, W, U, x, Len(p), MemberOf(x))
    BY <1>0, <1>1, UnionShares
  <1> HIDE DEF x, p, tag
  <1>4. \E n, more : Share(Items, W, U, x, n, more) /\ Add(n, more)
    BY <1>2, <1>3
  <1> QED
    BY <1>0, <1>1, <1>4, AddStep DEF x

LEMMA SizeOtherStep ==
  ASSUME NEW Items, NEW depth, NEW rank, Encodable(Items, depth, rank),
         NEW W, NEW U, Weighed(Items, W, U), Agree(Items, W, U), SizeOther
  PROVE  Agree(Items, W, U)'
  <1> DEFINE x == Head(todo)
             kind == Schema[x.t].kind
             p == PutUvarint(Len(x.v))
  <1>0. pass = "size" /\ todo # << >>
    BY DEF SizeOther, Visit
  <1>1. W \in [Items -> Nat] /\ U \in [Items -> Nat] /\ x \in Items
    BY <1>0, AtHead
  <1>2. \/ kind \in { "fixed", "block" } /\ Add(Schema[x.t].size, << >>)
        \/ kind \in { "string", "bytes" } /\ Add(SizeUvarint(Len(x.v)) + Len(x.v), << >>)
        \/ kind = "pointer" /\ Add(1, ElementsOf(x))
        \/ kind = "struct" /\ Schema[x.t].bulk /\ Add(Schema[x.t].raw, << >>)
        \/ kind = "struct" /\ Add(0, FieldsOf(x))
    BY Here DEF SizeOther
  <1>3. /\ kind \in { "fixed", "block" } => Share(Items, W, U, x, Schema[x.t].size, << >>)
        /\ kind \in { "string", "bytes" } =>
             Share(Items, W, U, x, SizeUvarint(Len(x.v)) + Len(x.v), << >>)
    BY <1>1, BasicShares
  <1>4. /\ kind = "pointer" => Share(Items, W, U, x, 1, ElementsOf(x))
        /\ kind = "struct" /\ Schema[x.t].bulk => Share(Items, W, U, x, Schema[x.t].raw, << >>)
        /\ kind = "struct" => Share(Items, W, U, x, 0, FieldsOf(x))
    BY <1>1, PointerShares, StructShares
  <1> HIDE DEF x, kind, p
  <1>5. \E n, more : Share(Items, W, U, x, n, more) /\ Add(n, more)
    BY <1>2, <1>3, <1>4
  <1> QED
    BY <1>0, <1>1, <1>5, AddStep DEF x

\* A write of nothing that is copied.
LEMMA ShareBytes ==
  ASSUME NEW Items, NEW W, NEW U, NEW x, NEW bytes \in Seq(Nat), NEW more,
         Share(Items, W, U, x, Len(bytes), more)
  PROVE  Share(Items, W, U, x, Len(bytes) + Len(<< >>), more)
  <1>1. Len(bytes) + Len(<< >>) = Len(bytes)
    OBVIOUS
  <1> QED
    BY <1>1

LEMMA ShareCopied ==
  ASSUME NEW Items, NEW W, NEW U, NEW x, NEW copied \in Seq(Nat), NEW more,
         Share(Items, W, U, x, Len(copied), more)
  PROVE  Share(Items, W, U, x, Len(<< >>) + Len(copied), more)
  <1>1. Len(<< >>) + Len(copied) = Len(copied)
    OBVIOUS
  <1> QED
    BY <1>1

LEMMA MarshalSliceStep ==
  ASSUME NEW Items, NEW depth, NEW rank, Encodable(Items, depth, rank),
         NEW W, NEW U, Weighed(Items, W, U), Agree(Items, W, U), MarshalSlice
  PROVE  Agree(Items, W, U)'
  <1> DEFINE x == Head(todo)
             p == PutUvarint(Len(x.v))
             m == MemoryOf(x)
  <1>0. pass = "marshal" /\ todo # << >> /\ Schema[x.t].kind = "slice"
    BY Here DEF MarshalSlice, Visit
  <1>1. W \in [Items -> Nat] /\ U \in [Items -> Nat] /\ x \in Items
    BY <1>0, AtHead
  <1>2. \/ Schema[x.t].bulk /\ Write(p, m, << >>)
        \/ Write(p, << >>, ElementsOf(x))
    BY Here DEF MarshalSlice
  <1>3. /\ p \in Seq(Nat) /\ Share(Items, W, U, x, Len(p), ElementsOf(x))
        /\ Schema[x.t].bulk => m \in Seq(Nat) /\ Share(Items, W, U, x, Len(p) + Len(m), << >>)
    BY <1>0, <1>1, SliceShares
  <1>e. << >> \in Seq(Nat) /\ Len(<< >>) = 0
    OBVIOUS
  <1> HIDE DEF x, p, m
  <1>4. Share(Items, W, U, x, Len(p) + Len(<< >>), ElementsOf(x))
    BY <1>3, ShareBytes
  <1>w. \E bytes, copied \in Seq(Nat) : \E more :
          Share(Items, W, U, x, Len(bytes) + Len(copied), more) /\ Write(bytes, copied, more)
    BY <1>2, <1>3, <1>4, <1>e
  <1> QED
    BY <1>0, <1>1, <1>w, WriteStep DEF x

LEMMA MarshalArrayStep ==
  ASSUME NEW Items, NEW depth, NEW rank, Encodable(Items, depth, rank),
         NEW W, NEW U, Weighed(Items, W, U), Agree(Items, W, U), MarshalArray
  PROVE  Agree(Items, W, U)'
  <1> DEFINE x == Head(todo)
             m == MemoryOf(x)
  <1>0. pass = "marshal" /\ todo # << >> /\ Schema[x.t].kind = "array"
    BY Here DEF MarshalArray, Visit
  <1>1. W \in [Items -> Nat] /\ U \in [Items -> Nat] /\ x \in Items
    BY <1>0, AtHead
  <1>2. \/ Schema[x.t].bulk /\ Write(<< >>, m, << >>)
        \/ Descend(ElementsOf(x))
    BY Here DEF MarshalArray
  <1>3. /\ Share(Items, W, U, x, 0, ElementsOf(x))
        /\ Schema[x.t].bulk => m \in Seq(Nat) /\ Share(Items, W, U, x, Len(m), << >>)
    BY <1>0, <1>1, ArrayShares
  <1>e. << >> \in Seq(Nat) /\ Len(<< >>) = 0
    OBVIOUS
  <1>4. CASE Descend(ElementsOf(x))
    BY <1>0, <1>1, <1>3, <1>4, DescendStep
  <1>5. CASE Schema[x.t].bulk /\ Write(<< >>, m, << >>)
    <2> HIDE DEF m, x
    <2>1. Share(Items, W, U, x, Len(<< >>) + Len(m), << >>)
      BY <1>3, <1>5, ShareCopied
    <2>2. \E bytes, copied \in Seq(Nat) : \E more :
            Share(Items, W, U, x, Len(bytes) + Len(copied), more) /\ Write(bytes, copied, more)
      BY <1>3, <1>5, <1>e, <2>1
    <2> QED
      BY <1>0, <1>1, <2>2, WriteStep DEF x
  <1> QED
    BY <1>2, <1>4, <1>5

LEMMA MarshalMapStep ==
  ASSUME NEW Items, NEW depth, NEW rank, Encodable(Items, depth, rank),
         NEW W, NEW U, Weighed(Items, W, U), Agree(Items, W, U), MarshalMap
  PROVE  Agree(Items, W, U)'
  <1> DEFINE x == Head(todo)
             p == PutUvarint(Cardinality(x.v))
  <1>0. pass = "marshal" /\ todo # << >> /\ Schema[x.t].kind = "map"
    BY Here DEF MarshalMap, Visit
  <1>1. W \in [Items -> Nat] /\ U \in [Items -> Nat] /\ x \in Items
    BY <1>0, AtHead
  <1>2. PICK s \in SetToSeqs(x.v) : Write(p, << >>, EntriesOf(x, s))
    BY Here DEF MarshalMap
  <1>3. p \in Seq(Nat) /\ Share(Items, W, U, x, Len(p), EntriesOf(x, s))
    BY <1>0, <1>1, MapShares
  <1>e. << >> \in Seq(Nat) /\ Len(<< >>) = 0
    OBVIOUS
  <1> HIDE DEF x, p
  <1>4. Share(Items, W, U, x, Len(p) + Len(<< >>), EntriesOf(x, s))
    BY <1>3, ShareBytes
  <1>w. \E bytes, copied \in Seq(Nat) : \E more :
          Share(Items, W, U, x, Len(bytes) + Len(copied), more) /\ Write(bytes, copied, more)
    BY <1>2, <1>3, <1>4, <1>e
  <1> QED
    BY <1>0, <1>1, <1>w, WriteStep DEF x

LEMMA MarshalUnionStep ==
  ASSUME NEW Items, NEW depth, NEW rank, Encodable(Items, depth, rank),
         NEW W, NEW U, Weighed(Items, W, U), Agree(Items, W, U), MarshalUnion
  PROVE  Agree(Items, W, U)'
  <1> DEFINE x == Head(todo)
             tag == x.v[1]
             p == PutUvarint(tag)
  <1>0. pass = "marshal" /\ todo # << >> /\ Schema[x.t].kind = "union"
        /\ tag <= Len(Schema[x.t].elems)
    BY Here DEF MarshalUnion, Visit
  <1>1. W \in [Items -> Nat] /\ U \in [Items -> Nat] /\ x \in Items
    BY <1>0, AtHead
  <1>2. \/ tag = 0 /\ Write(p, << >>, << >>)
        \/ tag # 0 /\ Write(p, << >>, MemberOf(x))
    BY Here DEF MarshalUnion
  <1>3. /\ p \in Seq(Nat)
        /\ tag = 0 => Share(Items, W, U, x, Len(p), << >>)
        /\ tag # 0 => Share(Items, W, U, x, Len(p), MemberOf(x))
    BY <1>0, <1>1, UnionShares
  <1>e. << >> \in Seq(Nat) /\ Len(<< >>) = 0
    OBVIOUS
  <1> HIDE DEF x, p, tag
  <1>4. /\ tag = 0 => Share(Items, W, U, x, Len(p) + Len(<< >>), << >>)
        /\ tag # 0 => Share(Items, W, U, x, Len(p) + Len(<< >>), MemberOf(x))
    BY <1>3, ShareBytes
  <1>w. \E bytes, copied \in Seq(Nat) : \E more :
          Share(Items, W, U, x, Len(bytes) + Len(copied), more) /\ Write(bytes, copied, more)
    BY <1>2, <1>3, <1>4, <1>e
  <1> QED
    BY <1>0, <1>1, <1>w, WriteStep DEF x

LEMMA MarshalStructStep ==
  ASSUME NEW Items, NEW depth, NEW rank, Encodable(Items, depth, rank),
         NEW W, NEW U, Weighed(Items, W, U), Agree(Items, W, U), MarshalStruct
  PROVE  Agree(Items, W, U)'
  <1> DEFINE x == Head(todo)
             m == MemoryOf(x)
             raw == Schema[x.t].raw
  <1>0. pass = "marshal" /\ todo # << >> /\ Schema[x.t].kind = "struct"
    BY Here DEF MarshalStruct, Visit
  <1>1. W \in [Items -> Nat] /\ U \in [Items -> Nat] /\ x \in Items
    BY <1>0, AtHead
  <1>2. \/ Descend(FieldsOf(x))
        \/ /\ Schema[x.t].bulk /\ Room >= 0
           /\ buf' = Over(buf, i, SubSeq(m, 1, Fits(m))) /\ i' = i + raw
           /\ todo' = Tail(todo) /\ UNCHANGED <<root, val, pass, size, out, before>>
        \/ /\ Room < 0 /\ pass' = "panic"
           /\ UNCHANGED <<root, val, todo, size, buf, i, out, before>>
    BY Here DEF MarshalStruct
  <1>3. /\ Share(Items, W, U, x, 0, FieldsOf(x))
        /\ Schema[x.t].bulk =>
             m \in Seq(Nat) /\ Len(m) = raw /\ Share(Items, W, U, x, raw, << >>)
    BY <1>0, <1>1, StructShares
  <1>4. CASE Descend(FieldsOf(x))
    BY <1>0, <1>1, <1>3, <1>4, DescendStep
  <1>5. CASE /\ Schema[x.t].bulk /\ Room >= 0
             /\ buf' = Over(buf, i, SubSeq(m, 1, Fits(m))) /\ i' = i + raw
             /\ todo' = Tail(todo) /\ UNCHANGED <<root, val, pass, size, out, before>>
    <2> HIDE DEF m, raw
    <2> QED
      BY <1>0, <1>1, <1>3, <1>5, CopyStep
  <1>6. CASE /\ Room < 0 /\ pass' = "panic"
             /\ UNCHANGED <<root, val, todo, size, buf, i, out, before>>
    <2>1. /\ Room \in Int /\ size \in Nat /\ Len(buf) \in Nat
          /\ Len(buf) >= size => 0 <= Room
      BY <1>0, <1>1, <1>3, RoomIs
    <2>2. Len(buf) < size
      BY <1>6, <2>1
    <2> QED
      BY <1>6, <2>2, PanicStep
  <1> QED
    BY <1>2, <1>4, <1>5, <1>6

LEMMA MarshalOtherStep ==
  ASSUME NEW Items, NEW depth, NEW rank, Encodable(Items, depth, rank),
         NEW W, NEW U, Weighed(Items, W, U), Agree(Items, W, U), MarshalOther
  PROVE  Agree(Items, W, U)'
  <1> DEFINE x == Head(todo)
             kind == Schema[x.t].kind
             v == x.v
             p == PutUvarint(Len(v))
  <1>0. pass = "marshal" /\ todo # << >>
    BY DEF MarshalOther, Visit
  <1>1. W \in [Items -> Nat] /\ U \in [Items -> Nat] /\ x \in Items
    BY <1>0, AtHead
  <1>2. \/ kind = "fixed" /\ Write(v, << >>, << >>)
        \/ kind = "block" /\ Write(<< >>, v, << >>)
        \/ kind \in { "string", "bytes" } /\ Write(p, v, << >>)
        \/ kind = "pointer" /\ v = << >> /\ Write(<<0>>, << >>, << >>)
        \/ kind = "pointer" /\ Write(<<1>>, << >>, ElementsOf(x))
    BY Here DEF MarshalOther
  <1>3. /\ kind \in { "fixed", "block" } => v \in Seq(Nat) /\ Share(Items, W, U, x, Len(v), << >>)
        /\ kind \in { "string", "bytes" } =>
             v \in Seq(Nat) /\ p \in Seq(Nat) /\ Share(Items, W, U, x, Len(p) + Len(v), << >>)
    BY <1>1, BasicShares
  <1>4. /\ kind = "pointer" => Share(Items, W, U, x, 1, ElementsOf(x))
        /\ kind = "pointer" /\ v = << >> => Share(Items, W, U, x, 1, << >>)
    BY <1>1, PointerShares
  <1>e. << >> \in Seq(Nat) /\ Len(<< >>) = 0
    OBVIOUS
  <1>5. <<0>> \in Seq(Nat) /\ <<1>> \in Seq(Nat) /\ Len(<<0>>) = 1 /\ Len(<<1>>) = 1
    OBVIOUS
  <1> HIDE DEF x, kind, v, p
  <1>6. /\ kind = "fixed" => Share(Items, W, U, x, Len(v) + Len(<< >>), << >>)
        /\ kind = "block" => Share(Items, W, U, x, Len(<< >>) + Len(v), << >>)
    BY <1>3, ShareBytes, ShareCopied
  <1>7. /\ kind = "pointer" => Share(Items, W, U, x, Len(<<1>>) + Len(<< >>), ElementsOf(x))
        /\ kind = "pointer" /\ v = << >> => Share(Items, W, U, x, Len(<<0>>) + Len(<< >>), << >>)
    <2>1. Len(<<0>>) + Len(<< >>) = 1 /\ Len(<<1>>) + Len(<< >>) = 1
      OBVIOUS
    <2> QED
      BY <1>4, <2>1
  <1>w. \E bytes, copied \in Seq(Nat) : \E more :
          Share(Items, W, U, x, Len(bytes) + Len(copied), more) /\ Write(bytes, copied, more)
    BY <1>2, <1>3, <1>5, <1>6, <1>7, <1>e
  <1> QED
    BY <1>0, <1>1, <1>w, WriteStep DEF x

LEMMA AppendSliceStep ==
  ASSUME NEW Items, NEW depth, NEW rank, Encodable(Items, depth, rank),
         NEW W, NEW U, Weighed(Items, W, U), Agree(Items, W, U), AppendSlice
  PROVE  Agree(Items, W, U)'
  <1> DEFINE x == Head(todo)
             p == PutUvarint(Len(x.v))
             m == MemoryOf(x)
  <1>0. pass = "append" /\ todo # << >> /\ Schema[x.t].kind = "slice"
    BY Here DEF AppendSlice, Visit
  <1>1. W \in [Items -> Nat] /\ U \in [Items -> Nat] /\ x \in Items
    BY <1>0, AtHead
  <1>2. \/ Schema[x.t].bulk /\ Push(p \o m, << >>)
        \/ Push(p, ElementsOf(x))
    BY Here DEF AppendSlice
  <1>3. /\ p \in Seq(Nat) /\ Share(Items, W, U, x, Len(p), ElementsOf(x))
        /\ Schema[x.t].bulk => m \in Seq(Nat) /\ Share(Items, W, U, x, Len(p) + Len(m), << >>)
    BY <1>0, <1>1, SliceShares
  <1> HIDE DEF x, p, m
  <1>4. Schema[x.t].bulk =>
          p \o m \in Seq(Nat) /\ Share(Items, W, U, x, Len(p \o m), << >>)
    BY <1>3, ConcatProperties
  <1>w. \E bytes \in Seq(Nat) : \E more :
          Share(Items, W, U, x, Len(bytes), more) /\ Push(bytes, more)
    BY <1>2, <1>3, <1>4
  <1> QED
    BY <1>0, <1>1, <1>w, PushStep DEF x

LEMMA AppendArrayStep ==
  ASSUME NEW Items, NEW depth, NEW rank, Encodable(Items, depth, rank),
         NEW W, NEW U, Weighed(Items, W, U), Agree(Items, W, U), AppendArray
  PROVE  Agree(Items, W, U)'
  <1> DEFINE x == Head(todo)
             m == MemoryOf(x)
  <1>0. pass = "append" /\ todo # << >> /\ Schema[x.t].kind = "array"
    BY Here DEF AppendArray, Visit
  <1>1. W \in [Items -> Nat] /\ U \in [Items -> Nat] /\ x \in Items
    BY <1>0, AtHead
  <1>2. \/ Schema[x.t].bulk /\ Push(m, << >>)
        \/ Push(<< >>, ElementsOf(x))
    BY Here DEF AppendArray
  <1>3. /\ Share(Items, W, U, x, 0, ElementsOf(x))
        /\ Schema[x.t].bulk => m \in Seq(Nat) /\ Share(Items, W, U, x, Len(m), << >>)
    BY <1>0, <1>1, ArrayShares
  <1>e. << >> \in Seq(Nat) /\ Len(<< >>) = 0
    OBVIOUS
  <1> HIDE DEF x, m
  <1>w. \E bytes \in Seq(Nat) : \E more :
          Share(Items, W, U, x, Len(bytes), more) /\ Push(bytes, more)
    BY <1>2, <1>3, <1>e
  <1> QED
    BY <1>0, <1>1, <1>w, PushStep DEF x

LEMMA AppendMapStep ==
  ASSUME NEW Items, NEW depth, NEW rank, Encodable(Items, depth, rank),
         NEW W, NEW U, Weighed(Items, W, U), Agree(Items, W, U), AppendMap
  PROVE  Agree(Items, W, U)'
  <1> DEFINE x == Head(todo)
             p == PutUvarint(Cardinality(x.v))
  <1>0. pass = "append" /\ todo # << >> /\ Schema[x.t].kind = "map"
    BY Here DEF AppendMap, Visit
  <1>1. W \in [Items -> Nat] /\ U \in [Items -> Nat] /\ x \in Items
    BY <1>0, AtHead
  <1>2. PICK s \in SetToSeqs(x.v) : Push(p, EntriesOf(x, s))
    BY Here DEF AppendMap
  <1>3. p \in Seq(Nat) /\ Share(Items, W, U, x, Len(p), EntriesOf(x, s))
    BY <1>0, <1>1, MapShares
  <1> HIDE DEF x, p
  <1>w. \E bytes \in Seq(Nat) : \E more :
          Share(Items, W, U, x, Len(bytes), more) /\ Push(bytes, more)
    BY <1>2, <1>3
  <1> QED
    BY <1>0, <1>1, <1>w, PushStep DEF x

LEMMA AppendUnionStep ==
  ASSUME NEW Items, NEW depth, NEW rank, Encodable(Items, depth, rank),
         NEW W, NEW U, Weighed(Items, W, U), Agree(Items, W, U), AppendUnion
  PROVE  Agree(Items, W, U)'
  <1> DEFINE x == Head(todo)
             tag == x.v[1]
             p == PutUvarint(tag)
  <1>0. pass = "append" /\ todo # << >> /\ Schema[x.t].kind = "union"
        /\ tag <= Len(Schema[x.t].elems)
    BY Here DEF AppendUnion, Visit
  <1>1. W \in [Items -> Nat] /\ U \in [Items -> Nat] /\ x \in Items
    BY <1>0, AtHead
  <1>2. \/ tag = 0 /\ Push(p, << >>)
        \/ tag # 0 /\ Push(p, MemberOf(x))
    BY Here DEF AppendUnion
  <1>3. /\ p \in Seq(Nat)
        /\ tag = 0 => Share(Items, W, U, x, Len(p), << >>)
        /\ tag # 0 => Share(Items, W, U, x, Len(p), MemberOf(x))
    BY <1>0, <1>1, UnionShares
  <1> HIDE DEF x, p, tag
  <1>w. \E bytes \in Seq(Nat) : \E more :
          Share(Items, W, U, x, Len(bytes), more) /\ Push(bytes, more)
    BY <1>2, <1>3
  <1> QED
    BY <1>0, <1>1, <1>w, PushStep DEF x

LEMMA AppendOtherStep ==
  ASSUME NEW Items, NEW depth, NEW rank, Encodable(Items, depth, rank),
         NEW W, NEW U, Weighed(Items, W, U), Agree(Items, W, U), AppendOther
  PROVE  Agree(Items, W, U)'
  <1> DEFINE x == Head(todo)
             kind == Schema[x.t].kind
             v == x.v
             p == PutUvarint(Len(v))
             m == MemoryOf(x)
  <1>0. pass = "append" /\ todo # << >>
    BY DEF AppendOther, Visit
  <1>1. W \in [Items -> Nat] /\ U \in [Items -> Nat] /\ x \in Items
    BY <1>0, AtHead
  <1>2. \/ kind \in { "fixed", "block" } /\ Push(v, << >>)
        \/ kind \in { "string", "bytes" } /\ Push(p \o v, << >>)
        \/ kind = "pointer" /\ v = << >> /\ Push(<<0>>, << >>)
        \/ kind = "pointer" /\ Push(<<1>>, ElementsOf(x))
        \/ kind = "struct" /\ Schema[x.t].bulk /\ Push(m, << >>)
        \/ kind = "struct" /\ Push(<< >>, FieldsOf(x))
    BY Here DEF AppendOther
  <1>3. /\ kind \in { "fixed", "block" } => v \in Seq(Nat) /\ Share(Items, W, U, x, Len(v), << >>)
        /\ kind \in { "string", "bytes" } =>
             v \in Seq(Nat) /\ p \in Seq(Nat) /\ Share(Items, W, U, x, Len(p) + Len(v), << >>)
    BY <1>1, BasicShares
  <1>4. /\ kind = "pointer" => Share(Items, W, U, x, 1, ElementsOf(x))
        /\ kind = "pointer" /\ v = << >> => Share(Items, W, U, x, 1, << >>)
    BY <1>1, PointerShares
  <1>5. /\ kind = "struct" => Share(Items, W, U, x, 0, FieldsOf(x))
        /\ kind = "struct" /\ Schema[x.t].bulk =>
             m \in Seq(Nat) /\ Share(Items, W, U, x, Len(m), << >>)
    BY <1>1, StructShares
  <1>e. << >> \in Seq(Nat) /\ Len(<< >>) = 0
    OBVIOUS
  <1>6. <<0>> \in Seq(Nat) /\ <<1>> \in Seq(Nat) /\ Len(<<0>>) = 1 /\ Len(<<1>>) = 1
    OBVIOUS
  <1> HIDE DEF x, kind, v, p, m
  <1>7. kind \in { "string", "bytes" } =>
          p \o v \in Seq(Nat) /\ Share(Items, W, U, x, Len(p \o v), << >>)
    BY <1>3, ConcatProperties
  <1>w. \E bytes \in Seq(Nat) : \E more :
          Share(Items, W, U, x, Len(bytes), more) /\ Push(bytes, more)
    BY <1>2, <1>3, <1>4, <1>5, <1>6, <1>7, <1>e
  <1> QED
    BY <1>0, <1>1, <1>w, PushStep DEF x

\* A union of an undeclared type is met by Size, or not at all.
LEMMA NotAMemberStep ==
  ASSUME NEW Items, NEW depth, NEW rank, Encodable(Items, depth, rank),
         NEW W, NEW U, Weighed(Items, W, U), Agree(Items, W, U), NotAMember
  PROVE  Agree(Items, W, U)'
  <1> DEFINE x == Head(todo)
  <1>0. /\ pass # "panic" /\ todo # << >> /\ Schema[x.t].kind = "union"
        /\ ~ (x.v[1] <= Len(Schema[x.t].elems))
        /\ pass' = "panic" /\ UNCHANGED <<root, val, todo, size, buf, i, out, before>>
    BY Here DEF NotAMember
  <1>1. W \in [Items -> Nat] /\ U \in [Items -> Nat] /\ x \in Items
    BY <1>0, AtHead
  <1>2. U[x] > 0
    BY <1>0, <1>1, UnionShares
  <1>3. todo \in Seq(Items) /\ pass \in { "size", "marshal", "append", "done", "panic" }
    BY DEF Agree, Typed
  <1>4. Load(U, todo) = U[x] + Load(U, Tail(todo)) /\ U[x] \in Nat /\ Load(U, Tail(todo)) \in Nat
    BY <1>0, <1>1, <1>3, LoadHead
  <1> HIDE DEF x
  <1>5. Load(U, todo) # 0
    BY <1>2, <1>4
  <1>6. pass = "size"
    BY <1>0, <1>3, <1>5 DEF Agree, Measured
  <1>7. buf = << >>
    BY <1>6 DEF Agree, Measuring
  <1> QED
    BY <1>0, <1>7, PanicStep

\* Size has returned: what Marshal has to put is what Size has counted.
LEMMA CallMarshalStep ==
  ASSUME NEW Items, NEW depth, NEW rank, Encodable(Items, depth, rank), Spare \in Nat,
         NEW W, NEW U, Weighed(Items, W, U), Agree(Items, W, U), CallMarshal
  PROVE  Agree(Items, W, U)'
  <1>0. /\ pass = "size" /\ todo = << >> /\ pass' = "marshal" /\ todo' = <<Whole>>
        /\ root' = root /\ val' = val /\ size' = size /\ i' = i /\ out' = out /\ before' = before
    BY DEF CallMarshal, Whole
  <1>1. Typed(Items) /\ Measuring(W, U)
    BY DEF Agree
  <1>2. size \in Nat /\ Whole \in Items
    BY <1>1 DEF Typed
  <1>3. W \in [Items -> Nat] /\ U \in [Items -> Nat]
    BY AtHead
  <1>4. PICK n \in (size - Spare) .. (size + Spare) : n >= 0 /\ buf' = [k \in 1 .. n |-> Fill]
    BY DEF CallMarshal
  <1>5. n \in Nat
    BY <1>2, <1>4
  <1>6. IsSeq(buf') /\ Len(buf') = n /\ \A k \in 1 .. n : buf'[k] = Fill
    BY <1>4, <1>5 DEF IsSeq
  <1>w. Whole' = Whole
    BY <1>0 DEF Whole
  <1>7. Typed(Items)'
    <2>1. <<Whole>> \in Seq(Items)
      BY <1>2
    <2> QED
      BY <1>0, <1>1, <1>6, <1>w, <2>1 DEF Typed
  <1>8. size = W[Whole] /\ U[Whole] = 0 /\ i = 0 /\ out = << >> /\ before = << >>
    <2>1. /\ size + Load(W, todo) = W[Whole] /\ Load(U, todo) = U[Whole]
          /\ i = 0 /\ out = << >> /\ before = << >>
      BY <1>0, <1>1 DEF Measuring
    <2>2. Load(W, todo) = 0 /\ Load(U, todo) = 0
      BY <1>0, LoadEmpty
    <2> QED
      BY <1>2, <2>1, <2>2
  <1>9. Load(W, todo') = W[Whole] /\ Load(U, todo') = U[Whole]
    BY <1>0, <1>2, <1>3, LoadOne
  <1>10. Measured(W, U)'
    BY <1>0, <1>8, <1>9, <1>w DEF Measured
  <1>11. Marshalling(W)'
    <2>1. 0 + size = size
      BY <1>2
    <2> QED
      BY <1>0, <1>8, <1>9, <2>1 DEF Marshalling
  <1>12. Behind'
    <2> SUFFICES ASSUME NEW k \in (size + 1) .. n
                 PROVE  buf'[k] = Fill
      BY <1>0, <1>6 DEF Behind
    <2>1. k \in 1 .. n
      BY <1>2, <1>5
    <2> QED
      BY <1>6, <2>1
  <1>13. Ahead'
    BY <1>0, <1>8, EmptyBuffer DEF Ahead
  <1>14. Measuring(W, U)' /\ Appending(W)' /\ Panicked'
    BY <1>0 DEF Measuring, Appending, Panicked
  <1> QED
    BY <1>7, <1>10, <1>11, <1>12, <1>13, <1>14 DEF Agree

LEMMA CallAppendStep ==
  ASSUME NEW Items, NEW depth, NEW rank, Encodable(Items, depth, rank), Before \subseteq Seq(Nat),
         NEW W, NEW U, Weighed(Items, W, U), Agree(Items, W, U), CallAppend
  PROVE  Agree(Items, W, U)'
  <1>0. /\ pass = "marshal" /\ todo = << >> /\ pass' = "append" /\ todo' = <<Whole>>
        /\ before' \in Seq(Nat) /\ out' = before'
        /\ root' = root /\ val' = val /\ size' = size /\ buf' = buf /\ i' = i
    BY DEF CallAppend, Whole
  <1>1. Typed(Items) /\ Measured(W, U) /\ Marshalling(W) /\ Behind
    BY DEF Agree
  <1>2. size \in Nat /\ i \in Nat /\ Whole \in Items
    BY <1>1 DEF Typed
  <1>3. W \in [Items -> Nat] /\ U \in [Items -> Nat]
    BY AtHead
  <1>w. Whole' = Whole
    BY <1>0 DEF Whole
  <1>4. Typed(Items)'
    <2>1. <<Whole>> \in Seq(Items)
      BY <1>2
    <2> QED
      BY <1>0, <1>1, <1>w, <2>1 DEF Typed
  <1>5. size = W[Whole] /\ U[Whole] = 0
    BY <1>0, <1>1 DEF Measured
  <1>6. Load(W, todo') = W[Whole] /\ Load(U, todo') = U[Whole]
    BY <1>0, <1>2, <1>3, LoadOne
  <1>7. Measured(W, U)'
    BY <1>0, <1>5, <1>6, <1>w DEF Measured
  <1>8. Marshalling(W)'
    <2>1. Len(buf) >= size => i + Load(W, todo) = size
      BY <1>0, <1>1 DEF Marshalling
    <2>2. Load(W, todo) = 0
      BY <1>0, LoadEmpty
    <2>3. Len(buf) >= size => i = size
      BY <1>2, <2>1, <2>2
    <2> QED
      BY <1>0, <2>3 DEF Marshalling
  <1>9. Appending(W)'
    BY <1>0, <1>5, <1>6 DEF Appending
  <1>10. Behind'
    BY <1>0, <1>1 DEF Behind
  <1>11. Ahead'
    <2>1. Len(before') <= Len(before')
      <3> DEFINE l == Len(before')
      <3>1. l \in Nat
        BY <1>0
      <3> HIDE DEF l
      <3>2. l <= l
        BY <3>1
      <3> QED
        BY <3>2 DEF l
    <2> QED
      BY <1>0, <2>1 DEF Ahead
  <1>12. Measuring(W, U)' /\ Panicked'
    BY <1>0 DEF Measuring, Panicked
  <1> QED
    BY <1>4, <1>7, <1>8, <1>9, <1>10, <1>11, <1>12 DEF Agree

LEMMA FinishStep ==
  ASSUME NEW Items, NEW W, NEW U, Agree(Items, W, U), Finish
  PROVE  Agree(Items, W, U)'
  <1>0. /\ pass = "append" /\ todo = << >> /\ pass' = "done"
        /\ root' = root /\ val' = val /\ todo' = todo /\ size' = size /\ buf' = buf /\ i' = i
        /\ out' = out /\ before' = before
    BY DEF Finish
  <1>1. /\ Typed(Items) /\ Measured(W, U) /\ Marshalling(W) /\ Appending(W) /\ Behind /\ Ahead
    BY DEF Agree
  <1>w. Whole' = Whole
    BY <1>0 DEF Whole
  <1>2. Typed(Items)'
    BY <1>0, <1>1, <1>w DEF Typed
  <1>3. Appending(W)'
    <2>1. Len(out) + Load(W, todo) = Len(before) + size /\ Load(W, todo) = 0
      BY <1>0, <1>1, LoadEmpty DEF Appending
    <2>2. Len(out) \in Nat
      BY <1>1 DEF Typed
    <2>3. Len(out) = Len(before) + size
      BY <2>1, <2>2
    <2> QED
      BY <1>0, <2>3 DEF Appending
  <1>4. Measured(W, U)' /\ Marshalling(W)' /\ Behind' /\ Ahead'
    BY <1>0, <1>1, <1>w DEF Measured, Marshalling, Behind, Ahead
  <1>5. Measuring(W, U)' /\ Panicked'
    BY <1>0 DEF Measuring, Panicked
  <1> QED
    BY <1>2, <1>3, <1>4, <1>5 DEF Agree

LEMMA AgreeNext ==
  ASSUME NEW Items, NEW depth, NEW rank, Encodable(Items, depth, rank),
         Spare \in Nat, Before \subseteq Seq(Nat),
         NEW W, NEW U, Weighed(Items, W, U), Agree(Items, W, U), Next
  PROVE  Agree(Items, W, U)'
  <1>1. CASE SizeSlice \/ SizeArray \/ SizeMap \/ SizeUnion \/ SizeOther
    BY <1>1, SizeSliceStep, SizeArrayStep, SizeMapStep, SizeUnionStep, SizeOtherStep
  <1>2. CASE \/ MarshalSlice \/ MarshalArray \/ MarshalMap \/ MarshalUnion
             \/ MarshalStruct \/ MarshalOther
    BY <1>2, MarshalSliceStep, MarshalArrayStep, MarshalMapStep, MarshalUnionStep,
       MarshalStructStep, MarshalOtherStep
  <1>3. CASE AppendSlice \/ AppendArray \/ AppendMap \/ AppendUnion \/ AppendOther
    BY <1>3, AppendSliceStep, AppendArrayStep, AppendMapStep, AppendUnionStep, AppendOtherStep
  <1>4. CASE NotAMember \/ CallMarshal \/ CallAppend \/ Finish
    BY <1>4, NotAMemberStep, CallMarshalStep, CallAppendStep, FinishStep
  <1> QED
    BY <1>1, <1>2, <1>3, <1>4 DEF Next

LEMMA AgreeStutters ==
  ASSUME NEW Items, NEW W, NEW U, Agree(Items, W, U), UNCHANGED vars
  PROVE  Agree(Items, W, U)'
  <1>1. /\ root' = root /\ val' = val /\ pass' = pass /\ todo' = todo /\ size' = size
        /\ buf' = buf /\ i' = i /\ out' = out /\ before' = before
    BY DEF vars
  <1>w. Whole' = Whole
    BY <1>1 DEF Whole
  <1>2. Typed(Items)'
    BY <1>1, <1>w DEF Agree, Typed
  <1>3. Measuring(W, U)' /\ Measured(W, U)' /\ Marshalling(W)' /\ Appending(W)'
    BY <1>1, <1>w DEF Agree, Measuring, Measured, Marshalling, Appending
  <1>4. Panicked' /\ Behind' /\ Ahead'
    BY <1>1 DEF Agree, Panicked, Behind, Ahead
  <1> QED
    BY <1>2, <1>3, <1>4 DEF Agree

\* What the invariant says of the properties of Encoder.
LEMMA AgreeSays ==
  ASSUME NEW Items, NEW W, NEW U, Agree(Items, W, U)
  PROVE  SizeExact /\ NoPanicInSize /\ WritesInPlace /\ AppendsSize
  <1>1. SizeExact
    BY DEF Agree, Marshalling, SizeExact, Marshalled
  <1>2. NoPanicInSize
    BY DEF Agree, Panicked, NoPanicInSize
  <1>3. AppendsSize
    BY DEF Agree, Appending, AppendsSize
  <1>4. out \in Seq(Nat) /\ before \in Seq(Nat) /\ Behind /\ Ahead
    BY DEF Agree, Typed
  <1>5. SubSeq(out, 1, Len(before)) = before
    <2> DEFINE n == Len(before)
               P == SubSeq(out, 1, n)
    <2>1. n \in Nat /\ n <= Len(out) /\ \A k \in 1 .. n : out[k] = before[k]
      BY <1>4 DEF Ahead
    <2> HIDE DEF n
    <2>2. P \in Seq(Nat) /\ Len(P) = n
      BY <1>4, <2>1, CopiedIs
    <2>3. Len(out) \in Nat
      BY <1>4
    <2>4. ASSUME NEW k \in 1 .. n
          PROVE  P[k] = before[k]
      <3>1. P[k] = out[1 + k - 1]
        BY <1>4, <2>1, <2>2, <2>3, SubSeqProperties
      <3>2. 1 + k - 1 = k
        BY <2>1
      <3> QED
        BY <2>1, <3>1, <3>2
    <2> HIDE DEF P
    <2>5. P = before
      <3>1. Len(before) = n
        BY DEF n
      <3> QED
        BY <1>4, <2>2, <2>4, <3>1, SeqEqual
    <2> QED
      BY <2>5 DEF P, n
  <1>6. WritesInPlace
    BY <1>4, <1>5 DEF WritesInPlace, Behind
  <1> QED
    BY <1>1, <1>2, <1>3, <1>6

-----------------------------------------------------------------------------
(***************************************************************************)
(* What one step of Marshal or Append writes of the value it visits: the   *)
(* bytes, what is left to visit of it, and, to compare with what Unmarshal *)
(* reads, the parts that EncodeDecode records.  fast is the mode.          *)
(***************************************************************************)
Copied(fast, x) == fast /\ Schema[x.t].bulk

BasicTurn(x, bytes, more) ==
  /\ more = << >>
  /\ \/ Schema[x.t].kind \in { "fixed", "block" } /\ bytes = x.v
     \/ Schema[x.t].kind \in { "string", "bytes" } /\ bytes = PutUvarint(Len(x.v)) \o x.v

SliceTurn(fast, x, bytes, more) ==
  /\ Schema[x.t].kind = "slice"
  /\ \/ Copied(fast, x) /\ bytes = PutUvarint(Len(x.v)) \o MemoryOf(x) /\ more = << >>
     \/ ~Copied(fast, x) /\ bytes = PutUvarint(Len(x.v)) /\ more = ElementsOf(x)

ArrayTurn(fast, x, bytes, more) ==
  /\ Schema[x.t].kind = "array"
  /\ \/ /\ Copied(fast, x) /\ Schema[x.t].size > 0
        /\ bytes = MemoryOf(x) /\ more = << >>
     \/ /\ ~ (Copied(fast, x) /\ Schema[x.t].size > 0)
        /\ bytes = << >> /\ more = ElementsOf(x)

StructTurn(fast, x, bytes, more) ==
  /\ Schema[x.t].kind = "struct"
  /\ \/ Copied(fast, x) /\ bytes = MemoryOf(x) /\ more = << >>
     \/ ~Copied(fast, x) /\ bytes = << >> /\ more = FieldsOf(x)

PointerTurn(x, bytes, more) ==
  /\ Schema[x.t].kind = "pointer" /\ more = ElementsOf(x)
  /\ \/ x.v = << >> /\ bytes = <<0>>
     \/ x.v # << >> /\ bytes = <<1>>

MapTurn(x, bytes, more) ==
  /\ Schema[x.t].kind = "map" /\ bytes = PutUvarint(Cardinality(x.v))
  /\ \E s \in SetToSeqs(x.v) : more = EntriesOf(x, s)

UnionTurn(x, bytes, more) ==
  /\ Schema[x.t].kind = "union" /\ x.v[1] <= Len(Schema[x.t].elems)
  /\ bytes = PutUvarint(x.v[1])
  /\ \/ x.v[1] = 0 /\ more = << >>
     \/ x.v[1] # 0 /\ more = MemberOf(x)

Turn(fast, x, bytes, more) ==
  \/ BasicTurn(x, bytes, more) \/ SliceTurn(fast, x, bytes, more)
  \/ ArrayTurn(fast, x, bytes, more) \/ StructTurn(fast, x, bytes, more)
  \/ PointerTurn(x, bytes, more) \/ MapTurn(x, bytes, more) \/ UnionTurn(x, bytes, more)

PartsOf(fast, x) ==
  LET kind == Schema[x.t].kind
      memory == <<MemoryOf(x)>>
  IN  IF kind \in { "fixed", "block", "string", "bytes" } THEN <<x.v>>
      ELSE IF kind = "slice"
        THEN IF Copied(fast, x) /\ x.v # << >>
               THEN <<<<Len(x.v)>>>> \o memory ELSE <<<<Len(x.v)>>>>
      ELSE IF kind = "array"
        THEN IF Copied(fast, x) /\ Len(x.v) > 0 THEN memory ELSE << >>
      ELSE IF kind = "struct" THEN IF Copied(fast, x) THEN memory ELSE << >>
      ELSE IF kind = "pointer" THEN <<<<Len(x.v)>>>>
      ELSE IF kind = "map" THEN <<<<Cardinality(x.v)>>>>
      ELSE <<<<x.v[1]>>>>

\* What a step writes is the share of the value it visits.
LEMMA TurnShares ==
  ASSUME NEW Items, NEW depth, NEW rank, Encodable(Items, depth, rank),
         NEW W, NEW U, Weighed(Items, W, U), NEW x \in Items,
         NEW fast, NEW bytes, NEW more, Turn(fast, x, bytes, more)
  PROVE  bytes \in Seq(Nat) /\ Share(Items, W, U, x, Len(bytes), more)
  <1> DEFINE s == Schema[x.t]
             p == PutUvarint(Len(x.v))
             m == MemoryOf(x)
  <1>1. CASE BasicTurn(x, bytes, more)
    <2>1. /\ s.kind \in { "fixed", "block" } =>
               x.v \in Seq(Nat) /\ Share(Items, W, U, x, Len(x.v), << >>)
          /\ s.kind \in { "string", "bytes" } =>
               /\ x.v \in Seq(Nat) /\ p \in Seq(Nat)
               /\ Share(Items, W, U, x, Len(p) + Len(x.v), << >>)
      BY BasicShares
    <2> HIDE DEF s, p
    <2>2. s.kind \in { "string", "bytes" } =>
            p \o x.v \in Seq(Nat) /\ Share(Items, W, U, x, Len(p \o x.v), << >>)
      BY <2>1, ConcatProperties
    <2> QED
      BY <1>1, <2>1, <2>2 DEF BasicTurn, s, p
  <1>2. CASE SliceTurn(fast, x, bytes, more)
    <2>0. s.kind = "slice"
      BY <1>2 DEF SliceTurn
    <2>1. /\ p \in Seq(Nat) /\ Share(Items, W, U, x, Len(p), ElementsOf(x))
          /\ s.bulk => m \in Seq(Nat) /\ Share(Items, W, U, x, Len(p) + Len(m), << >>)
      BY <2>0, SliceShares
    <2> HIDE DEF s, p, m
    <2>2. s.bulk => p \o m \in Seq(Nat) /\ Share(Items, W, U, x, Len(p \o m), << >>)
      BY <2>1, ConcatProperties
    <2> QED
      BY <1>2, <2>1, <2>2 DEF SliceTurn, Copied, s, p, m
  <1>e. << >> \in Seq(Nat) /\ Len(<< >>) = 0
    OBVIOUS
  <1>3. CASE ArrayTurn(fast, x, bytes, more)
    <2>0. s.kind = "array"
      BY <1>3 DEF ArrayTurn
    <2>1. /\ Share(Items, W, U, x, 0, ElementsOf(x))
          /\ s.bulk => m \in Seq(Nat) /\ Share(Items, W, U, x, Len(m), << >>)
      BY <2>0, ArrayShares
    <2> HIDE DEF s, m
    <2> QED
      BY <1>3, <1>e, <2>1 DEF ArrayTurn, Copied, s, m
  <1>4. CASE StructTurn(fast, x, bytes, more)
    <2>0. s.kind = "struct"
      BY <1>4 DEF StructTurn
    <2>1. /\ Share(Items, W, U, x, 0, FieldsOf(x))
          /\ s.bulk => m \in Seq(Nat) /\ Share(Items, W, U, x, Len(m), << >>)
      BY <2>0, StructShares
    <2> HIDE DEF s, m
    <2> QED
      BY <1>4, <1>e, <2>1 DEF StructTurn, Copied, s, m
  <1>5. CASE PointerTurn(x, bytes, more)
    <2>1. Share(Items, W, U, x, 1, ElementsOf(x))
      BY <1>5, PointerShares DEF PointerTurn
    <2>2. <<0>> \in Seq(Nat) /\ <<1>> \in Seq(Nat) /\ Len(<<0>>) = 1 /\ Len(<<1>>) = 1
      OBVIOUS
    <2> QED
      BY <1>5, <2>1, <2>2 DEF PointerTurn
  <1>6. CASE MapTurn(x, bytes, more)
    BY <1>6, MapShares DEF MapTurn
  <1>7. CASE UnionTurn(x, bytes, more)
    BY <1>7, UnionShares DEF UnionTurn
  <1> QED
    BY <1>1, <1>2, <1>3, <1>4, <1>5, <1>6, <1>7 DEF Turn

LEMMA PartsTyped ==
  ASSUME NEW Items, NEW depth, NEW rank, Encodable(Items, depth, rank), NEW x \in Items,
         NEW fast, NEW bytes, NEW more, Turn(fast, x, bytes, more)
  PROVE  PartsOf(fast, x) \in Seq(Seq(Nat))
  <1> DEFINE s == Schema[x.t]
             m == MemoryOf(x)
  <1>0. Trees(Items, depth) /\ WellFormed(x)
    BY ItemIs DEF Encodable
  <1>1. CASE s.kind \in { "fixed", "block", "string", "bytes" }
    <2>1. x.v \in Seq(Nat)
      BY <1>0, <1>1 DEF WellFormed
    <2> QED
      BY <1>1, <2>1 DEF PartsOf
  <1>2. CASE s.kind \in { "slice", "array" }
    <2>1. Len(x.v) \in Nat /\ <<Len(x.v)>> \in Seq(Nat)
      BY <1>0, <1>2, ElementsAre
    <2>2. Copied(fast, x) => m \in Seq(Nat)
      BY <1>2, MemoryIs DEF Copied
    <2>3. /\ <<<<Len(x.v)>>>> \in Seq(Seq(Nat)) /\ << >> \in Seq(Seq(Nat))
          /\ Copied(fast, x) => <<m>> \in Seq(Seq(Nat)) /\ <<<<Len(x.v)>>>> \o <<m>> \in Seq(Seq(Nat))
      BY <2>1, <2>2
    <2> QED
      BY <1>2, <2>3 DEF PartsOf
  <1>3. CASE s.kind = "struct"
    <2>1. Copied(fast, x) => m \in Seq(Nat)
      BY <1>3, MemoryIs DEF Copied
    <2>2. << >> \in Seq(Seq(Nat)) /\ (Copied(fast, x) => <<m>> \in Seq(Seq(Nat)))
      BY <2>1
    <2> QED
      BY <1>3, <2>2 DEF PartsOf
  <1>4. CASE s.kind = "pointer"
    <2>1. <<Len(x.v)>> \in Seq(Nat)
      BY <1>0, <1>4, ElementsAre
    <2> QED
      BY <1>4, <2>1 DEF PartsOf
  <1>5. CASE s.kind = "map"
    <2>1. Cardinality(x.v) \in Nat
      BY <1>0, <1>5, FS_CardinalityType DEF WellFormed
    <2> QED
      BY <1>5, <2>1 DEF PartsOf
  <1>6. CASE s.kind = "union"
    <2>1. x.v[1] \in Nat
      BY <1>0, <1>6 DEF WellFormed
    <2> QED
      BY <1>6, <2>1 DEF PartsOf
  <1>7. s.kind \in { "fixed", "block", "string", "bytes", "slice", "array", "struct", "pointer",
                     "map", "union" }
    BY DEF Turn, BasicTurn, SliceTurn, ArrayTurn, StructTurn, PointerTurn, MapTurn, UnionTurn
  <1> QED
    BY <1>1, <1>2, <1>3, <1>4, <1>5, <1>6, <1>7

\* The types of what is left to visit.
Kinds(s) == [k \in 1 .. Len(s) |-> s[k].t]

LEMMA KindsOfElements ==
  ASSUME NEW Items, NEW depth, Trees(Items, depth), NEW x \in Items,
         Schema[x.t].kind \in { "slice", "array", "pointer" }
  PROVE  Kinds(ElementsOf(x)) = [k \in 1 .. Len(x.v) |-> Schema[x.t].elems[1]]
  <1> DEFINE E == ElementsOf(x)
             n == Len(x.v)
             e == Schema[x.t].elems[1]
  <1>0. Len(E) = n /\ \A k \in 1 .. n : E[k] = Item(e, x.v[k])
    BY ElementsAre
  <1>1. Len(E) = n /\ \A k \in 1 .. n : E[k].t = e
    BY <1>0, ItemOf
  <1> HIDE DEF E, n, e
  <1>2. Kinds(E) = [k \in 1 .. n |-> E[k].t]
    BY <1>1 DEF Kinds
  <1>3. Kinds(E) = [k \in 1 .. n |-> e]
    BY <1>1, <1>2
  <1> QED
    BY <1>3 DEF E, n, e

LEMMA KindsOfFields ==
  ASSUME NEW Items, NEW depth, Trees(Items, depth), Schemas, NEW x \in Items,
         Schema[x.t].kind = "struct"
  PROVE  Kinds(FieldsOf(x)) = Schema[x.t].elems
  <1> DEFINE F == FieldsOf(x)
             e == Schema[x.t].elems
  <1>0. Len(F) = Len(e) /\ \A k \in 1 .. Len(e) : F[k] = Item(e[k], x.v[k])
    BY FieldsAre
  <1>1. Len(F) = Len(e) /\ \A k \in 1 .. Len(e) : F[k].t = e[k]
    BY <1>0, ItemOf
  <1>2. e \in Seq(Type)
    BY SchemaIs, ItemIs
  <1> HIDE DEF F, e
  <1>3. Kinds(F) = [k \in 1 .. Len(e) |-> F[k].t]
    BY <1>1 DEF Kinds
  <1>4. Kinds(F) = [k \in 1 .. Len(e) |-> e[k]]
    BY <1>1, <1>3
  <1>5. e = [k \in 1 .. Len(e) |-> e[k]]
    BY <1>2
  <1> QED
    BY <1>4, <1>5 DEF F, e

LEMMA KindsOfEntries ==
  ASSUME NEW Items, NEW depth, Trees(Items, depth), NEW x \in Items,
         Schema[x.t].kind = "map", NEW s \in SetToSeqs(x.v)
  PROVE  /\ Cardinality(x.v) \in Nat
         /\ Kinds(EntriesOf(x, s)) =
              [k \in 1 .. (2 * Cardinality(x.v)) |-> Schema[x.t].elems[2 - (k % 2)]]
  <1>1. Len(EntriesOf(x, s)) = 2 * Len(s) /\ IsFiniteSet(x.v)
    BY EntriesAre
  <1>2. Len(s) = Cardinality(x.v) /\ Cardinality(x.v) \in Nat
    BY <1>1, OrderIs
  <1>3. ASSUME NEW k \in 1 .. 2 * Len(s)
        PROVE  EntriesOf(x, s)[k].t = Schema[x.t].elems[2 - (k % 2)]
    BY DEF EntriesOf, Item
  <1> QED
    BY <1>1, <1>2, <1>3 DEF Kinds

LEMMA KindsOfMember ==
  ASSUME NEW x
  PROVE  Kinds(MemberOf(x)) = <<Schema[x.t].elems[x.v[1]]>>
  BY DEF Kinds, MemberOf, Item

LEMMA KindsOfNone == Kinds(<< >>) = << >>
  BY DEF Kinds

\* Neither of two sequences says anything the other one denies.
Compatible(P, Q) == \A k \in 1 .. Len(P) : k <= Len(Q) => P[k] = Q[k]

\* Two values of a type of which a step writes compatible parts have the same
\* parts, and the step writes the same bytes, and leaves the same types.
LEMMA Determined ==
  ASSUME NEW Items, NEW depth, NEW rank, Encodable(Items, depth, rank),
         NEW x \in Items, NEW y \in Items, x.t = y.t, NEW fast,
         NEW b, NEW m, Turn(fast, x, b, m), NEW c, NEW n, Turn(fast, y, c, n),
         Compatible(PartsOf(fast, x), PartsOf(fast, y))
  PROVE  b = c /\ Kinds(m) = Kinds(n) /\ PartsOf(fast, x) = PartsOf(fast, y)
  <1> DEFINE s == Schema[x.t]
             P == PartsOf(fast, x)
             Q == PartsOf(fast, y)
  <1>0. Trees(Items, depth) /\ Schemas /\ WellFormed(x) /\ WellFormed(y)
    BY ItemIs DEF Encodable
  <1>c. Len(P) >= 1 /\ Len(Q) >= 1 => P[1] = Q[1]
    <2>1. P \in Seq(Seq(Nat)) /\ Q \in Seq(Seq(Nat))
      BY PartsTyped
    <2> HIDE DEF P, Q
    <2> QED
      BY <2>1 DEF Compatible, P, Q
  <1>1. CASE s.kind \in { "fixed", "block", "string", "bytes" }
    <2>1. P = <<x.v>> /\ Q = <<y.v>>
      BY <1>1 DEF PartsOf
    <2>2. x.v = y.v
      BY <1>c, <2>1
    <2>3. BasicTurn(x, b, m) /\ BasicTurn(y, c, n)
      BY <1>1 DEF Turn, SliceTurn, ArrayTurn, StructTurn, PointerTurn, MapTurn, UnionTurn
    <2>4. b = c /\ m = n
      BY <1>1, <2>2, <2>3 DEF BasicTurn
    <2> QED
      BY <2>1, <2>2, <2>4
  <1>2. CASE s.kind = "slice"
    <2>1. SliceTurn(fast, x, b, m) /\ SliceTurn(fast, y, c, n)
      BY <1>2 DEF Turn, BasicTurn, ArrayTurn, StructTurn, PointerTurn, MapTurn, UnionTurn
    <2>2. /\ IsSeq(x.v) /\ IsSeq(y.v)
      BY <1>0, <1>2 DEF WellFormed
    <2>3. P[1] = <<Len(x.v)>> /\ Q[1] = <<Len(y.v)>> /\ Len(P) >= 1 /\ Len(Q) >= 1
      BY <1>2 DEF PartsOf
    <2>4. Len(x.v) = Len(y.v)
      BY <1>c, <2>3
    <2>5. x.v = << >> <=> y.v = << >>
      BY <2>2, <2>4 DEF IsSeq
    <2>6. Kinds(ElementsOf(x)) = Kinds(ElementsOf(y))
      BY <1>0, <1>2, <2>4, KindsOfElements
    <2>7. CASE ~Copied(fast, x)
      <3>1. ~Copied(fast, y)
        BY <2>7 DEF Copied
      <3>2. P = <<<<Len(x.v)>>>> /\ Q = <<<<Len(y.v)>>>>
        BY <1>2, <2>7, <3>1 DEF PartsOf
      <3> QED
        BY <2>1, <2>4, <2>6, <2>7, <3>1, <3>2 DEF SliceTurn
    <2>8. CASE Copied(fast, x)
      <3>1. Copied(fast, y) /\ s.bulk
        BY <2>8 DEF Copied
      <3>2. CASE x.v = << >>
        <4>1. x.v = y.v
          BY <2>5, <3>2
        <4>2. MemoryOf(x) = MemoryOf(y)
          BY <4>1 DEF MemoryOf
        <4>3. P = <<<<Len(x.v)>>>> /\ Q = <<<<Len(y.v)>>>>
          BY <1>2, <3>2, <4>1 DEF PartsOf
        <4> QED
          BY <2>1, <2>8, <3>1, <4>1, <4>2, <4>3 DEF SliceTurn
      <3>3. CASE x.v # << >>
        <4>1. P = <<<<Len(x.v)>>>> \o <<MemoryOf(x)>> /\ Q = <<<<Len(y.v)>>>> \o <<MemoryOf(y)>>
          BY <1>2, <2>5, <2>8, <3>1, <3>3 DEF PartsOf
        <4>2. /\ Len(P) = 2 /\ Len(Q) = 2 /\ P[2] = MemoryOf(x) /\ Q[2] = MemoryOf(y)
          BY <4>1
        <4>3. P[2] = Q[2]
          BY <4>2 DEF Compatible
        <4>4. MemoryOf(x) = MemoryOf(y)
          BY <4>2, <4>3
        <4> QED
          BY <2>1, <2>4, <2>8, <3>1, <4>1, <4>4 DEF SliceTurn
      <3> QED
        BY <3>2, <3>3
    <2> QED
      BY <2>7, <2>8
  <1>3. CASE s.kind = "array"
    <2>1. ArrayTurn(fast, x, b, m) /\ ArrayTurn(fast, y, c, n)
      BY <1>3 DEF Turn, BasicTurn, SliceTurn, StructTurn, PointerTurn, MapTurn, UnionTurn
    <2>2. Len(x.v) = s.size /\ Len(y.v) = s.size
      BY <1>0, <1>3, ElementsAre
    <2>3. Kinds(ElementsOf(x)) = Kinds(ElementsOf(y))
      BY <1>0, <1>3, <2>2, KindsOfElements
    <2>4. Copied(fast, x) <=> Copied(fast, y)
      BY DEF Copied
    <2>5. CASE Copied(fast, x) /\ s.size > 0
      <3>1. P = <<MemoryOf(x)>> /\ Q = <<MemoryOf(y)>>
        BY <1>3, <2>2, <2>4, <2>5 DEF PartsOf
      <3>2. MemoryOf(x) = MemoryOf(y)
        BY <1>c, <3>1
      <3> QED
        BY <2>1, <2>4, <2>5, <3>1, <3>2 DEF ArrayTurn
    <2>6. CASE ~ (Copied(fast, x) /\ s.size > 0)
      <3>1. P = << >> /\ Q = << >>
        BY <1>3, <2>2, <2>4, <2>6 DEF PartsOf
      <3> QED
        BY <2>1, <2>3, <2>4, <2>6, <3>1 DEF ArrayTurn
    <2> QED
      BY <2>5, <2>6
  <1>4. CASE s.kind = "struct"
    <2>1. StructTurn(fast, x, b, m) /\ StructTurn(fast, y, c, n)
      BY <1>4 DEF Turn, BasicTurn, SliceTurn, ArrayTurn, PointerTurn, MapTurn, UnionTurn
    <2>2. Kinds(FieldsOf(x)) = Kinds(FieldsOf(y))
      BY <1>0, <1>4, KindsOfFields
    <2>4. Copied(fast, x) <=> Copied(fast, y)
      BY DEF Copied
    <2>5. CASE Copied(fast, x)
      <3>1. P = <<MemoryOf(x)>> /\ Q = <<MemoryOf(y)>>
        BY <1>4, <2>4, <2>5 DEF PartsOf
      <3>2. MemoryOf(x) = MemoryOf(y)
        BY <1>c, <3>1
      <3> QED
        BY <2>1, <2>4, <2>5, <3>1, <3>2 DEF StructTurn
    <2>6. CASE ~Copied(fast, x)
      <3>1. P = << >> /\ Q = << >>
        BY <1>4, <2>4, <2>6 DEF PartsOf
      <3> QED
        BY <2>1, <2>2, <2>4, <2>6, <3>1 DEF StructTurn
    <2> QED
      BY <2>5, <2>6
  <1>5. CASE s.kind = "pointer"
    <2>1. PointerTurn(x, b, m) /\ PointerTurn(y, c, n)
      BY <1>5 DEF Turn, BasicTurn, SliceTurn, ArrayTurn, StructTurn, MapTurn, UnionTurn
    <2>2. P = <<<<Len(x.v)>>>> /\ Q = <<<<Len(y.v)>>>>
      BY <1>5 DEF PartsOf
    <2>3. Len(x.v) = Len(y.v)
      BY <1>c, <2>2
    <2>4. IsSeq(x.v) /\ IsSeq(y.v)
      BY <1>0, <1>5 DEF WellFormed
    <2>5. x.v = << >> <=> y.v = << >>
      BY <2>3, <2>4 DEF IsSeq
    <2>6. Kinds(ElementsOf(x)) = Kinds(ElementsOf(y))
      BY <1>0, <1>5, <2>3, KindsOfElements
    <2> QED
      BY <2>1, <2>2, <2>3, <2>5, <2>6 DEF PointerTurn
  <1>6. CASE s.kind = "map"
    <2>1. MapTurn(x, b, m) /\ MapTurn(y, c, n)
      BY <1>6 DEF Turn, BasicTurn, SliceTurn, ArrayTurn, StructTurn, PointerTurn, UnionTurn
    <2>2. P = <<<<Cardinality(x.v)>>>> /\ Q = <<<<Cardinality(y.v)>>>>
      BY <1>6 DEF PartsOf
    <2>3. Cardinality(x.v) = Cardinality(y.v)
      BY <1>c, <2>2
    <2>4. PICK u \in SetToSeqs(x.v) : m = EntriesOf(x, u)
      BY <2>1 DEF MapTurn
    <2>5. PICK v \in SetToSeqs(y.v) : n = EntriesOf(y, v)
      BY <2>1 DEF MapTurn
    <2>6. Kinds(m) = Kinds(n)
      BY <1>0, <1>6, <2>3, <2>4, <2>5, KindsOfEntries
    <2> QED
      BY <2>1, <2>2, <2>3, <2>6 DEF MapTurn
  <1>7. CASE s.kind = "union"
    <2>1. UnionTurn(x, b, m) /\ UnionTurn(y, c, n)
      BY <1>7 DEF Turn, BasicTurn, SliceTurn, ArrayTurn, StructTurn, PointerTurn, MapTurn
    <2>2. P = <<<<x.v[1]>>>> /\ Q = <<<<y.v[1]>>>>
      BY <1>7 DEF PartsOf
    <2>3. x.v[1] = y.v[1]
      BY <1>c, <2>2
    <2>4. Kinds(MemberOf(x)) = Kinds(MemberOf(y))
      BY <2>3, KindsOfMember
    <2> QED
      BY <2>1, <2>2, <2>3, <2>4 DEF UnionTurn
  <1>8. s.kind \in { "fixed", "block", "string", "bytes", "slice", "array", "struct", "pointer",
                     "map", "union" }
    BY DEF Turn, BasicTurn, SliceTurn, ArrayTurn, StructTurn, PointerTurn, MapTurn, UnionTurn
  <1> QED
    BY <1>1, <1>2, <1>3, <1>4, <1>5, <1>6, <1>7, <1>8

-----------------------------------------------------------------------------
(***************************************************************************)
(* With Size bytes, each step of Marshal puts what it writes behind what   *)
(* is written already, and each step of Append appends it.                 *)
(***************************************************************************)
First(b, n) == [k \in 1 .. n |-> b[k]]

Placed(bytes, more) ==
  /\ todo' = more \o Tail(todo) /\ UNCHANGED <<root, val, pass, size, out, before>>
  /\ i' = i + Len(bytes)
  /\ First(buf, i) \in Seq(Nat) => First(buf', i') = First(buf, i) \o bytes

LEMMA FirstOver ==
  ASSUME NEW b, NEW o \in Nat, NEW bytes \in Seq(Nat), Len(b) \in Nat, o + Len(bytes) <= Len(b),
         First(b, o) \in Seq(Nat)
  PROVE  First(Over(b, o, bytes), o + Len(bytes)) = First(b, o) \o bytes
  <1> DEFINE c == Over(b, o, bytes)
             l == Len(bytes)
             F == First(b, o)
             G == First(c, o + l)
  <1>1. l \in Nat /\ Len(F) = o /\ \A k \in 1 .. o : F[k] = b[k]
    BY DEF First
  <1>2. \A k \in 1 .. Len(b) : c[k] = IF k \in (o + 1) .. (o + l) THEN bytes[k - o] ELSE b[k]
    BY DEF Over
  <1>3. G = [k \in 1 .. (o + l) |-> c[k]]
    BY DEF First
  <1>4. /\ F \o bytes \in Seq(Nat) /\ Len(F \o bytes) = Len(F) + l
        /\ \A k \in 1 .. Len(F) + l :
             (F \o bytes)[k] = IF k <= Len(F) THEN F[k] ELSE bytes[k - Len(F)]
    BY ConcatProperties
  <1>f. o + l <= Len(b)
    OBVIOUS
  <1> HIDE DEF c, l, F, G
  <1>5. ASSUME NEW k \in 1 .. o + l
        PROVE  c[k] = (F \o bytes)[k]
    <2>1. k \in 1 .. Len(b) /\ k \in 1 .. Len(F) + l
      BY <1>1, <1>f
    <2>2. CASE k <= o
      <3>1. k \notin (o + 1) .. (o + l) /\ k \in 1 .. o
        BY <1>1, <2>2
      <3> QED
        BY <1>1, <1>2, <1>4, <2>1, <2>2, <3>1
    <2>3. CASE ~ (k <= o)
      <3>1. k \in (o + 1) .. (o + l)
        BY <1>1, <2>3
      <3> QED
        BY <1>1, <1>2, <1>4, <2>1, <2>3, <3>1
    <2> QED
      BY <2>2, <2>3
  <1>6. F \o bytes = [k \in 1 .. (o + l) |-> (F \o bytes)[k]]
    <2> DEFINE H == F \o bytes
    <2>1. H \in Seq(Nat) /\ Len(H) = o + l
      BY <1>1, <1>4
    <2> HIDE DEF H
    <2>2. H = [k \in 1 .. Len(H) |-> H[k]]
      BY <2>1
    <2>3. H = [k \in 1 .. (o + l) |-> H[k]]
      BY <2>1, <2>2
    <2> QED
      BY <2>3 DEF H
  <1>7. G = F \o bytes
    BY <1>3, <1>5, <1>6
  <1> QED
    BY <1>7 DEF F, G, c, l

LEMMA WritePlaces ==
  ASSUME NEW Items, NEW W \in [Items -> Nat], NEW U \in [Items -> Nat], Agree(Items, W, U),
         pass = "marshal", todo # << >>, Len(buf) >= size,
         NEW bytes \in Seq(Nat), NEW copied \in Seq(Nat), NEW more,
         Share(Items, W, U, Head(todo), Len(bytes \o copied), more),
         Write(bytes, copied, more)
  PROVE  Placed(bytes \o copied, more)
  <1> DEFINE a == Len(bytes)
             c == Len(copied)
             n == IF c <= Room - a THEN c ELSE Room - a
  <1>1. a \in Nat /\ c \in Nat /\ bytes \o copied \in Seq(Nat) /\ Len(bytes \o copied) = a + c
    BY ConcatProperties
  <1>2. \/ /\ a <= Room
           /\ buf' = Over(buf, i, bytes \o SubSeq(copied, 1, n)) /\ i' = i + a + n
           /\ todo' = more \o Tail(todo)
           /\ UNCHANGED <<root, val, pass, size, out, before>>
        \/ a > Room
    BY DEF Write
  <1> DEFINE both == bytes \o copied
  <1>s. Share(Items, W, U, Head(todo), Len(both), more)
    OBVIOUS
  <1> HIDE DEF a, c, both
  <1>3. /\ Room \in Int /\ i \in Nat /\ Len(buf) \in Nat /\ Room = Len(buf) - i
        /\ Len(both) <= Room
    <2> DEFINE l == Len(both)
    <2>1. Share(Items, W, U, Head(todo), l, more)
      BY <1>s
    <2> HIDE DEF l
    <2>2. /\ Room \in Int /\ i \in Nat /\ Len(buf) \in Nat /\ Room = Len(buf) - i
          /\ Len(buf) >= size => l <= Room
      BY <2>1, RoomIs
    <2> QED
      BY <2>2 DEF l
  <1>4. a <= Room /\ ~ (a > Room) /\ n = c
    BY <1>1, <1>3 DEF both
  <1> HIDE DEF n
  <1>w. /\ buf' = Over(buf, i, bytes \o SubSeq(copied, 1, n)) /\ i' = i + a + n
        /\ todo' = more \o Tail(todo)
        /\ UNCHANGED <<root, val, pass, size, out, before>>
    BY <1>2, <1>4
  <1>5. SubSeq(copied, 1, c) = copied
    BY <1>1 DEF c
  <1>6. buf' = Over(buf, i, both) /\ i' = i + Len(both)
    <2>1. buf' = Over(buf, i, bytes \o SubSeq(copied, 1, n)) /\ i' = i + a + n
      BY <1>w
    <2>2. SubSeq(copied, 1, n) = copied
      BY <1>4, <1>5
    <2>3. i + a + c = i + (a + c)
      BY <1>1, <1>3
    <2> QED
      BY <1>1, <1>4, <2>1, <2>2, <2>3 DEF both
  <1>7. i + Len(both) <= Len(buf) /\ both \in Seq(Nat)
    BY <1>1, <1>3 DEF both
  <1>8. First(buf, i) \in Seq(Nat) => First(buf', i') = First(buf, i) \o both
    BY <1>3, <1>6, <1>7, FirstOver
  <1>9. todo' = more \o Tail(todo) /\ UNCHANGED <<root, val, pass, size, out, before>>
    BY <1>w
  <1> QED
    BY <1>6, <1>8, <1>9 DEF Placed, both

\* What is put without a write.
LEMMA DescendPlaces ==
  ASSUME NEW Items, NEW W, NEW U, Agree(Items, W, U), NEW parts, Descend(parts)
  PROVE  Placed(<< >>, parts)
  <1>1. /\ todo' = parts \o Tail(todo)
        /\ UNCHANGED <<root, val, pass, size, buf, i, out, before>>
    BY DEF Descend
  <1>2. i \in Nat
    BY DEF Agree, Typed
  <1>3. i' = i + Len(<< >>)
    BY <1>1, <1>2
  <1>4. First(buf, i) \in Seq(Nat) => First(buf', i') = First(buf, i) \o << >>
    <2> DEFINE F == First(buf, i)
    <2>1. First(buf', i') = F
      BY <1>1
    <2> HIDE DEF F
    <2>2. F \in Seq(Nat) => F \o << >> = F
      OBVIOUS
    <2> QED
      BY <2>1, <2>2 DEF F
  <1> QED
    BY <1>1, <1>3, <1>4 DEF Placed

LEMMA CopyPlaces ==
  ASSUME NEW Items, NEW W \in [Items -> Nat], NEW U \in [Items -> Nat], Agree(Items, W, U),
         pass = "marshal", todo # << >>, Len(buf) >= size,
         NEW memory \in Seq(Nat), NEW raw, Len(memory) = raw,
         Share(Items, W, U, Head(todo), raw, << >>),
         buf' = Over(buf, i, SubSeq(memory, 1, Fits(memory))), i' = i + raw,
         todo' = Tail(todo), UNCHANGED <<root, val, pass, size, out, before>>
  PROVE  Placed(memory, << >>)
  <1>1. /\ Room \in Int /\ raw \in Nat /\ i \in Nat /\ Len(buf) \in Nat
        /\ Room = Len(buf) - i /\ raw <= Room
    BY RoomIs
  <1>2. Fits(memory) = raw
    BY <1>1 DEF Fits
  <1>3. SubSeq(memory, 1, raw) = memory
    OBVIOUS
  <1>4. buf' = Over(buf, i, memory) /\ i' = i + Len(memory) /\ i + Len(memory) <= Len(buf)
    <2>1. SubSeq(memory, 1, Fits(memory)) = memory
      BY <1>2, <1>3
    <2>2. i + raw <= Len(buf)
      BY <1>1
    <2> QED
      BY <2>1, <2>2
  <1>5. First(buf, i) \in Seq(Nat) => First(buf', i') = First(buf, i) \o memory
    BY <1>1, <1>4, FirstOver
  <1>6. todo' = << >> \o Tail(todo)
    <2>1. todo \in Seq(Items)
      BY DEF Agree, Typed
    <2>2. Tail(todo) \in Seq(Items)
      BY <2>1
    <2> QED
      BY <2>2
  <1> QED
    BY <1>4, <1>5, <1>6 DEF Placed

\* The value that is visited has no union of an undeclared type.
LEMMA IsMember ==
  ASSUME NEW Items, NEW depth, NEW rank, Encodable(Items, depth, rank),
         NEW W, NEW U, Weighed(Items, W, U), Agree(Items, W, U),
         pass \in { "marshal", "append" }
  PROVE  ~NotAMember
  <1> SUFFICES ASSUME NotAMember
               PROVE  FALSE
    OBVIOUS
  <1> DEFINE x == Head(todo)
  <1>0. todo # << >> /\ Schema[x.t].kind = "union" /\ ~ (x.v[1] <= Len(Schema[x.t].elems))
    BY Here DEF NotAMember
  <1>1. W \in [Items -> Nat] /\ U \in [Items -> Nat] /\ x \in Items
    BY <1>0, AtHead
  <1>2. U[x] > 0
    BY <1>0, <1>1, UnionShares
  <1>3. todo \in Seq(Items)
    BY DEF Agree, Typed
  <1>4. Load(U, todo) = U[x] + Load(U, Tail(todo)) /\ U[x] \in Nat /\ Load(U, Tail(todo)) \in Nat
    BY <1>0, <1>1, <1>3, LoadHead
  <1> HIDE DEF x
  <1>5. Load(U, todo) # 0
    BY <1>2, <1>4
  <1>6. Load(U, todo) = 0
    BY DEF Agree, Measured
  <1> QED
    BY <1>5, <1>6

\* A write of Marshal is a turn of the value it visits.
Puts(fast, x) ==
  \/ \E bytes, copied \in Seq(Nat) : \E more :
       Turn(fast, x, bytes \o copied, more) /\ Write(bytes, copied, more)
  \/ \E parts : Turn(fast, x, << >>, parts) /\ Descend(parts)
  \/ /\ MemoryOf(x) \in Seq(Nat) /\ Len(MemoryOf(x)) = Schema[x.t].raw
     /\ Turn(fast, x, MemoryOf(x), << >>)
     /\ Room >= 0
     /\ buf' = Over(buf, i, SubSeq(MemoryOf(x), 1, Fits(MemoryOf(x))))
     /\ i' = i + Schema[x.t].raw
     /\ todo' = Tail(todo) /\ UNCHANGED <<root, val, pass, size, out, before>>
  \/ Room < 0

LEMMA MarshalPuts ==
  ASSUME NEW Items, NEW depth, NEW rank, Encodable(Items, depth, rank),
         NEW W, NEW U, Weighed(Items, W, U), Agree(Items, W, U),
         \/ MarshalSlice \/ MarshalArray \/ MarshalMap \/ MarshalUnion
         \/ MarshalStruct \/ MarshalOther
  PROVE  Puts(~Safe, Head(todo))
  <1> DEFINE x == Head(todo)
             fast == ~Safe
             kind == Schema[x.t].kind
             p == PutUvarint(Len(x.v))
             m == MemoryOf(x)
  <1>0. todo # << >>
    BY DEF MarshalSlice, MarshalArray, MarshalMap, MarshalUnion, MarshalStruct, MarshalOther, Visit
  <1>1. x \in Items
    BY <1>0, AtHead
  <1>b. Bulk <=> Copied(fast, x)
    BY Here DEF Bulk, Copied
  <1>e. << >> \in Seq(Nat) /\ << >> \o << >> = << >>
    OBVIOUS
  <1>2. CASE MarshalSlice
    <2>1. /\ kind = "slice"
          /\ \/ Copied(fast, x) /\ Write(p, m, << >>)
             \/ ~Copied(fast, x) /\ Write(p, << >>, ElementsOf(x))
      BY <1>2, <1>b, Here DEF MarshalSlice
    <2>2. p \in Seq(Nat) /\ (Schema[x.t].bulk => m \in Seq(Nat))
      BY <1>1, <2>1, SliceShares
    <2>3. CASE Copied(fast, x) /\ Write(p, m, << >>)
      <3>1. Turn(fast, x, p \o m, << >>)
        BY <2>1, <2>3 DEF Turn, SliceTurn
      <3>2. m \in Seq(Nat)
        BY <2>2, <2>3 DEF Copied
      <3> QED
        BY <2>2, <2>3, <3>1, <3>2 DEF Puts
    <2>4. CASE ~Copied(fast, x) /\ Write(p, << >>, ElementsOf(x))
      <3>1. Turn(fast, x, p, ElementsOf(x))
        BY <2>1, <2>4 DEF Turn, SliceTurn
      <3>2. p \o << >> = p
        BY <2>2
      <3> HIDE DEF x, fast, p
      <3>3. Turn(fast, x, p \o << >>, ElementsOf(x))
        BY <3>1, <3>2
      <3> QED
        BY <1>e, <2>2, <2>4, <3>3 DEF Puts, x, fast
    <2> QED
      BY <2>1, <2>3, <2>4
  <1>3. CASE MarshalArray
    <2>1. /\ kind = "array"
          /\ \/ /\ Copied(fast, x) /\ Schema[x.t].size > 0
                /\ Write(<< >>, m, << >>)
             \/ ~ (Copied(fast, x) /\ Schema[x.t].size > 0) /\ Descend(ElementsOf(x))
      BY <1>3, <1>b, Here DEF MarshalArray
    <2>2. CASE Copied(fast, x) /\ Schema[x.t].size > 0 /\ Write(<< >>, m, << >>)
      <3>1. Turn(fast, x, m, << >>)
        BY <2>1, <2>2 DEF Turn, ArrayTurn
      <3>2. m \in Seq(Nat)
        BY <1>1, <2>1, <2>2, ArrayShares DEF Copied
      <3>3. << >> \o m = m
        BY <3>2
      <3> HIDE DEF x, fast, m
      <3>4. Turn(fast, x, << >> \o m, << >>)
        BY <3>1, <3>3
      <3> QED
        BY <1>e, <2>2, <3>2, <3>4 DEF Puts, x, fast
    <2>3. CASE ~ (Copied(fast, x) /\ Schema[x.t].size > 0) /\ Descend(ElementsOf(x))
      <3>1. Turn(fast, x, << >>, ElementsOf(x))
        BY <2>1, <2>3 DEF Turn, ArrayTurn
      <3> QED
        BY <2>3, <3>1 DEF Puts
    <2> QED
      BY <2>1, <2>2, <2>3
  <1>4. CASE MarshalMap
    <2> DEFINE c == PutUvarint(Cardinality(x.v))
    <2>1. kind = "map" /\ \E s \in SetToSeqs(x.v) : Write(c, << >>, EntriesOf(x, s))
      BY <1>4, Here DEF MarshalMap
    <2>2. PICK s \in SetToSeqs(x.v) : Write(c, << >>, EntriesOf(x, s))
      BY <2>1
    <2>3. c \in Seq(Nat)
      BY <1>1, <2>1, MapShares
    <2>4. Turn(fast, x, c, EntriesOf(x, s))
      BY <2>1 DEF Turn, MapTurn
    <2>5. c \o << >> = c
      BY <2>3
    <2> HIDE DEF x, fast, c
    <2>6. Turn(fast, x, c \o << >>, EntriesOf(x, s))
      BY <2>4, <2>5
    <2> QED
      BY <1>e, <2>2, <2>3, <2>6 DEF Puts, x, fast
  <1>5. CASE MarshalUnion
    <2> DEFINE c == PutUvarint(x.v[1])
    <2>1. /\ kind = "union" /\ x.v[1] <= Len(Schema[x.t].elems)
          /\ \/ x.v[1] = 0 /\ Write(c, << >>, << >>)
             \/ x.v[1] # 0 /\ Write(c, << >>, MemberOf(x))
      BY <1>5, Here DEF MarshalUnion
    <2>2. PICK more : Turn(fast, x, c, more) /\ Write(c, << >>, more)
      BY <2>1 DEF Turn, UnionTurn
    <2>3. c \in Seq(Nat)
      BY <1>1, <2>1, UnionShares
    <2>5. c \o << >> = c
      BY <2>3
    <2> HIDE DEF x, fast, c
    <2>6. Turn(fast, x, c \o << >>, more)
      BY <2>2, <2>5
    <2> QED
      BY <1>e, <2>2, <2>3, <2>6 DEF Puts, x, fast
  <1>6. CASE MarshalStruct
    <2>1. /\ kind = "struct"
          /\ \/ ~Copied(fast, x) /\ Descend(FieldsOf(x))
             \/ /\ Copied(fast, x) /\ Room >= 0
                /\ buf' = Over(buf, i, SubSeq(m, 1, Fits(m))) /\ i' = i + Schema[x.t].raw
                /\ todo' = Tail(todo) /\ UNCHANGED <<root, val, pass, size, out, before>>
             \/ Room < 0
      BY <1>6, <1>b, Here DEF MarshalStruct
    <2>2. CASE ~Copied(fast, x) /\ Descend(FieldsOf(x))
      <3>1. Turn(fast, x, << >>, FieldsOf(x))
        BY <2>1, <2>2 DEF Turn, StructTurn
      <3> QED
        BY <2>2, <3>1 DEF Puts
    <2>3. CASE /\ Copied(fast, x) /\ Room >= 0
               /\ buf' = Over(buf, i, SubSeq(m, 1, Fits(m))) /\ i' = i + Schema[x.t].raw
               /\ todo' = Tail(todo) /\ UNCHANGED <<root, val, pass, size, out, before>>
      <3>1. Turn(fast, x, m, << >>)
        BY <2>1, <2>3 DEF Turn, StructTurn
      <3>2. m \in Seq(Nat) /\ Len(m) = Schema[x.t].raw
        BY <1>1, <2>1, <2>3, StructShares DEF Copied
      <3> QED
        BY <2>3, <3>1, <3>2 DEF Puts
    <2>4. CASE Room < 0
      BY <2>4 DEF Puts
    <2> QED
      BY <2>1, <2>2, <2>3, <2>4
  <1>7. CASE MarshalOther
    <2>1. \/ kind = "fixed" /\ Write(x.v, << >>, << >>)
          \/ kind = "block" /\ Write(<< >>, x.v, << >>)
          \/ kind \in { "string", "bytes" } /\ Write(p, x.v, << >>)
          \/ kind = "pointer" /\ x.v = << >> /\ Write(<<0>>, << >>, << >>)
          \/ kind = "pointer" /\ x.v # << >> /\ Write(<<1>>, << >>, ElementsOf(x))
      BY <1>7, Here DEF MarshalOther
    <2>2. /\ kind \in { "fixed", "block" } => x.v \in Seq(Nat)
          /\ kind \in { "string", "bytes" } => x.v \in Seq(Nat) /\ p \in Seq(Nat)
      BY <1>1, BasicShares
    <2>3. CASE kind = "fixed" /\ Write(x.v, << >>, << >>)
      <3>1. Turn(fast, x, x.v, << >>) /\ x.v \in Seq(Nat)
        BY <2>2, <2>3 DEF Turn, BasicTurn
      <3>2. x.v \o << >> = x.v
        BY <3>1
      <3> HIDE DEF x, fast
      <3>3. Turn(fast, x, x.v \o << >>, << >>)
        BY <3>1, <3>2
      <3> QED
        BY <1>e, <2>3, <3>1, <3>3 DEF Puts, x, fast
    <2>4. CASE kind = "block" /\ Write(<< >>, x.v, << >>)
      <3>1. Turn(fast, x, x.v, << >>) /\ x.v \in Seq(Nat)
        BY <2>2, <2>4 DEF Turn, BasicTurn
      <3>2. << >> \o x.v = x.v
        BY <3>1
      <3> HIDE DEF x, fast
      <3>3. Turn(fast, x, << >> \o x.v, << >>)
        BY <3>1, <3>2
      <3> QED
        BY <1>e, <2>4, <3>1, <3>3 DEF Puts, x, fast
    <2>5. CASE kind \in { "string", "bytes" } /\ Write(p, x.v, << >>)
      <3>1. Turn(fast, x, p \o x.v, << >>) /\ x.v \in Seq(Nat) /\ p \in Seq(Nat)
        BY <2>2, <2>5 DEF Turn, BasicTurn
      <3> QED
        BY <2>5, <3>1 DEF Puts
    <2>6. <<0>> \in Seq(Nat) /\ <<1>> \in Seq(Nat) /\ <<0>> \o << >> = <<0>> /\ <<1>> \o << >> = <<1>>
      OBVIOUS
    <2>7. CASE kind = "pointer" /\ x.v = << >> /\ Write(<<0>>, << >>, << >>)
      <3>1. ElementsOf(x) = << >>
        BY <2>7 DEF ElementsOf
      <3>2. Turn(fast, x, <<0>>, << >>)
        BY <2>7, <3>1 DEF Turn, PointerTurn
      <3>3. Turn(fast, x, <<0>> \o << >>, << >>)
        BY <2>6, <3>2
      <3> QED
        BY <1>e, <2>6, <2>7, <3>3 DEF Puts
    <2>8. CASE kind = "pointer" /\ x.v # << >> /\ Write(<<1>>, << >>, ElementsOf(x))
      <3>2. Turn(fast, x, <<1>>, ElementsOf(x))
        BY <2>8 DEF Turn, PointerTurn
      <3>3. Turn(fast, x, <<1>> \o << >>, ElementsOf(x))
        BY <2>6, <3>2
      <3> QED
        BY <1>e, <2>6, <2>8, <3>3 DEF Puts
    <2> QED
      BY <2>1, <2>3, <2>4, <2>5, <2>7, <2>8
  <1> QED
    BY <1>2, <1>3, <1>4, <1>5, <1>6, <1>7

LEMMA MarshalTurns ==
  ASSUME NEW Items, NEW depth, NEW rank, Encodable(Items, depth, rank),
         NEW W, NEW U, Weighed(Items, W, U), Agree(Items, W, U),
         pass = "marshal", todo # << >>, Len(buf) >= size, Next
  PROVE  \E bytes, more : Turn(~Safe, Head(todo), bytes, more) /\ Placed(bytes, more)
  <1> DEFINE x == Head(todo)
             fast == ~Safe
  <1>1. W \in [Items -> Nat] /\ U \in [Items -> Nat] /\ x \in Items
    BY AtHead
  <1>2. Puts(fast, x)
    <2>1. \/ MarshalSlice \/ MarshalArray \/ MarshalMap \/ MarshalUnion
          \/ MarshalStruct \/ MarshalOther
      <3>1. ~NotAMember
        BY IsMember
      <3> QED
        BY <3>1
           DEF Next, SizeSlice, SizeArray, SizeMap, SizeUnion, SizeOther, AppendSlice,
               AppendArray, AppendMap, AppendUnion, AppendOther, CallMarshal, CallAppend,
               Finish, Visit
    <2> QED
      BY <2>1, MarshalPuts
  <1> HIDE DEF fast
  <1>3. ASSUME NEW bytes, NEW more, Turn(fast, x, bytes, more)
        PROVE  Share(Items, W, U, x, Len(bytes), more)
    BY <1>1, <1>3, TurnShares
  <1>4. CASE \E bytes, copied \in Seq(Nat) : \E more :
               Turn(fast, x, bytes \o copied, more) /\ Write(bytes, copied, more)
    <2>0. PICK bytes \in Seq(Nat), copied \in Seq(Nat) : \E more :
            Turn(fast, x, bytes \o copied, more) /\ Write(bytes, copied, more)
      BY <1>4
    <2>1. PICK more : Turn(fast, x, bytes \o copied, more) /\ Write(bytes, copied, more)
      BY <2>0
    <2>2. Share(Items, W, U, x, Len(bytes \o copied), more)
      BY <1>3, <2>1
    <2>3. Placed(bytes \o copied, more)
      BY <1>1, <2>1, <2>2, WritePlaces
    <2> QED
      BY <2>1, <2>3 DEF fast
  <1>5. CASE \E parts : Turn(fast, x, << >>, parts) /\ Descend(parts)
    <2>1. PICK parts : Turn(fast, x, << >>, parts) /\ Descend(parts)
      BY <1>5
    <2>2. Placed(<< >>, parts)
      BY <2>1, DescendPlaces
    <2> QED
      BY <2>1, <2>2 DEF fast
  <1>6. CASE /\ MemoryOf(x) \in Seq(Nat) /\ Len(MemoryOf(x)) = Schema[x.t].raw
             /\ Turn(fast, x, MemoryOf(x), << >>)
             /\ Room >= 0
             /\ buf' = Over(buf, i, SubSeq(MemoryOf(x), 1, Fits(MemoryOf(x))))
             /\ i' = i + Schema[x.t].raw
             /\ todo' = Tail(todo) /\ UNCHANGED <<root, val, pass, size, out, before>>
    <2> DEFINE m == MemoryOf(x)
               raw == Schema[x.t].raw
    <2>1. Share(Items, W, U, x, raw, << >>)
      BY <1>3, <1>6
    <2> HIDE DEF m, raw
    <2>2. Placed(m, << >>)
      <3>1. /\ m \in Seq(Nat) /\ Len(m) = raw
            /\ buf' = Over(buf, i, SubSeq(m, 1, Fits(m))) /\ i' = i + raw
            /\ todo' = Tail(todo) /\ UNCHANGED <<root, val, pass, size, out, before>>
        BY <1>6 DEF m, raw
      <3> QED
        BY <1>1, <2>1, <3>1, CopyPlaces
    <2> QED
      BY <1>6, <2>2 DEF m, fast
  <1>7. CASE Room < 0
    <2>1. /\ i \in Nat /\ size \in Nat /\ Len(buf) \in Nat /\ todo \in Seq(Items)
          /\ Room = Len(buf) - i /\ i + Load(W, todo) = size
      BY DEF Agree, Typed, IsSeq, Marshalling, Room
    <2>2. Load(W, todo) \in Nat
      BY <1>1, <2>1, LoadNat
    <2> QED
      BY <1>7, <2>1, <2>2
  <1> QED
    BY <1>2, <1>4, <1>5, <1>6, <1>7 DEF Puts

LEMMA AppendTurns ==
  ASSUME NEW Items, NEW depth, NEW rank, Encodable(Items, depth, rank),
         NEW W, NEW U, Weighed(Items, W, U), Agree(Items, W, U),
         pass = "append", todo # << >>, Next
  PROVE  \E bytes, more : Turn(~Safe, Head(todo), bytes, more) /\ Push(bytes, more)
  <1> DEFINE x == Head(todo)
             fast == ~Safe
             kind == Schema[x.t].kind
  <1>b. Bulk <=> Copied(fast, x)
    BY Here DEF Bulk, Copied
  <1>1. AppendSlice \/ AppendArray \/ AppendMap \/ AppendUnion \/ AppendOther
    <2>1. ~NotAMember
      BY IsMember
    <2> QED
      BY <2>1
         DEF Next, SizeSlice, SizeArray, SizeMap, SizeUnion, SizeOther, MarshalSlice,
             MarshalArray, MarshalMap, MarshalUnion, MarshalStruct, MarshalOther,
             CallMarshal, CallAppend, Finish, Visit
  <1>2. CASE AppendSlice
    BY <1>2, <1>b, Here DEF AppendSlice, Turn, SliceTurn
  <1>3. CASE AppendArray
    BY <1>3, <1>b, Here DEF AppendArray, Turn, ArrayTurn
  <1>4. CASE AppendMap
    BY <1>4, Here DEF AppendMap, Turn, MapTurn
  <1>5. CASE AppendUnion
    BY <1>5, Here DEF AppendUnion, Turn, UnionTurn
  <1>6. CASE AppendOther
    <2>1. \/ kind \in { "fixed", "block" } /\ Push(x.v, << >>)
          \/ kind \in { "string", "bytes" } /\ Push(PutUvarint(Len(x.v)) \o x.v, << >>)
          \/ kind = "pointer" /\ x.v = << >> /\ Push(<<0>>, << >>)
          \/ kind = "pointer" /\ x.v # << >> /\ Push(<<1>>, ElementsOf(x))
          \/ kind = "struct" /\ Copied(fast, x) /\ Push(MemoryOf(x), << >>)
          \/ kind = "struct" /\ ~Copied(fast, x) /\ Push(<< >>, FieldsOf(x))
      BY <1>6, <1>b, Here DEF AppendOther
    <2>2. x.v = << >> => ElementsOf(x) = << >>
      BY DEF ElementsOf
    <2> QED
      BY <2>1, <2>2 DEF Turn, BasicTurn, PointerTurn, StructTurn
  <1> QED
    BY <1>1, <1>2, <1>3, <1>4, <1>5, <1>6

-----------------------------------------------------------------------------
(***************************************************************************)
(* The trail of a run of Marshal or Append: what was left to visit, what   *)
(* was recorded and what was written before each of its steps.             *)
(***************************************************************************)
Point(s, parts, bytes) == [todo |-> s, parts |-> parts, bytes |-> bytes]

Points(Items) == [todo : Seq(Items), parts : Seq(Seq(Nat)), bytes : Seq(Nat)]

\* One step leads from e to d.
Passes(fast, e, d) ==
  /\ e.todo # << >>
  /\ \E bytes, more :
       /\ Turn(fast, Head(e.todo), bytes, more)
       /\ d = Point(more \o Tail(e.todo), e.parts \o PartsOf(fast, Head(e.todo)), e.bytes \o bytes)

Starts(s, t) == Len(s) <= Len(t) /\ \A k \in 1 .. Len(s) : s[k] = t[k]

\* What is written at e and what is left weigh together as much as x.
OnTrail(W, x, e, last) ==
  /\ Len(e.bytes) + Load(W, e.todo) = W[x]
  /\ Starts(e.parts, last.parts) /\ Starts(e.bytes, last.bytes)

Trail(Items, W, fast, x, T, last) ==
  /\ T \subseteq Points(Items) /\ last \in T /\ Point(<<x>>, << >>, << >>) \in T
  /\ \A e \in T : OnTrail(W, x, e, last) /\ (e = last \/ \E d \in T : Passes(fast, e, d))

LEMMA PointIs ==
  ASSUME NEW s, NEW parts, NEW bytes
  PROVE  /\ Point(s, parts, bytes).todo = s /\ Point(s, parts, bytes).parts = parts
         /\ Point(s, parts, bytes).bytes = bytes
  BY DEF Point

LEMMA PointTyped ==
  ASSUME NEW Items, NEW s \in Seq(Items), NEW parts \in Seq(Seq(Nat)), NEW bytes \in Seq(Nat)
  PROVE  Point(s, parts, bytes) \in Points(Items)
  BY DEF Point, Points

LEMMA PointBe ==
  ASSUME NEW Items, NEW s \in Seq(Items), NEW parts \in Seq(Seq(Nat)), NEW bytes \in Seq(Nat),
         NEW d, d = Point(s, parts, bytes)
  PROVE  d \in Points(Items) /\ d.todo = s /\ d.parts = parts /\ d.bytes = bytes
  BY PointIs, PointTyped

LEMMA PointHas ==
  ASSUME NEW Items, NEW e \in Points(Items)
  PROVE  /\ e.todo \in Seq(Items) /\ e.parts \in Seq(Seq(Nat)) /\ e.bytes \in Seq(Nat)
         /\ e = Point(e.todo, e.parts, e.bytes)
  BY DEF Point, Points

LEMMA StartsIs ==
  ASSUME NEW S, NEW s \in Seq(S), NEW t \in Seq(S)
  PROVE  Starts(s, s) /\ Starts(s, s \o t)
  <1>1. Len(s) \in Nat /\ Len(t) \in Nat
    OBVIOUS
  <1>2. /\ Len(s \o t) = Len(s) + Len(t)
        /\ \A k \in 1 .. Len(s) + Len(t) :
             (s \o t)[k] = IF k <= Len(s) THEN s[k] ELSE t[k - Len(s)]
    BY ConcatProperties
  <1>3. ASSUME NEW k \in 1 .. Len(s)
        PROVE  (s \o t)[k] = s[k]
    <2>1. k \in 1 .. Len(s) + Len(t) /\ k <= Len(s)
      BY <1>1
    <2> QED
      BY <1>2, <2>1
  <1> QED
    BY <1>1, <1>2, <1>3 DEF Starts

LEMMA StartsTransitive ==
  ASSUME NEW S, NEW s \in Seq(S), NEW t \in Seq(S), NEW u \in Seq(S), Starts(s, t), Starts(t, u)
  PROVE  Starts(s, u)
  <1>1. Len(s) \in Nat /\ Len(t) \in Nat /\ Len(u) \in Nat
    OBVIOUS
  <1> QED
    BY <1>1 DEF Starts

\* Two continuations of one sequence are compatible.
LEMMA StartsCompatible ==
  ASSUME NEW S, NEW w \in Seq(S), NEW P \in Seq(S), NEW Q \in Seq(S), NEW t \in Seq(S),
         Starts(w \o P, t), Starts(w \o Q, t)
  PROVE  Compatible(P, Q)
  <1> DEFINE A == w \o P
             B == w \o Q
             n == Len(w)
  <1>1. n \in Nat /\ Len(P) \in Nat /\ Len(Q) \in Nat /\ Len(t) \in Nat
    OBVIOUS
  <1>2. /\ Len(A) = n + Len(P) /\ Len(B) = n + Len(Q)
        /\ \A k \in 1 .. n + Len(P) : A[k] = IF k <= n THEN w[k] ELSE P[k - n]
        /\ \A k \in 1 .. n + Len(Q) : B[k] = IF k <= n THEN w[k] ELSE Q[k - n]
    BY ConcatProperties
  <1>3. /\ \A k \in 1 .. Len(A) : A[k] = t[k]
        /\ \A k \in 1 .. Len(B) : B[k] = t[k]
    BY DEF Starts
  <1> HIDE DEF A, B, n
  <1>4. ASSUME NEW k \in 1 .. Len(P), k <= Len(Q)
        PROVE  P[k] = Q[k]
    <2>1. n + k \in 1 .. n + Len(P) /\ n + k \in 1 .. n + Len(Q) /\ ~ (n + k <= n) /\ (n + k) - n = k
      BY <1>1, <1>4
    <2>2. A[n + k] = P[k] /\ B[n + k] = Q[k]
      BY <1>2, <2>1
    <2>3. A[n + k] = t[n + k] /\ B[n + k] = t[n + k]
      BY <1>2, <1>3, <2>1
    <2> QED
      BY <2>2, <2>3
  <1> QED
    BY <1>4 DEF Compatible

LEMMA KindsConcat ==
  ASSUME NEW Items, NEW s \in Seq(Items), NEW u \in Seq(Items)
  PROVE  Kinds(s \o u) = Kinds(s) \o Kinds(u)
  <1> DEFINE S == { x.t : x \in Items }
             K == Kinds(s)
             L == Kinds(u)
             V == s \o u
             n == Len(s)
             m == Len(u)
  <1>1. n \in Nat /\ m \in Nat
    OBVIOUS
  <1>2. /\ K \in Seq(S) /\ Len(K) = n /\ \A k \in 1 .. n : K[k] = s[k].t
        /\ L \in Seq(S) /\ Len(L) = m /\ \A k \in 1 .. m : L[k] = u[k].t
    BY DEF Kinds
  <1>3. Len(V) = n + m /\ \A k \in 1 .. n + m : V[k] = IF k <= n THEN s[k] ELSE u[k - n]
    BY ConcatProperties
  <1>4. /\ K \o L \in Seq(S) /\ Len(K \o L) = Len(K) + Len(L)
        /\ \A k \in 1 .. Len(K) + Len(L) :
             (K \o L)[k] = IF k <= Len(K) THEN K[k] ELSE L[k - Len(K)]
    BY <1>2, ConcatProperties
  <1> DEFINE J == K \o L
  <1>5. J \in Seq(S) /\ Len(J) = n + m
        /\ \A k \in 1 .. n + m : J[k] = IF k <= n THEN K[k] ELSE L[k - n]
    BY <1>2, <1>4
  <1>6. Kinds(V) = [k \in 1 .. n + m |-> V[k].t]
    BY <1>3 DEF Kinds
  <1> HIDE DEF S, K, L, V, J, n, m
  <1>7. J = [k \in 1 .. n + m |-> J[k]]
    BY <1>5
  <1>8. ASSUME NEW k \in 1 .. n + m
        PROVE  V[k].t = J[k]
    <2>1. CASE k <= n
      <3>1. k \in 1 .. n
        BY <1>1, <2>1
      <3> QED
        BY <1>2, <1>3, <1>5, <2>1, <3>1
    <2>2. CASE ~ (k <= n)
      <3>1. k - n \in 1 .. m
        BY <1>1, <2>2
      <3> QED
        BY <1>2, <1>3, <1>5, <2>2, <3>1
    <2> QED
      BY <2>1, <2>2
  <1>9. Kinds(V) = J
    BY <1>6, <1>7, <1>8
  <1> QED
    BY <1>9 DEF V, J, K, L

LEMMA KindsTail ==
  ASSUME NEW Items, NEW s \in Seq(Items)
  PROVE  /\ Len(Kinds(s)) = Len(s) /\ (s = << >> <=> Kinds(s) = << >>)
         /\ s # << >> => Head(s).t = Head(Kinds(s)) /\ Kinds(Tail(s)) = Tail(Kinds(s))
  <1> DEFINE S == { x.t : x \in Items }
             K == Kinds(s)
             n == Len(s)
  <1>1. n \in Nat /\ K \in Seq(S) /\ Len(K) = n /\ \A k \in 1 .. n : K[k] = s[k].t
    BY DEF Kinds
  <1>2. s = << >> <=> K = << >>
    <2> HIDE DEF K, S
    <2> QED
      BY <1>1
  <1>3. ASSUME s # << >>
        PROVE  Head(s).t = Head(K) /\ Kinds(Tail(s)) = Tail(K)
    <2> DEFINE U == Tail(s)
               M == Tail(K)
    <2>0. n >= 1 /\ Head(s) = s[1]
      BY <1>3
    <2>1. Len(U) = n - 1 /\ \A k \in 1 .. n - 1 : U[k] = s[k + 1]
      BY <1>3
    <2>3. Kinds(U) = [k \in 1 .. n - 1 |-> U[k].t]
      BY <2>1 DEF Kinds
    <2> HIDE DEF K, S
    <2>4. K # << >> /\ Head(K) = K[1]
      BY <1>1, <1>2, <1>3
    <2>5. M \in Seq(S) /\ Len(M) = n - 1 /\ \A k \in 1 .. n - 1 : M[k] = K[k + 1]
      BY <1>1, <2>4
    <2> HIDE DEF U, M, n
    <2>6. M = [k \in 1 .. n - 1 |-> M[k]]
      BY <2>5
    <2>7. \A k \in 1 .. n - 1 : U[k].t = M[k]
      BY <1>1, <2>1, <2>5
    <2>8. Kinds(U) = M
      BY <2>3, <2>6, <2>7
    <2> QED
      BY <1>1, <2>0, <2>4, <2>8 DEF U, M
  <1> QED
    BY <1>1, <1>2, <1>3

\* A step takes the share of the value it visits off what is left.
LEMMA PassesIs ==
  ASSUME NEW Items, NEW depth, NEW rank, Encodable(Items, depth, rank),
         NEW W, NEW U, Weighed(Items, W, U), NEW fast,
         NEW e \in Points(Items), NEW d, Passes(fast, e, d)
  PROVE  /\ d \in Points(Items) /\ Head(e.todo) \in Items
         /\ Len(d.bytes) + Load(W, d.todo) = Len(e.bytes) + Load(W, e.todo)
         /\ Starts(e.parts, d.parts) /\ Starts(e.bytes, d.bytes)
  <1> DEFINE x == Head(e.todo)
             P == PartsOf(fast, x)
             R == Tail(e.todo)
  <1>0. W \in [Items -> Nat] /\ U \in [Items -> Nat]
    BY DEF Weighed, Bytes, Stops, Weighs
  <1>1. e.todo \in Seq(Items) /\ e.parts \in Seq(Seq(Nat)) /\ e.bytes \in Seq(Nat)
    BY PointHas
  <1>2. PICK bytes, more :
          e.todo # << >> /\ Turn(fast, x, bytes, more)
          /\ d = Point(more \o R, e.parts \o P, e.bytes \o bytes)
    BY DEF Passes
  <1>3. x \in Items /\ R \in Seq(Items) /\ Load(W, e.todo) = W[x] + Load(W, R) /\ Load(W, R) \in Nat
    BY <1>0, <1>1, <1>2, LoadHead
  <1> HIDE DEF x, P, R
  <1>4. bytes \in Seq(Nat) /\ Share(Items, W, U, x, Len(bytes), more)
    BY <1>2, <1>3, TurnShares
  <1>5. P \in Seq(Seq(Nat))
    BY <1>2, <1>3, PartsTyped DEF P
  <1>6. more \in Seq(Items) /\ W[x] = Len(bytes) + Load(W, more)
    BY <1>4 DEF Share
  <1>7. Load(W, more \o R) = Load(W, more) + Load(W, R) /\ Load(W, more) \in Nat
    BY <1>0, <1>3, <1>6, LoadConcat, LoadNat
  <1>8. /\ more \o R \in Seq(Items) /\ e.bytes \o bytes \in Seq(Nat)
        /\ Len(e.bytes \o bytes) = Len(e.bytes) + Len(bytes)
        /\ Len(e.bytes) \in Nat /\ Len(bytes) \in Nat
    BY <1>1, <1>3, <1>4, <1>6, ConcatProperties
  <1>9. e.parts \o P \in Seq(Seq(Nat)) /\ Starts(e.parts, e.parts \o P)
    <2> DEFINE S == Seq(Nat)
    <2>1. e.parts \in Seq(S) /\ P \in Seq(S)
      BY <1>1, <1>5
    <2> HIDE DEF S
    <2>2. e.parts \o P \in Seq(S) /\ Starts(e.parts, e.parts \o P)
      BY <2>1, StartsIs, ConcatProperties
    <2> QED
      BY <2>2 DEF S
  <1>10. Starts(e.bytes, e.bytes \o bytes)
    BY <1>1, <1>4, StartsIs
  <1>11. d \in Points(Items) /\ d.todo = more \o R /\ d.parts = e.parts \o P /\ d.bytes = e.bytes \o bytes
    <2> DEFINE s == more \o R
               p == e.parts \o P
               b == e.bytes \o bytes
    <2>1. s \in Seq(Items) /\ p \in Seq(Seq(Nat)) /\ b \in Seq(Nat) /\ d = Point(s, p, b)
      BY <1>2, <1>8, <1>9
    <2> HIDE DEF s, p, b
    <2>2. d \in Points(Items) /\ d.todo = s /\ d.parts = p /\ d.bytes = b
      BY <2>1, PointBe
    <2> QED
      BY <2>2 DEF s, p, b
  <1>12. Len(d.bytes) + Load(W, d.todo) = Len(e.bytes) + Load(W, e.todo)
    <2> DEFINE lm == Load(W, more)
               lr == Load(W, R)
               le == Load(W, e.todo)
               ld == Load(W, more \o R)
               eb == Len(e.bytes)
               nb == Len(bytes)
               db == Len(e.bytes \o bytes)
    <2>1. lm \in Nat /\ lr \in Nat /\ eb \in Nat /\ nb \in Nat
          /\ le = W[x] + lr /\ W[x] = nb + lm /\ ld = lm + lr /\ db = eb + nb
      BY <1>3, <1>6, <1>7, <1>8
    <2> HIDE DEF lm, lr, le, ld, eb, nb, db
    <2>2. db + ld = eb + le
      BY <2>1
    <2> QED
      BY <1>11, <2>2 DEF ld, eb, le, db
  <1> QED
    BY <1>3, <1>9, <1>10, <1>11, <1>12 DEF x

LEMMA TrailStarts ==
  ASSUME NEW Items, NEW W \in [Items -> Nat], NEW fast, NEW x \in Items
  PROVE  \E T : Trail(Items, W, fast, x, T, Point(<<x>>, << >>, << >>))
  <1> DEFINE e == Point(<<x>>, << >>, << >>)
  <1>0. << >> \in Seq(Seq(Nat)) /\ << >> \in Seq(Nat) /\ <<x>> \in Seq(Items)
    OBVIOUS
  <1>1. e \in Points(Items) /\ e.todo = <<x>> /\ e.parts = << >> /\ e.bytes = << >>
    <2> DEFINE s == <<x>>
               n == << >>
    <2>1. s \in Seq(Items) /\ n \in Seq(Seq(Nat)) /\ n \in Seq(Nat) /\ e = Point(s, n, n)
      BY <1>0
    <2> HIDE DEF s, n, e
    <2>2. e \in Points(Items) /\ e.todo = s /\ e.parts = n /\ e.bytes = n
      BY <2>1, PointBe
    <2> QED
      BY <2>2 DEF s, n
  <1>2. Load(W, <<x>>) = W[x] /\ W[x] \in Nat
    BY LoadOne
  <1>3. Starts(<< >>, << >>) /\ Len(<< >>) = 0
    BY DEF Starts
  <1> HIDE DEF e
  <1>4. OnTrail(W, x, e, e)
    BY <1>1, <1>2, <1>3 DEF OnTrail
  <1>5. Trail(Items, W, fast, x, {e}, e)
    BY <1>1, <1>4 DEF Trail, e
  <1> QED
    BY <1>5 DEF e

LEMMA TrailGoesOn ==
  ASSUME NEW Items, NEW depth, NEW rank, Encodable(Items, depth, rank),
         NEW W, NEW U, Weighed(Items, W, U), NEW fast, NEW x,
         NEW T, NEW last, Trail(Items, W, fast, x, T, last), NEW d, Passes(fast, last, d)
  PROVE  Trail(Items, W, fast, x, T \cup {d}, d)
  <1>1. /\ T \subseteq Points(Items) /\ last \in T /\ Point(<<x>>, << >>, << >>) \in T
        /\ \A e \in T : OnTrail(W, x, e, last) /\ (e = last \/ \E f \in T : Passes(fast, e, f))
    BY DEF Trail
  <1>2. /\ d \in Points(Items)
        /\ Len(d.bytes) + Load(W, d.todo) = Len(last.bytes) + Load(W, last.todo)
        /\ Starts(last.parts, d.parts) /\ Starts(last.bytes, d.bytes)
    BY <1>1, PassesIs
  <1>3. OnTrail(W, x, d, d)
    <2>1. Len(d.bytes) + Load(W, d.todo) = W[x]
      BY <1>1, <1>2 DEF OnTrail
    <2>2. Starts(d.parts, d.parts) /\ Starts(d.bytes, d.bytes)
      BY <1>2, PointHas DEF Starts
    <2> QED
      BY <2>1, <2>2 DEF OnTrail
  <1>4. ASSUME NEW e \in T
        PROVE  OnTrail(W, x, e, d)
    <2>1. OnTrail(W, x, e, last)
      BY <1>1
    <2>2. /\ e.parts \in Seq(Seq(Nat)) /\ e.bytes \in Seq(Nat)
          /\ last.parts \in Seq(Seq(Nat)) /\ last.bytes \in Seq(Nat)
          /\ d.parts \in Seq(Seq(Nat)) /\ d.bytes \in Seq(Nat)
      BY <1>1, <1>2, PointHas
    <2>3. Starts(e.bytes, d.bytes)
      BY <1>2, <2>1, <2>2, StartsTransitive DEF OnTrail
    <2>4. Starts(e.parts, d.parts)
      <3> DEFINE S == Seq(Nat)
      <3>1. e.parts \in Seq(S) /\ last.parts \in Seq(S) /\ d.parts \in Seq(S)
        BY <2>2
      <3>2. Starts(e.parts, last.parts) /\ Starts(last.parts, d.parts)
        BY <1>2, <2>1 DEF OnTrail
      <3> HIDE DEF S
      <3> QED
        BY <3>1, <3>2, StartsTransitive
    <2> QED
      BY <2>1, <2>3, <2>4 DEF OnTrail
  <1>5. ASSUME NEW e \in T
        PROVE  \E f \in T \cup {d} : Passes(fast, e, f)
    BY <1>1
  <1> QED
    BY <1>1, <1>2, <1>3, <1>4, <1>5 DEF Trail

\* A trail that nothing is left of at last ends there.
LEMMA TrailEnds ==
  ASSUME NEW Items, NEW W, NEW fast, NEW x, NEW T, NEW last,
         Trail(Items, W, fast, x, T, last), NEW e \in T, e.todo = << >>
  PROVE  e = last
  BY DEF Trail, Passes

\* Another run, at the types of e, follows the trail as long as it records what
\* was recorded there.
Met(T, s, w, bytes) == \E e \in T : Kinds(e.todo) = Kinds(s) /\ e.parts = w /\ e.bytes = bytes

CanFollow(Items, fast, last, e, s, y, bytes, more, r) ==
  /\ last.todo = << >>
  /\ s \in Seq(Items) /\ s # << >> /\ Kinds(s) = Kinds(e.todo)
  /\ y = Head(s) /\ Turn(fast, y, bytes, more) /\ r = more \o Tail(s)
  /\ Starts(e.parts \o PartsOf(fast, y), last.parts)

LEMMA TrailFollows ==
  ASSUME NEW Items, NEW depth, NEW rank, Encodable(Items, depth, rank),
         NEW W, NEW U, Weighed(Items, W, U), NEW fast, NEW x,
         NEW T, NEW last, Trail(Items, W, fast, x, T, last),
         NEW e \in T, NEW s, NEW y, NEW bytes, NEW more, NEW r,
         CanFollow(Items, fast, last, e, s, y, bytes, more, r)
  PROVE  Met(T, r, e.parts \o PartsOf(fast, y), e.bytes \o bytes)
  <1> USE DEF CanFollow
  <1> DEFINE z == Head(e.todo)
             P == PartsOf(fast, y)
             Q == PartsOf(fast, z)
             L == last.parts
  <1>1. /\ e \in Points(Items) /\ last \in Points(Items)
        /\ e = last \/ \E d \in T : Passes(fast, e, d)
        /\ \A d \in T : Starts(d.parts, last.parts)
    BY DEF Trail, OnTrail
  <1>2. e.todo \in Seq(Items) /\ e.parts \in Seq(Seq(Nat)) /\ L \in Seq(Seq(Nat))
    BY <1>1, PointHas
  <1>3. e.todo # << >>
    BY <1>2, KindsTail
  <1>4. PICK d \in T : Passes(fast, e, d)
    BY <1>1, <1>3
  <1>5. PICK b, m : /\ Turn(fast, z, b, m)
                    /\ d = Point(m \o Tail(e.todo), e.parts \o Q, e.bytes \o b)
    BY <1>4 DEF Passes
  <1>6. y \in Items /\ z \in Items /\ Tail(s) \in Seq(Items) /\ Tail(e.todo) \in Seq(Items)
    BY <1>2, <1>3
  <1>7. y.t = z.t /\ Kinds(Tail(s)) = Kinds(Tail(e.todo))
    BY <1>2, <1>3, KindsTail
  <1>8. P \in Seq(Seq(Nat)) /\ Q \in Seq(Seq(Nat))
    BY <1>5, <1>6, PartsTyped
  <1>9. d.todo = m \o Tail(e.todo) /\ d.parts = e.parts \o Q /\ d.bytes = e.bytes \o b
    <2> HIDE DEF z, P, Q, L
    <2> DEFINE a == m \o Tail(e.todo)
               p == e.parts \o Q
               c == e.bytes \o b
    <2>1. d = Point(a, p, c)
      BY <1>5
    <2> HIDE DEF a, p, c
    <2>2. d.todo = a /\ d.parts = p /\ d.bytes = c
      BY <2>1, PointIs
    <2> QED
      BY <2>2 DEF a, p, c
  <1>10. Compatible(Q, P)
    <2> DEFINE S == Seq(Nat)
    <2>1. e.parts \in Seq(S) /\ P \in Seq(S) /\ Q \in Seq(S) /\ L \in Seq(S)
      BY <1>2, <1>8
    <2> HIDE DEF S, P, Q, L
    <2>2. Starts(e.parts \o P, L) /\ Starts(e.parts \o Q, L)
      BY <1>1, <1>9 DEF L, P
    <2> QED
      BY <2>1, <2>2, StartsCompatible
  <1>11. b = bytes /\ Kinds(m) = Kinds(more) /\ Q = P
    BY <1>5, <1>6, <1>7, <1>10, Determined
  <1>12. m \in Seq(Items) /\ more \in Seq(Items)
    BY <1>5, <1>6, TurnShares DEF Share
  <1>13. Kinds(m \o Tail(e.todo)) = Kinds(more \o Tail(s))
    <2> DEFINE R == Tail(s)
               O == Tail(e.todo)
    <2>1. R \in Seq(Items) /\ O \in Seq(Items) /\ Kinds(R) = Kinds(O)
      BY <1>6, <1>7
    <2> HIDE DEF R, O
    <2>2. Kinds(m \o O) = Kinds(m) \o Kinds(O) /\ Kinds(more \o R) = Kinds(more) \o Kinds(R)
      BY <1>12, <2>1, KindsConcat
    <2> QED
      BY <1>11, <2>1, <2>2 DEF R, O
  <1> HIDE DEF P, Q
  <1>14. /\ Kinds(d.todo) = Kinds(more \o Tail(s))
         /\ d.parts = e.parts \o P
         /\ d.bytes = e.bytes \o bytes
    BY <1>9, <1>11, <1>13
  <1> QED
    BY <1>14 DEF P, Met

-----------------------------------------------------------------------------
(***************************************************************************)
(* A run that has recorded w and written bytes has a trail that ends here; *)
(* and as long as it records what another run, of the same value, recorded *)
(* before it, m, it is on the trail of that one, which wrote final.        *)
(***************************************************************************)
Reached(Items, W, fast, x, s, w, bytes) == \E T : Trail(Items, W, fast, x, T, Point(s, w, bytes))

Follows(Items, W, fast, x, m, final, s, w, bytes) ==
  \E T : /\ Trail(Items, W, fast, x, T, Point(<< >>, m, final))
         /\ Starts(w, m) => Met(T, s, w, bytes)

LEMMA ReachedIs ==
  ASSUME NEW Items, NEW W, NEW fast, NEW x, NEW s, NEW w, NEW bytes,
         Reached(Items, W, fast, x, s, w, bytes)
  PROVE  s \in Seq(Items) /\ w \in Seq(Seq(Nat)) /\ bytes \in Seq(Nat)
  <1> DEFINE e == Point(s, w, bytes)
  <1>1. PICK T : Trail(Items, W, fast, x, T, e)
    BY DEF Reached
  <1>2. e \in Points(Items)
    BY <1>1 DEF Trail
  <1>3. e.todo = s /\ e.parts = w /\ e.bytes = bytes
    BY PointIs
  <1> HIDE DEF e
  <1> QED
    BY <1>2, <1>3, PointHas

LEMMA ReachedAtFirst ==
  ASSUME NEW Items, NEW W \in [Items -> Nat], NEW fast, NEW x \in Items
  PROVE  Reached(Items, W, fast, x, <<x>>, << >>, << >>)
  BY TrailStarts DEF Reached

LEMMA ReachedGoesOn ==
  ASSUME NEW Items, NEW depth, NEW rank, Encodable(Items, depth, rank),
         NEW W, NEW U, Weighed(Items, W, U), NEW fast, NEW x,
         NEW s, NEW w, NEW bytes, Reached(Items, W, fast, x, s, w, bytes), s # << >>,
         NEW y, y = Head(s), NEW b, NEW more, Turn(fast, y, b, more), NEW r, r = more \o Tail(s)
  PROVE  Reached(Items, W, fast, x, r, w \o PartsOf(fast, y), bytes \o b)
  <1> DEFINE e == Point(s, w, bytes)
             d == Point(r, w \o PartsOf(fast, y), bytes \o b)
  <1>1. PICK T : Trail(Items, W, fast, x, T, e)
    BY DEF Reached
  <1>2. e.todo = s /\ e.parts = w /\ e.bytes = bytes
    BY PointIs
  <1>3. Passes(fast, e, d)
    <2> HIDE DEF e
    <2>1. d = Point(more \o Tail(e.todo), e.parts \o PartsOf(fast, Head(e.todo)), e.bytes \o b)
      BY <1>2
    <2> HIDE DEF d
    <2> QED
      BY <1>2, <2>1 DEF Passes
  <1> HIDE DEF e, d
  <1>4. Trail(Items, W, fast, x, T \cup {d}, d)
    BY <1>1, <1>3, TrailGoesOn
  <1> QED
    BY <1>4 DEF Reached, d

\* A run that has reached the end has a trail the next one may follow.
LEMMA FollowsAtFirst ==
  ASSUME NEW Items, NEW W, NEW fast, NEW x, NEW m, NEW final,
         Reached(Items, W, fast, x, << >>, m, final)
  PROVE  Follows(Items, W, fast, x, m, final, <<x>>, << >>, << >>)
  <1> DEFINE e == Point(<<x>>, << >>, << >>)
             d == Point(<< >>, m, final)
  <1>1. PICK T : Trail(Items, W, fast, x, T, d)
    BY DEF Reached
  <1>2. e \in T
    BY <1>1 DEF Trail
  <1>3. e.todo = <<x>> /\ e.parts = << >> /\ e.bytes = << >>
    BY PointIs
  <1> HIDE DEF e, d
  <1>4. Met(T, <<x>>, << >>, << >>)
    BY <1>2, <1>3 DEF Met
  <1> QED
    BY <1>1, <1>4 DEF Follows, d

LEMMA StartsBefore ==
  ASSUME NEW S, NEW w \in Seq(S), NEW p \in Seq(S), NEW m \in Seq(S), Starts(w \o p, m)
  PROVE  Starts(w, m)
  <1>1. w \o p \in Seq(S) /\ Starts(w, w \o p)
    BY StartsIs, ConcatProperties
  <1> DEFINE v == w \o p
  <1> HIDE DEF v
  <1>2. v \in Seq(S) /\ Starts(w, v) /\ Starts(v, m)
    BY <1>1 DEF v
  <1> QED
    BY <1>2, StartsTransitive

LEMMA FollowsGoesOn ==
  ASSUME NEW Items, NEW depth, NEW rank, Encodable(Items, depth, rank),
         NEW W, NEW U, Weighed(Items, W, U), NEW fast, NEW x, NEW m, NEW final,
         NEW s \in Seq(Items), NEW w \in Seq(Seq(Nat)), NEW bytes,
         Follows(Items, W, fast, x, m, final, s, w, bytes), s # << >>,
         NEW y, y = Head(s), NEW b, NEW more, Turn(fast, y, b, more), NEW r, r = more \o Tail(s)
  PROVE  Follows(Items, W, fast, x, m, final, r, w \o PartsOf(fast, y), bytes \o b)
  <1> DEFINE last == Point(<< >>, m, final)
             P == PartsOf(fast, y)
  <1>1. PICK T : Trail(Items, W, fast, x, T, last) /\ (Starts(w, m) => Met(T, s, w, bytes))
    BY DEF Follows
  <1>2. last \in Points(Items) /\ T \subseteq Points(Items)
    BY <1>1 DEF Trail
  <1>3. last.todo = << >> /\ last.parts = m
    BY PointIs
  <1> HIDE DEF last
  <1>4. m \in Seq(Seq(Nat))
    BY <1>2, <1>3, PointHas
  <1>5. y \in Items
    OBVIOUS
  <1>6. P \in Seq(Seq(Nat))
    BY <1>5, PartsTyped
  <1>7. ASSUME Starts(w \o P, m)
        PROVE  Met(T, r, w \o P, bytes \o b)
    <2>1. Starts(w, m)
      <3> DEFINE S == Seq(Nat)
      <3>1. w \in Seq(S) /\ P \in Seq(S) /\ m \in Seq(S)
        BY <1>4, <1>6
      <3> HIDE DEF S, P
      <3> QED
        BY <1>7, <3>1, StartsBefore
    <2>2. PICK e \in T : Kinds(e.todo) = Kinds(s) /\ e.parts = w /\ e.bytes = bytes
      BY <1>1, <2>1 DEF Met
    <2>3. Starts(e.parts \o P, last.parts)
      BY <1>3, <1>7, <2>2
    <2>4. /\ Trail(Items, W, fast, x, T, last) /\ last.todo = << >>
          /\ Kinds(s) = Kinds(e.todo)
      BY <1>1, <1>3, <2>2
    <2>5. CanFollow(Items, fast, last, e, s, y, b, more, r)
      BY <2>3, <2>4 DEF CanFollow
    <2>6. Met(T, r, e.parts \o PartsOf(fast, y), e.bytes \o b)
      BY <2>4, <2>5, TrailFollows
    <2> QED
      BY <2>2, <2>6
  <1> QED
    BY <1>1, <1>7 DEF Follows, last

\* Who follows to the end has written the same.
LEMMA FollowsEnds ==
  ASSUME NEW Items, NEW W, NEW fast, NEW x, NEW m, NEW final, NEW bytes,
         Follows(Items, W, fast, x, m, final, << >>, m, bytes)
  PROVE  bytes = final
  <1> DEFINE last == Point(<< >>, m, final)
  <1>1. PICK T : Trail(Items, W, fast, x, T, last) /\ (Starts(m, m) => Met(T, << >>, m, bytes))
    BY DEF Follows
  <1>2. last \in Points(Items) /\ T \subseteq Points(Items)
    BY <1>1 DEF Trail
  <1>3. last.parts = m /\ last.bytes = final
    BY PointIs
  <1> HIDE DEF last
  <1>4. m \in Seq(Seq(Nat))
    BY <1>2, <1>3, PointHas
  <1>5. Starts(m, m)
    BY <1>4 DEF Starts
  <1>6. PICK e \in T : Kinds(e.todo) = Kinds(<< >>) /\ e.bytes = bytes
    BY <1>1, <1>5 DEF Met
  <1>7. e.todo \in Seq(Items) /\ Kinds(e.todo) = << >>
    BY <1>2, <1>6, PointHas, KindsOfNone
  <1>8. e.todo = << >>
    BY <1>7, KindsTail
  <1>9. e = last
    BY <1>1, <1>8, TrailEnds
  <1> QED
    BY <1>3, <1>6, <1>9

-----------------------------------------------------------------------------
(***************************************************************************)
(* The trails of Marshal and of Append.  w is what the running method has  *)
(* recorded, m what Marshal had when Append was called.                    *)
(***************************************************************************)
Appended == SubSeq(out, Len(before) + 1, Len(out))

Traced(Items, W, fast, w, m) ==
  /\ pass = "marshal" /\ Len(buf) >= size =>
       Reached(Items, W, fast, Whole, todo, w, First(buf, i))
  /\ pass \in { "append", "done" } => Reached(Items, W, fast, Whole, todo, w, Appended)
  /\ pass \in { "append", "done" } /\ Len(buf) >= size =>
       Follows(Items, W, fast, Whole, m, First(buf, size), todo, w, Appended)
  /\ pass = "done" => todo = << >>

\* A step leads from w to v and from m to n.
Recorded(fast, w, m, v, n) ==
  LET called == pass = "marshal" /\ pass' = "append"
  IN  /\ pass = "size" => v = << >>
      /\ called => v = << >> /\ n = w
      /\ ~ (pass = "size") /\ ~called =>
           n = m /\ v = w \o (IF todo = << >> THEN << >> ELSE PartsOf(fast, Head(todo)))

LEMMA FirstNone == \A b : First(b, 0) = << >>
  BY DEF First

LEMMA AppendedNone ==
  ASSUME NEW b \in Seq(Nat)
  PROVE  SubSeq(b, Len(b) + 1, Len(b)) = << >>
  <1> DEFINE n == Len(b)
  <1>1. n + 1 \in Int /\ n \in Int /\ n < n + 1
    OBVIOUS
  <1> HIDE DEF n
  <1>2. SubSeq(b, n + 1, n) = << >>
    BY <1>1, SubSeqEmpty
  <1> QED
    BY <1>2 DEF n

LEMMA AppendedGrows ==
  ASSUME NEW b \in Seq(Nat), NEW n \in Nat, n <= Len(b), NEW bytes \in Seq(Nat)
  PROVE  SubSeq(b \o bytes, n + 1, Len(b \o bytes)) = SubSeq(b, n + 1, Len(b)) \o bytes
  <1> DEFINE c == b \o bytes
             l == Len(b)
             k0 == Len(bytes)
             A == SubSeq(b, n + 1, l)
             B == SubSeq(c, n + 1, l + k0)
  <1>1. l \in Nat /\ k0 \in Nat /\ n <= l
    OBVIOUS
  <1>2. /\ c \in Seq(Nat) /\ Len(c) = l + k0
        /\ \A k \in 1 .. l + k0 : c[k] = IF k <= l THEN b[k] ELSE bytes[k - l]
    BY ConcatProperties
  <1>3. (\A k \in n + 1 .. l : b[k] \in Nat) /\ (\A k \in n + 1 .. l + k0 : c[k] \in Nat)
    <2> HIDE DEF c
    <2> QED
      BY <1>1, <1>2
  <1>4. /\ A \in Seq(Nat) /\ Len(A) = l - n
        /\ \A k \in 1 .. l - n : A[k] = b[n + k]
    <2> HIDE DEF l
    <2>1. /\ A \in Seq(Nat) /\ Len(A) = IF n + 1 <= l THEN l - (n + 1) + 1 ELSE 0
          /\ \A k \in 1 .. l - (n + 1) + 1 : A[k] = b[n + 1 + k - 1]
      BY <1>1, <1>3, SubSeqProperties
    <2> HIDE DEF A
    <2>2. Len(A) = l - n /\ l - (n + 1) + 1 = l - n
      BY <1>1, <2>1
    <2>3. \A k \in 1 .. l - n : n + 1 + k - 1 = n + k
      BY <1>1
    <2> QED
      BY <2>1, <2>2, <2>3
  <1>5. /\ B \in Seq(Nat) /\ Len(B) = l + k0 - n
        /\ \A k \in 1 .. l + k0 - n : B[k] = c[n + k]
    <2> HIDE DEF l, k0, c
    <2>1. /\ B \in Seq(Nat) /\ Len(B) = IF n + 1 <= l + k0 THEN (l + k0) - (n + 1) + 1 ELSE 0
          /\ \A k \in 1 .. (l + k0) - (n + 1) + 1 : B[k] = c[n + 1 + k - 1]
      BY <1>1, <1>3, SubSeqProperties
    <2> HIDE DEF B
    <2>2. Len(B) = l + k0 - n /\ (l + k0) - (n + 1) + 1 = l + k0 - n
      BY <1>1, <2>1
    <2>3. \A k \in 1 .. l + k0 - n : n + 1 + k - 1 = n + k
      BY <1>1
    <2> QED
      BY <2>1, <2>2, <2>3
  <1> DEFINE D == A \o bytes
  <1>6. /\ D \in Seq(Nat) /\ Len(D) = Len(A) + k0
        /\ \A k \in 1 .. Len(A) + k0 : D[k] = IF k <= Len(A) THEN A[k] ELSE bytes[k - Len(A)]
    <2>1. A \in Seq(Nat)
      BY <1>4
    <2> HIDE DEF A
    <2> QED
      BY <2>1, ConcatProperties
  <1>7. Len(c) = l + k0
    BY <1>2
  <1> HIDE DEF c, l, k0, A, B, D
  <1>8. Len(D) = l + k0 - n
    BY <1>1, <1>4, <1>6
  <1>9. ASSUME NEW k \in 1 .. l + k0 - n
        PROVE  B[k] = D[k]
    <2>1. n + k \in 1 .. l + k0 /\ k \in 1 .. Len(A) + k0
      BY <1>1, <1>4
    <2>2. CASE k <= l - n
      <3>1. n + k <= l /\ k \in 1 .. l - n
        BY <1>1, <2>2
      <3> QED
        BY <1>2, <1>4, <1>5, <1>6, <2>1, <2>2, <3>1
    <2>3. CASE ~ (k <= l - n)
      <3>1. ~ (n + k <= l) /\ (n + k) - l = k - (l - n)
        BY <1>1, <2>3
      <3>2. B[k] = bytes[(n + k) - l]
        BY <1>2, <1>5, <2>1, <3>1
      <3>3. D[k] = bytes[k - (l - n)]
        BY <1>4, <1>6, <2>1, <2>3
      <3> QED
        BY <3>1, <3>2, <3>3
    <2> QED
      BY <2>2, <2>3
  <1>10. B = D
    BY <1>5, <1>6, <1>8, <1>9, SeqEqual
  <1> QED
    BY <1>7, <1>10 DEF B, D, A, c, l

\* No write of Marshal changes the length of the buffer.
LEMMA BufferKept ==
  ASSUME pass = "marshal", todo # << >>, Len(buf) \in Nat, Next
  PROVE  pass' \in { "marshal", "panic" } /\ size' = size /\ Len(buf') = Len(buf)
  <1>1. \A b, o, bytes : Len(b) \in Nat => Len(Over(b, o, bytes)) = Len(b)
    BY DEF Over
  <1>2. \/ NotAMember \/ MarshalSlice \/ MarshalArray \/ MarshalMap \/ MarshalUnion
        \/ MarshalStruct \/ MarshalOther
    BY DEF Next, SizeSlice, SizeArray, SizeMap, SizeUnion, SizeOther, AppendSlice,
           AppendArray, AppendMap, AppendUnion, AppendOther, CallMarshal, CallAppend,
           Finish, Visit
  <1>3. ASSUME NEW bytes, NEW copied, NEW more, Write(bytes, copied, more)
        PROVE  pass' \in { "marshal", "panic" } /\ size' = size /\ Len(buf') = Len(buf)
    BY <1>1, <1>3 DEF Write
  <1>4. ASSUME NEW more, Descend(more)
        PROVE  pass' \in { "marshal", "panic" } /\ size' = size /\ Len(buf') = Len(buf)
    BY <1>4 DEF Descend
  <1>5. CASE MarshalStruct
    BY <1>1, <1>4, <1>5 DEF MarshalStruct
  <1> QED
    BY <1>2, <1>3, <1>4, <1>5
       DEF NotAMember, MarshalSlice, MarshalArray, MarshalMap, MarshalUnion, MarshalOther

\* The trails at the start of each call, and what a step adds to them.
LEMMA MarshalTraced ==
  ASSUME NEW Items, NEW depth, NEW rank, Encodable(Items, depth, rank),
         NEW W, NEW U, Weighed(Items, W, U), Agree(Items, W, U),
         NEW fast, fast = ~Safe, NEW w, NEW m, Traced(Items, W, fast, w, m),
         pass = "marshal", todo # << >>, Next,
         NEW v, NEW n, Recorded(fast, w, m, v, n)
  PROVE  Traced(Items, W, fast, v, n)'
  <1> DEFINE x == Head(todo)
  <1>0. IsSeq(buf) /\ Len(buf) \in Nat /\ size \in Nat
    BY DEF Agree, Typed, IsSeq
  <1>1. pass' \in { "marshal", "panic" } /\ size' = size /\ Len(buf') = Len(buf)
    BY <1>0, BufferKept
  <1>2. CASE Len(buf) >= size
    <2>1. PICK bytes, more : Turn(fast, x, bytes, more) /\ Placed(bytes, more)
      BY <1>2, MarshalTurns
    <2>2. Reached(Items, W, fast, Whole, todo, w, First(buf, i))
      BY <1>2 DEF Traced
    <2>3. First(buf, i) \in Seq(Nat)
      BY <2>2, ReachedIs
    <2>4. /\ todo' = more \o Tail(todo) /\ pass' = "marshal" /\ Whole' = Whole
          /\ First(buf', i') = First(buf, i) \o bytes
      BY <2>1, <2>3 DEF Placed, Whole
    <2>5. v = w \o PartsOf(fast, x)
      BY <2>4 DEF Recorded
    <2> DEFINE F == First(buf, i)
               G == First(buf', i')
               r == todo'
    <2>6. Reached(Items, W, fast, Whole, todo, w, F) /\ r = more \o Tail(todo) /\ G = F \o bytes
      BY <2>2, <2>4
    <2> HIDE DEF x, F, G, r
    <2>7. x = Head(todo)
      BY DEF x
    <2>8. Reached(Items, W, fast, Whole, r, w \o PartsOf(fast, x), F \o bytes)
      BY <2>1, <2>6, <2>7, ReachedGoesOn
    <2>9. Reached(Items, W, fast, Whole, r, v, G)
      BY <2>5, <2>6, <2>8
    <2>10. Reached(Items, W, fast, Whole', todo', v, First(buf', i'))
      BY <2>4, <2>9 DEF r, G
    <2> QED
      BY <2>4, <2>10 DEF Traced
  <1>3. CASE ~ (Len(buf) >= size)
    BY <1>0, <1>1, <1>3 DEF Traced
  <1> QED
    BY <1>2, <1>3

LEMMA AppendTraced ==
  ASSUME NEW Items, NEW depth, NEW rank, Encodable(Items, depth, rank),
         NEW W, NEW U, Weighed(Items, W, U), Agree(Items, W, U),
         NEW fast, fast = ~Safe, NEW w, NEW m, Traced(Items, W, fast, w, m),
         pass = "append", todo # << >>, Next,
         NEW v, NEW n, Recorded(fast, w, m, v, n)
  PROVE  Traced(Items, W, fast, v, n)'
  <1> DEFINE x == Head(todo)
             A == Appended
             F == First(buf, size)
             r == todo'
             B == Appended'
  <1>0. out \in Seq(Nat) /\ before \in Seq(Nat) /\ Len(before) <= Len(out) /\ todo \in Seq(Items)
    BY DEF Agree, Typed, Ahead
  <1>1. PICK bytes, more : Turn(fast, x, bytes, more) /\ Push(bytes, more)
    BY AppendTurns
  <1>2. x \in Items
    BY AtHead
  <1>3. bytes \in Seq(Nat)
    BY <1>1, <1>2, TurnShares
  <1>4. /\ r = more \o Tail(todo) /\ pass' = "append" /\ Whole' = Whole /\ out' = out \o bytes
        /\ size' = size /\ buf' = buf /\ before' = before
    BY <1>1 DEF Push, Whole
  <1>5. B = A \o bytes
    <2> DEFINE k == Len(before)
    <2>1. k \in Nat /\ k <= Len(out)
      BY <1>0
    <2> HIDE DEF k
    <2>2. SubSeq(out \o bytes, k + 1, Len(out \o bytes)) = SubSeq(out, k + 1, Len(out)) \o bytes
      BY <1>0, <1>3, <2>1, AppendedGrows
    <2> QED
      BY <1>4, <2>2 DEF Appended, k
  <1>6. v = w \o PartsOf(fast, x) /\ n = m
    BY <1>4 DEF Recorded
  <1>7. /\ Reached(Items, W, fast, Whole, todo, w, A)
        /\ Len(buf) >= size => Follows(Items, W, fast, Whole, m, F, todo, w, A)
    BY DEF Traced
  <1>8. w \in Seq(Seq(Nat))
    BY <1>7, ReachedIs
  <1> HIDE DEF x, A, F, r, B
  <1>9. x = Head(todo)
    BY DEF x
  <1>10. Reached(Items, W, fast, Whole, r, w \o PartsOf(fast, x), A \o bytes)
    BY <1>1, <1>4, <1>7, <1>9, ReachedGoesOn
  <1>11. ASSUME Len(buf) >= size
         PROVE  Follows(Items, W, fast, Whole, m, F, r, w \o PartsOf(fast, x), A \o bytes)
    <2>1. Follows(Items, W, fast, Whole, m, F, todo, w, A)
      BY <1>7, <1>11
    <2> QED
      BY <1>0, <1>1, <1>4, <1>8, <1>9, <2>1, FollowsGoesOn
  <1>12. /\ Reached(Items, W, fast, Whole', todo', v, Appended')
         /\ Len(buf') >= size' =>
              Follows(Items, W, fast, Whole', n, First(buf', size'), todo', v, Appended')
    BY <1>4, <1>5, <1>6, <1>10, <1>11 DEF r, B, F
  <1> QED
    BY <1>4, <1>12 DEF Traced

LEMMA CallMarshalTraced ==
  ASSUME NEW Items, NEW W, NEW U, Weighed(Items, W, U), Agree(Items, W, U),
         NEW fast, NEW w, NEW m, CallMarshal, NEW v, NEW n, Recorded(fast, w, m, v, n)
  PROVE  Traced(Items, W, fast, v, n)'
  <1>1. /\ pass = "size" /\ pass' = "marshal" /\ todo' = <<Whole>> /\ Whole' = Whole /\ i' = i
        /\ v = << >>
    BY DEF CallMarshal, Whole, Recorded
  <1>2. i = 0 /\ Whole \in Items
    BY <1>1 DEF Agree, Measuring, Typed
  <1>3. W \in [Items -> Nat]
    BY AtHead
  <1>4. Reached(Items, W, fast, Whole, <<Whole>>, << >>, << >>)
    BY <1>2, <1>3, ReachedAtFirst
  <1>5. First(buf', i') = << >>
    BY <1>1, <1>2, FirstNone
  <1> QED
    BY <1>1, <1>4, <1>5 DEF Traced

LEMMA CallAppendTraced ==
  ASSUME NEW Items, Before \subseteq Seq(Nat),
         NEW W, NEW U, Weighed(Items, W, U), Agree(Items, W, U),
         NEW fast, NEW w, NEW m, Traced(Items, W, fast, w, m),
         CallAppend, NEW v, NEW n, Recorded(fast, w, m, v, n)
  PROVE  Traced(Items, W, fast, v, n)'
  <1>1. /\ pass = "marshal" /\ pass' = "append" /\ todo = << >> /\ todo' = <<Whole>>
        /\ Whole' = Whole /\ i' = i /\ size' = size /\ buf' = buf
        /\ out' = before' /\ before' \in Seq(Nat) /\ v = << >> /\ n = w
    BY DEF CallAppend, Whole, Recorded
  <1>2. Whole \in Items /\ i \in Nat /\ W \in [Items -> Nat]
    BY AtHead DEF Agree, Typed
  <1>3. Reached(Items, W, fast, Whole, <<Whole>>, << >>, << >>)
    BY <1>2, ReachedAtFirst
  <1>4. Appended' = << >>
    <2> DEFINE b == before'
    <2>1. b \in Seq(Nat)
      BY <1>1
    <2> HIDE DEF b
    <2>2. SubSeq(b, Len(b) + 1, Len(b)) = << >>
      BY <2>1, AppendedNone
    <2> QED
      BY <1>1, <2>2 DEF Appended, b
  <1>5. ASSUME Len(buf) >= size
        PROVE  Follows(Items, W, fast, Whole, w, First(buf, size), <<Whole>>, << >>, << >>)
    <2>1. Reached(Items, W, fast, Whole, << >>, w, First(buf, i))
      BY <1>1, <1>5 DEF Traced
    <2>2. i + Load(W, << >>) = size
      BY <1>1, <1>5 DEF Agree, Marshalling
    <2>3. i = size
      BY <1>2, <2>2, LoadEmpty
    <2> QED
      BY <2>1, <2>3, FollowsAtFirst
  <1> QED
    BY <1>1, <1>3, <1>4, <1>5 DEF Traced

LEMMA FinishTraced ==
  ASSUME NEW Items, NEW W, NEW fast, NEW w, NEW m, Traced(Items, W, fast, w, m),
         Finish, NEW v, NEW n, Recorded(fast, w, m, v, n)
  PROVE  Traced(Items, W, fast, v, n)'
  <1>1. /\ pass = "append" /\ pass' = "done" /\ todo = << >> /\ todo' = todo
        /\ Whole' = Whole /\ size' = size /\ buf' = buf /\ Appended' = Appended
        /\ v = w \o << >> /\ n = m
    BY DEF Finish, Whole, Recorded, Appended
  <1>2. Reached(Items, W, fast, Whole, todo, w, Appended)
    BY <1>1 DEF Traced
  <1>3. w \in Seq(Seq(Nat))
    BY <1>2, ReachedIs
  <1>4. v = w
    BY <1>1, <1>3
  <1> QED
    BY <1>1, <1>4 DEF Traced

LEMMA TracedNext ==
  ASSUME NEW Items, NEW depth, NEW rank, Encodable(Items, depth, rank),
         Before \subseteq Seq(Nat),
         NEW W, NEW U, Weighed(Items, W, U), Agree(Items, W, U),
         NEW fast, fast = ~Safe, NEW w, NEW m, Traced(Items, W, fast, w, m), Next,
         NEW v, NEW n, Recorded(fast, w, m, v, n)
  PROVE  Traced(Items, W, fast, v, n)'
  <1>1. pass \in { "size", "marshal", "append", "done", "panic" }
        /\ (pass = "done" => todo = << >>)
    BY DEF Agree, Typed, Traced
  <1>2. CASE todo # << >> /\ pass = "marshal"
    BY <1>2, MarshalTraced
  <1>3. CASE todo # << >> /\ pass = "append"
    BY <1>3, AppendTraced
  <1>4. CASE todo # << >> /\ pass \in { "size", "panic" }
    <2>1. pass' \in { "size", "panic" }
      BY <1>4
         DEF Next, Visit, SizeSlice, SizeArray, SizeMap, SizeUnion, SizeOther, Add,
             MarshalSlice, MarshalArray, MarshalMap, MarshalUnion, MarshalStruct, MarshalOther,
             AppendSlice, AppendArray, AppendMap, AppendUnion, AppendOther, NotAMember,
             CallMarshal, CallAppend, Finish
    <2> QED
      BY <2>1 DEF Traced
  <1>5. CASE todo = << >>
    <2>1. CallMarshal \/ CallAppend \/ Finish
      BY <1>5
         DEF Next, Visit, SizeSlice, SizeArray, SizeMap, SizeUnion, SizeOther,
             MarshalSlice, MarshalArray, MarshalMap, MarshalUnion, MarshalStruct, MarshalOther,
             AppendSlice, AppendArray, AppendMap, AppendUnion, AppendOther, NotAMember
    <2> QED
      BY <2>1, CallMarshalTraced, CallAppendTraced, FinishTraced
  <1> QED
    BY <1>1, <1>2, <1>3, <1>4, <1>5

LEMMA TracedAtInit ==
  ASSUME NEW Items, NEW W, NEW fast, NEW w, NEW m, Init
  PROVE  Traced(Items, W, fast, w, m)
  BY DEF Init, Traced

\* Append that has recorded what Marshal had has appended the same bytes.
LEMMA TracedSays ==
  ASSUME NEW Items, NEW W, NEW U, Agree(Items, W, U),
         NEW fast, NEW w, Traced(Items, W, fast, w, w)
  PROVE  AppendMatchesMarshal
  <1> SUFFICES ASSUME pass = "done", Len(buf) >= size
               PROVE  Appended = SubSeq(buf, 1, size)
    BY DEF AppendMatchesMarshal, Appended
  <1>1. Follows(Items, W, fast, Whole, w, First(buf, size), << >>, w, Appended)
    BY DEF Traced
  <1>2. Appended = First(buf, size)
    BY <1>1, FollowsEnds
  <1>3. Len(buf) \in Nat /\ size \in Nat /\ buf = [k \in 1 .. Len(buf) |-> buf[k]]
    BY DEF Agree, Typed, IsSeq
  <1>4. First(buf, size) = SubSeq(buf, 1, size)
    <2> DEFINE l == Len(buf)
               S == { buf[k] : k \in 1 .. l }
               P == SubSeq(buf, 1, size)
    <2>1. size \in Nat /\ l \in Nat /\ size <= l /\ \A k \in 1 .. size : buf[k] \in S
      BY <1>3
    <2> HIDE DEF S, l
    <2>2. /\ P \in Seq(S) /\ Len(P) = IF 1 <= size THEN size - 1 + 1 ELSE 0
          /\ \A k \in 1 .. size - 1 + 1 : P[k] = buf[1 + k - 1]
      BY <2>1, SubSeqProperties
    <2> HIDE DEF P
    <2>3. Len(P) = size /\ size - 1 + 1 = size /\ \A k \in 1 .. size : 1 + k - 1 = k
      BY <2>1, <2>2
    <2>4. P = [k \in 1 .. size |-> P[k]]
      BY <2>2, <2>3
    <2>5. \A k \in 1 .. size : P[k] = buf[k]
      BY <2>2, <2>3
    <2>6. First(buf, size) = P
      BY <2>4, <2>5 DEF First
    <2> QED
      BY <2>6 DEF P
  <1> QED
    BY <1>2, <1>4

\* No method visits a part with a hand-written codec.
LEMMA NextKind ==
  ASSUME Next, todo # << >>
  PROVE  Schema[Head(todo).t].kind \in
           { "fixed", "block", "string", "bytes", "slice", "array", "struct", "pointer",
             "map", "union" }
  <1>1. This = Schema[Head(todo).t]
    BY DEF This
  <1>2. SizeSlice \/ MarshalSlice \/ AppendSlice => This.kind = "slice"
    BY DEF SizeSlice, MarshalSlice, AppendSlice
  <1>3. SizeArray \/ MarshalArray \/ AppendArray => This.kind = "array"
    BY DEF SizeArray, MarshalArray, AppendArray
  <1>4. SizeMap \/ MarshalMap \/ AppendMap => This.kind = "map"
    BY DEF SizeMap, MarshalMap, AppendMap
  <1>5. SizeUnion \/ MarshalUnion \/ AppendUnion \/ NotAMember => This.kind = "union"
    BY DEF SizeUnion, MarshalUnion, AppendUnion, NotAMember
  <1>6. MarshalStruct => This.kind = "struct"
    BY DEF MarshalStruct
  <1>7. SizeOther \/ MarshalOther \/ AppendOther =>
          This.kind \in { "fixed", "block", "string", "bytes", "pointer", "struct" }
    BY DEF SizeOther, MarshalOther, AppendOther
  <1>8. ~CallMarshal /\ ~CallAppend /\ ~Finish
    BY DEF CallMarshal, CallAppend, Finish
  <1> QED
    BY <1>1, <1>2, <1>3, <1>4, <1>5, <1>6, <1>7, <1>8 DEF Next

\* Traced, of the state that a step leads to.
TracedThen(Items, W, fast, v, n) ==
  /\ pass' = "marshal" /\ Len(buf') >= size' =>
       Reached(Items, W, fast, Whole', todo', v, First(buf', i'))
  /\ pass' \in { "append", "done" } => Reached(Items, W, fast, Whole', todo', v, Appended')
  /\ pass' \in { "append", "done" } /\ Len(buf') >= size' =>
       Follows(Items, W, fast, Whole', n, First(buf', size'), todo', v, Appended')
  /\ pass' = "done" => todo' = << >>

LEMMA TracedStep ==
  ASSUME NEW Items, NEW depth, NEW rank, Encodable(Items, depth, rank),
         Before \subseteq Seq(Nat),
         NEW W, NEW U, Weighed(Items, W, U), Agree(Items, W, U),
         NEW fast, fast = ~Safe, NEW w, NEW m, Traced(Items, W, fast, w, m), Next,
         NEW v, NEW n, Recorded(fast, w, m, v, n)
  PROVE  TracedThen(Items, W, fast, v, n)
  <1>1. Traced(Items, W, fast, v, n)'
    BY TracedNext
  <1> QED
    BY <1>1 DEF Traced, TracedThen

-----------------------------------------------------------------------------
(***************************************************************************)
(* What the members of a sequence weigh, from what it weighs, for the      *)
(* lengths that safe mode compares with the bytes that follow.             *)
(***************************************************************************)
LEMMA TotalBounds ==
  ASSUME NEW q \in Seq(Nat)
  PROVE  /\ \A j \in 1 .. Len(q) : q[j] <= Total(q)
         /\ (\A j \in 1 .. Len(q) : q[j] > 0) => Len(q) <= Total(q)
  <1> DEFINE n == Len(q)
  <1>0. n \in Nat /\ \A k \in 1 .. n : q[k] \in Nat
    OBVIOUS
  <1>1. PICK f : Sums(f, q)
    BY SumsExist
  <1>2. f \in [0 .. n -> Nat] /\ f[0] = 0 /\ \A k \in 1 .. n : f[k] = f[k - 1] + q[k]
    BY <1>1 DEF Sums
  <1>3. Total(q) = f[n]
    BY <1>1, TotalIs
  <1> HIDE DEF n
  <1>4. ASSUME NEW j \in 1 .. n
        PROVE  q[j] <= f[n]
    <2> DEFINE T == { k \in Nat : j <= k /\ k <= n => q[j] <= f[k] }
    <2>1. 0 \in T
      BY <1>0
    <2>2. ASSUME NEW k \in T
          PROVE  k + 1 \in T
      <3> SUFFICES ASSUME j <= k + 1, k + 1 <= n
                   PROVE  q[j] <= f[k + 1]
        OBVIOUS
      <3>1. k + 1 \in 1 .. n /\ k \in 0 .. n /\ (k + 1) - 1 = k
        BY <1>0
      <3>2. f[k + 1] = f[k] + q[k + 1] /\ f[k] \in Nat /\ q[k + 1] \in Nat
        BY <3>1, <1>0, <1>2
      <3>3. CASE j = k + 1
        BY <3>2, <3>3
      <3>4. CASE j # k + 1
        <4>1. j <= k /\ k <= n
          BY <3>4, <1>0
        <4>2. q[j] <= f[k] /\ q[j] \in Nat
          BY <4>1, <1>0
        <4> QED
          BY <3>2, <4>2
      <3> QED
        BY <3>3, <3>4
    <2>3. T \in SUBSET Nat
      OBVIOUS
    <2> HIDE DEF T
    <2>4. T = Nat
      BY <2>1, <2>2, <2>3, SetInduction
    <2> QED
      BY <2>4, <1>0 DEF T
  <1>5. ASSUME \A j \in 1 .. n : q[j] > 0
        PROVE  n <= f[n]
    <2> DEFINE T == { k \in Nat : k <= n => k <= f[k] }
    <2>1. 0 \in T
      BY <1>0, <1>2
    <2>2. ASSUME NEW k \in T
          PROVE  k + 1 \in T
      <3> SUFFICES ASSUME k + 1 <= n
                   PROVE  k + 1 <= f[k + 1]
        OBVIOUS
      <3>1. k + 1 \in 1 .. n /\ k \in 0 .. n /\ (k + 1) - 1 = k /\ k <= n
        BY <1>0
      <3>2. f[k + 1] = f[k] + q[k + 1] /\ f[k] \in Nat /\ q[k + 1] \in Nat /\ q[k + 1] > 0
        BY <3>1, <1>0, <1>2, <1>5
      <3>3. k <= f[k]
        BY <3>1
      <3> QED
        BY <3>2, <3>3
    <2>3. T \in SUBSET Nat
      OBVIOUS
    <2> HIDE DEF T
    <2>4. T = Nat
      BY <2>1, <2>2, <2>3, SetInduction
    <2> QED
      BY <2>4, <1>0 DEF T
  <1> QED
    BY <1>3, <1>4, <1>5 DEF n

\* The members of s.
LEMMA LoadBounds ==
  ASSUME NEW S, NEW W \in [S -> Nat], NEW s \in Seq(S)
  PROVE  /\ \A j \in 1 .. Len(s) : s[j] \in S /\ W[s[j]] \in Nat /\ W[s[j]] <= Load(W, s)
         /\ (\A j \in 1 .. Len(s) : W[s[j]] > 0) => Len(s) <= Load(W, s)
  <1> DEFINE q == [k \in 1 .. Len(s) |-> W[s[k]]]
  <1>1. q \in Seq(Nat) /\ Len(q) = Len(s)
    BY WeightsAre
  <1>2. \A k \in 1 .. Len(s) : q[k] = W[s[k]] /\ s[k] \in S /\ W[s[k]] \in Nat
    OBVIOUS
  <1>3. Load(W, s) = Total(q)
    BY DEF Load
  <1> HIDE DEF q
  <1>4. /\ \A j \in 1 .. Len(q) : q[j] <= Total(q)
        /\ (\A j \in 1 .. Len(q) : q[j] > 0) => Len(q) <= Total(q)
    BY <1>1, TotalBounds
  <1> QED
    BY <1>1, <1>2, <1>3, <1>4

\* A part of what weighs nothing weighs nothing.
LEMMA NoneWeighs ==
  ASSUME NEW S, NEW U \in [S -> Nat], NEW s \in Seq(S), Load(U, s) = 0
  PROVE  \A j \in 1 .. Len(s) : U[s[j]] = 0
  <1>1. \A j \in 1 .. Len(s) : U[s[j]] \in Nat /\ U[s[j]] <= Load(U, s)
    BY LoadBounds
  <1> QED
    BY <1>1

KeysHave(W, x, s) == \A k \in 1 .. Len(s) : W[Item(Schema[x.t].elems[1], s[k][1])] > 0

\* A map with a byte in each key has a byte for each entry.
LEMMA KeysWeigh ==
  ASSUME NEW Items, NEW depth, Trees(Items, depth), NEW x \in Items, Schema[x.t].kind = "map",
         NEW s \in SetToSeqs(x.v), NEW W \in [Items -> Nat], KeysHave(W, x, s)
  PROVE  Len(s) <= Load(W, EntriesOf(x, s))
  <1> DEFINE a == Schema[x.t].elems[1]
             b == Schema[x.t].elems[2]
             w == [p \in x.v |-> W[Item(a, p[1])] + W[Item(b, p[2])]]
             E == EntriesOf(x, s)
  <1>1. /\ s \in Seq(x.v) /\ Len(s) \in Nat /\ E \in Seq(Items) /\ Len(E) = 2 * Len(s)
        /\ \A k \in 1 .. Len(s) : E[2 * k - 1] = Item(a, s[k][1]) /\ E[2 * k] = Item(b, s[k][2])
        /\ \A p \in x.v : Item(a, p[1]) \in Items /\ Item(b, p[2]) \in Items
    BY EntriesAre DEF Under
  <1>2. w \in [x.v -> Nat]
    BY <1>1
  <1>3. \A p \in x.v : w[p] = W[Item(a, p[1])] + W[Item(b, p[2])]
    OBVIOUS
  <1>p. \A k \in 1 .. Len(s) : W[Item(a, s[k][1])] > 0
    BY DEF KeysHave
  <1> HIDE DEF w, E
  <1>4. \A k \in 1 .. Len(s) : s[k] \in x.v
    BY <1>1, ElementOfSeq
  <1>5. Doubles(W, E, w, s)
    <2>1. \A k \in 1 .. Len(s) : W[E[2 * k - 1]] + W[E[2 * k]] = w[s[k]]
      BY <1>1, <1>3, <1>4
    <2>2. Len(E) = 2 * Len(s)
      BY <1>1
    <2> QED
      BY <2>1, <2>2 DEF Doubles
  <1>6. Load(W, E) = Load(w, s)
    <2> DEFINE V == x.v
    <2>1. s \in Seq(V) /\ E \in Seq(Items) /\ w \in [V -> Nat]
      BY <1>1, <1>2
    <2> HIDE DEF V
    <2> QED
      BY <2>1, <1>5, SMTT(60), LoadPairs
  <1>7. ASSUME NEW k \in 1 .. Len(s)
        PROVE  w[s[k]] > 0
    <2>1. /\ W[Item(a, s[k][1])] \in Nat /\ W[Item(b, s[k][2])] \in Nat
          /\ W[Item(a, s[k][1])] > 0
      BY <1>1, <1>4, <1>p
    <2> QED
      BY <1>3, <1>4, <2>1
  <1>8. Len(s) <= Load(w, s)
    BY <1>1, <1>2, <1>7, LoadBounds
  <1> QED
    BY <1>6, <1>8 DEF E
=============================================================================
