-------------------------- MODULE GeneratorProofs --------------------------
(***************************************************************************)
(* Proofs about goserdegen: about its runs, for every package, every       *)
(* method set and every set of output names; and about how it classifies   *)
(* the types of a package.                                                 *)
(***************************************************************************)
EXTENDS Generator, TypeClass, WellFoundedInduction, TLAPS

-----------------------------------------------------------------------------
(***************************************************************************)
(* The shape of the state.                                                 *)
(***************************************************************************)
\* Every file is absent, broken or a set of codecs, and only declared methods
\* of codecMethodNames are kept of the user's files.
FileOK == file \in [Out -> [state : { "absent", "broken", "code" }, codecs : SUBSET Type]]

TypeOK ==
  /\ marked \subseteq Type
  /\ hand \in [Type -> SUBSET Method]
  /\ pasted \in [Type -> SUBSET Method]
  /\ used \subseteq Type
  /\ FileOK
  /\ ran \in Out

\* Init establishes the shape and every action keeps it.
LEMMA TypeInit ==
  ASSUME Init
  PROVE  TypeOK
  BY DEF Init, TypeOK, FileOK, NoFile

LEMMA TypeStep ==
  ASSUME TypeOK, [Next]_vars
  PROVE  TypeOK'
  <1> USE DEF TypeOK, FileOK
  <1>1. ASSUME NEW out \in Out, Run(out)
        PROVE  TypeOK'
    BY <1>1 DEF Run, Code
  <1>2. ASSUME NEW out \in Out, RunFails(out)
        PROVE  TypeOK'
    BY <1>2 DEF RunFails
  <1>3. ASSUME NEW out \in Out, RunCutShort(out)
        PROVE  TypeOK'
    BY <1>3 DEF RunCutShort, Broken
  <1>4. ASSUME NEW t \in Type, Mark(t)
        PROVE  TypeOK'
    BY <1>4 DEF Mark, Edited
  <1>5. ASSUME NEW t \in Type, Use(t)
        PROVE  TypeOK'
    BY <1>5 DEF Use, Edited
  <1>6. ASSUME NEW t \in Type, NEW m \in Method, WriteMethod(t, m)
        PROVE  TypeOK'
    BY <1>6 DEF WriteMethod, Edited
  <1>7. ASSUME NEW t \in Type, RemoveMethods(t)
        PROVE  TypeOK'
    BY <1>7 DEF RemoveMethods, Edited
  <1>8. ASSUME NEW t \in Type, NEW out \in Out, Adopt(t, out)
        PROVE  TypeOK'
    BY <1>8 DEF Adopt
  <1>9. ASSUME NEW out \in Out, Spoil(out)
        PROVE  TypeOK'
    BY <1>9 DEF Spoil, NoFile, Broken
  <1>10. CASE UNCHANGED vars
    BY <1>10 DEF vars
  <1> QED
    BY <1>1, <1>2, <1>3, <1>4, <1>5, <1>6, <1>7, <1>8, <1>9, <1>10 DEF Next

-----------------------------------------------------------------------------
(***************************************************************************)
(* What a run reads.                                                       *)
(***************************************************************************)
\* A step that changes only the file out changes nothing a run to out reads.
LEMMA OutputUnread ==
  ASSUME TypeOK, NEW out \in Out,
         NEW f, file' = [file EXCEPT ![out] = f],
         UNCHANGED <<marked, hand, pasted, used>>
  PROVE  Succeeds(out)' = Succeeds(out)
  <1>1. Others(out)' = Others(out) /\ out \notin Others(out)
    BY DEF Others, Present, TypeOK, FileOK
  <1>2. \A o \in Others(out) : o \in Out /\ file'[o] = file[o]
    BY <1>1 DEF Others, Present, TypeOK, FileOK
  <1>3. \A t : GeneratedMethods(Others(out), t)' = GeneratedMethods(Others(out), t)
    BY <1>1, <1>2 DEF GeneratedMethods
  <1>4. \A t : Methods(Others(out), t)' = Methods(Others(out), t)
    BY <1>3 DEF Methods
  <1>5. /\ Unparsable(Others(out))' = Unparsable(Others(out))
        /\ Redeclared(Others(out))' = Redeclared(Others(out))
        /\ Unresolved(Others(out))' = Unresolved(Others(out))
    BY <1>1, <1>2, <1>3, <1>4 DEF Unparsable, Redeclared, Unresolved, Calls
  <1>6. /\ Partial(Others(out))' = Partial(Others(out))
        /\ Owned(Others(out))' = Owned(Others(out))
    BY <1>4 DEF Partial, Owned
  <1> QED
    BY <1>5, <1>6 DEF Succeeds, Loads, FieldsSupported

\* Nothing is read when nothing changes.
LEMMA Unchanged ==
  ASSUME UNCHANGED <<marked, hand, pasted, used, file, ran>>
  PROVE  Succeeds(ran)' = Succeeds(ran)
  BY DEF Succeeds, Loads, FieldsSupported, Others, Present, Unparsable, Redeclared,
         Unresolved, Partial, Owned, Methods, GeneratedMethods, Calls

-----------------------------------------------------------------------------
(***************************************************************************)
(* Regeneration.                                                           *)
(***************************************************************************)
\* A run that succeeded can be repeated, whatever became of its output: the
\* invariant is inductive, because every event but one that harms only the
\* output counts as an edit.
LEMMA RegeneratesStep ==
  ASSUME TypeOK, Regenerates, [Next]_vars
  PROVE  Regenerates'
  <1> USE DEF Regenerates
  <1>1. ASSUME NEW out \in Out, Run(out)
        PROVE  Regenerates'
    <2>1. Succeeds(out)' = Succeeds(out)
      BY <1>1, OutputUnread DEF Run
    <2>2. ran' = out /\ Succeeds(out)
      BY <1>1 DEF Run
    <2> QED
      BY <2>1, <2>2 DEF Succeeds
  <1>2. ASSUME NEW out \in Out, RunFails(out)
        PROVE  Regenerates'
    BY <1>2, Unchanged DEF RunFails
  <1>3. ASSUME NEW out \in Out, UNCHANGED <<marked, hand, pasted, used, ran>>,
               NEW f, file' = [file EXCEPT ![out] = f], since' = Harms(out)
        PROVE  Regenerates'
    <2>1. CASE since' = "edited"
      BY <2>1
    <2>2. CASE since' # "edited"
      <3>1. out = ran /\ since \in { "nothing", "output" }
        BY <1>3, <2>2 DEF Harms
      <3>2. Succeeds(ran)
        BY <3>1
      <3>3. Succeeds(out)' = Succeeds(out)
        BY <1>3, OutputUnread
      <3> QED
        BY <1>3, <3>1, <3>2, <3>3 DEF Succeeds
    <2> QED
      BY <2>1, <2>2
  <1>4. ASSUME NEW out \in Out, RunCutShort(out)
        PROVE  Regenerates'
    BY <1>3, <1>4 DEF RunCutShort
  <1>5. ASSUME NEW out \in Out, Spoil(out)
        PROVE  Regenerates'
    <2>1. PICK f : file' = [file EXCEPT ![out] = f]
      BY <1>5 DEF Spoil
    <2> QED
      BY <1>3, <1>5, <2>1 DEF Spoil
  <1>6. ASSUME since' = "edited" \/ since' = "adopted"
        PROVE  Regenerates'
    BY <1>6
  <1>7. ASSUME NEW t \in Type, NEW m \in Method, NEW out \in Out,
               Mark(t) \/ Use(t) \/ WriteMethod(t, m) \/ RemoveMethods(t) \/ Adopt(t, out)
        PROVE  Regenerates'
    BY <1>6, <1>7 DEF Mark, Use, WriteMethod, RemoveMethods, Adopt, Edited
  <1>8. CASE UNCHANGED vars
    BY <1>8, Unchanged DEF vars
  <1>9. Out # {} /\ Method # {}
    BY GeneratorAssumption DEF TypeOK
  <1> QED
    BY <1>1, <1>2, <1>4, <1>5, <1>7, <1>8, <1>9 DEF Next

\* README.md: a stale or broken copy of the out file cannot break regeneration.
THEOREM StaleOutputIsHarmless == Spec => []Regenerates
  <1>1. Init => TypeOK /\ Regenerates
    BY TypeInit DEF Init, Regenerates
  <1>2. TypeOK /\ Regenerates /\ [Next]_vars => TypeOK' /\ Regenerates'
    BY TypeStep, RegeneratesStep
  <1> QED
    BY <1>1, <1>2, PTL DEF Spec

-----------------------------------------------------------------------------
(***************************************************************************)
(* One codec each.                                                         *)
(***************************************************************************)
\* After Run(out) a struct has the codecs that were read and, in out, one for
\* each target that is not user-owned.
LEMMA AfterRun ==
  ASSUME TypeOK, NEW out \in Out, Run(out)
  PROVE  /\ Present' = Others(out) \cup { out }
         /\ out \notin Others(out)
         /\ file'[out].codecs = marked \ Owned(Others(out))
         /\ file'[out].state = "code"
         /\ \A o \in Others(out) : o \in Out /\ file'[o] = file[o]
         /\ \A t : (\E o \in Present' : t \in file'[o].codecs)
                   <=> \/ \E o \in Others(out) : t \in file[o].codecs
                       \/ t \in marked \ Owned(Others(out))
  <1>1. file'[out] = Code(marked \ Owned(Others(out)))
    BY DEF Run, TypeOK, FileOK
  <1>2. \A o \in Out \ { out } : file'[o] = file[o]
    BY DEF Run, TypeOK, FileOK
  <1>3. file'[out].codecs = marked \ Owned(Others(out)) /\ file'[out].state = "code"
    BY <1>1 DEF Code
  <1>4. Present' = Others(out) \cup { out } /\ out \notin Others(out)
    BY <1>2, <1>3 DEF Present, Others
  <1>5. \A o \in Others(out) : o \in Out /\ file'[o] = file[o]
    BY <1>2 DEF Present, Others
  <1> QED
    BY <1>3, <1>4, <1>5

\* A target that is not user-owned has no codec before the run, hand-written
\* or generated.
LEMMA NotOwned ==
  ASSUME TypeOK, NEW os, Loads(os), NEW t \in marked \ Owned(os)
  PROVE  hand[t] = {} /\ \A o \in os : t \notin file[o].codecs
  <1>1. Methods(os, t) = {}
    BY DEF Loads, Partial, Owned
  <1>2. GeneratedMethods(os, t) = {} /\ hand[t] = {}
    BY <1>1 DEF Methods
  <1> QED
    BY <1>2, GeneratorAssumption DEF GeneratedMethods

\* A successful run leaves a package that compiles.
LEMMA RunGivesOneCodecEach ==
  ASSUME TypeOK, NEW out \in Out, Run(out)
  PROVE  OneCodecEach'
  <1> DEFINE os == Others(out)
             New == marked \ Owned(os)
  <1>0. /\ Loads(os) /\ FieldsSupported(os) /\ marked \subseteq Type
        /\ UNCHANGED <<marked, hand, pasted, used>>
    BY DEF Run, Succeeds, TypeOK
  <1>1. ~Unparsable(Present)'
    BY AfterRun, <1>0 DEF Unparsable, Loads
  <1>2. ~Redeclared(Present)'
    <2>1. ~Redeclared(os)
      BY <1>0 DEF Loads
    <2>2. ASSUME NEW t \in Type, hand[t] # {}, NEW o \in Present', t \in file'[o].codecs
          PROVE  FALSE
      <3>1. CASE t \in New
        BY <1>0, <2>2, <3>1, NotOwned
      <3>2. CASE \E p \in os : t \in file[p].codecs
        BY <2>1, <2>2, <3>2, GeneratorAssumption DEF Redeclared, GeneratedMethods
      <3> QED
        BY <2>2, <3>1, <3>2, AfterRun
    <2>3. ASSUME NEW t \in Type, NEW o \in Present', NEW p \in Present', o # p,
                 t \in file'[o].codecs, t \in file'[p].codecs
          PROVE  FALSE
      <3>1. CASE o \in os /\ p \in os
        BY <2>1, <2>3, <3>1, AfterRun DEF Redeclared
      <3>2. CASE o = out
        BY <1>0, <2>3, <3>2, AfterRun, NotOwned
      <3>3. CASE p = out
        BY <1>0, <2>3, <3>3, AfterRun, NotOwned
      <3> QED
        BY <3>1, <3>2, <3>3, AfterRun
    <2> QED
      BY <1>0, <2>2, <2>3 DEF Redeclared, GeneratedMethods
  <1>3. \A t : GeneratedMethods(Present, t)' = IF t \in New THEN Method ELSE GeneratedMethods(os, t)
    BY AfterRun DEF GeneratedMethods
  <1>4. \A t : Methods(os, t) \subseteq Methods(Present, t)'
    BY <1>0, <1>3 DEF Methods, GeneratedMethods
  <1>5. \A t \in Type : Methods(Present, t)' \subseteq Method
    BY <1>0, <1>3 DEF Methods, GeneratedMethods, TypeOK
  <1>6. \A t \in marked : Methods(Present, t)' = Method
    <2> TAKE t \in marked
    <2>1. CASE t \in New
      BY <1>0, <1>3, <1>5, <2>1 DEF Methods
    <2>2. CASE t \in Owned(os)
      BY <1>0, <1>4, <1>5, <2>2 DEF Owned
    <2> QED
      BY <2>1, <2>2
  <1>7. ~Unresolved(Present)'
    <2>1. ~Unresolved(os)
      BY <1>0 DEF Loads
    <2>2. \A t \in used : Methods(Present, t)' = Method
      BY <1>4, <1>5, <2>1 DEF Unresolved, TypeOK
    <2>3. ASSUME NEW t \in Type, NEW d \in Calls(t)
          PROVE  pasted[t] \cup GeneratedMethods(Present, t)' \subseteq Methods(Present, d)'
      <3>1. CASE t \in New
        <4>1. d \in marked
          BY <1>0, <2>3, <3>1 DEF FieldsSupported, Loads, Calls
        <4>2. pasted[t] \subseteq Method
          BY DEF TypeOK
        <4> QED
          BY <1>3, <1>6, <3>1, <4>1, <4>2
      <3>2. CASE t \notin New
        <4>1. pasted[t] \cup GeneratedMethods(os, t) \subseteq Methods(os, d)
          BY <2>1, <2>3 DEF Unresolved
        <4> QED
          BY <1>3, <1>4, <3>2, <4>1
      <3> QED
        BY <3>1, <3>2
    <2> QED
      BY <1>0, <2>2, <2>3 DEF Unresolved, Calls
  <1> QED
    BY <1>0, <1>1, <1>2, <1>6, <1>7 DEF OneCodecEach

\* Nothing but a run leaves the result "ok", and then nothing has changed.
LEMMA OneCodecEachStep ==
  ASSUME TypeOK, OneCodecEach, [Next]_vars
  PROVE  OneCodecEach'
  <1>1. ASSUME NEW out \in Out, Run(out)
        PROVE  OneCodecEach'
    BY <1>1, RunGivesOneCodecEach
  <1>2. ASSUME result' # "ok"
        PROVE  OneCodecEach'
    BY <1>2 DEF OneCodecEach
  <1>3. CASE UNCHANGED vars
    BY <1>3 DEF vars, OneCodecEach, Present, Unparsable, Redeclared, Unresolved,
                Methods, GeneratedMethods, Calls
  <1>4. ASSUME NEW out \in Out, RunFails(out) \/ RunCutShort(out) \/ Spoil(out)
        PROVE  result' # "ok"
    BY <1>4 DEF RunFails, RunCutShort, Spoil
  <1>5. ASSUME NEW t \in Type, NEW m \in Method, NEW out \in Out,
               Mark(t) \/ Use(t) \/ WriteMethod(t, m) \/ RemoveMethods(t) \/ Adopt(t, out)
        PROVE  result' # "ok"
    BY <1>5 DEF Mark, Use, WriteMethod, RemoveMethods, Adopt, Edited
  <1>6. Out # {} /\ Method # {}
    BY GeneratorAssumption DEF TypeOK
  <1> QED
    BY <1>1, <1>2, <1>3, <1>4, <1>5, <1>6 DEF Next

\* After a successful run no method is declared twice and none is missing.
THEOREM EveryTargetHasOneCodec == Spec => []OneCodecEach
  <1>1. Init => TypeOK /\ OneCodecEach
    BY TypeInit DEF Init, OneCodecEach
  <1>2. TypeOK /\ OneCodecEach /\ [Next]_vars => TypeOK' /\ OneCodecEach'
    BY TypeStep, OneCodecEachStep
  <1> QED
    BY <1>1, <1>2, PTL DEF Spec
-----------------------------------------------------------------------------
(***************************************************************************)
(* FieldsOf goes from the last field to the first.                         *)
(***************************************************************************)

LEMMA Downward ==
  ASSUME NEW n \in Nat, NEW T, n + 1 \in T, \A k \in T : k \in 2 .. n + 1 => k - 1 \in T
  PROVE  \A k \in 1 .. n + 1 : k \in T
  <1> DEFINE Missing == { j \in Nat : j <= n /\ n + 1 - j \notin T }
             R == OpToRel(<, Nat)
  <1> SUFFICES ASSUME NEW k \in 1 .. n + 1, k \notin T
               PROVE  FALSE
    OBVIOUS
  <1>1. IsWellFoundedOn(R, Nat)
    BY NatLessThanWellFounded
  <1>2. \A i, j \in Nat : i < j => <<i, j>> \in R
    BY DEF OpToRel
  <1>3. n + 1 - k \in Missing
    <2>1. n + 1 - k \in Nat /\ n + 1 - k <= n /\ n + 1 - (n + 1 - k) = k
      OBVIOUS
    <2> QED
      BY <2>1
  <1>4. Missing \subseteq Nat /\ Missing # {}
    BY <1>3
  <1> HIDE DEF R
  <1>5. PICK j \in Missing : \A i \in Missing : ~(<<i, j>> \in R)
    <2> HIDE DEF Missing
    <2> QED
      BY <1>1, <1>4, WFMin
  <1>6. j \in Nat /\ j <= n /\ n + 1 - j \notin T
    OBVIOUS
  <1>7. CASE j = 0
    BY <1>6, <1>7
  <1>8. CASE j # 0
    <2>1. j - 1 \in Nat /\ j - 1 < j /\ j - 1 <= n
      BY <1>6, <1>8
    <2>2. j - 1 \notin Missing
      BY <1>2, <1>5, <1>6, <2>1
    <2>3. n + 1 - (j - 1) \in T
      BY <2>1, <2>2
    <2> DEFINE i == n + 1 - (j - 1)
    <2>4. i \in 2 .. n + 1 /\ i - 1 = n + 1 - j
      BY <1>6, <2>1
    <2>5. i \in T
      BY <2>3
    <2> HIDE DEF i
    <2>6. i - 1 \in T
      BY <2>4, <2>5
    <2> QED
      BY <1>6, <2>4, <2>6
  <1> QED
    BY <1>7, <1>8

\* What FieldsOf keeps of the k-th of the fields e.
Kept(e, skip, k) == IF k \in skip THEN << >> ELSE <<e[k]>>

\* f[k] is what is kept of the fields from k on.
From(f, e, skip, m) ==
  f = [k \in m .. Len(e) + 1 |->
         IF k > Len(e) THEN << >> ELSE Kept(e, skip, k) \o f[k + 1]]

LEMMA FromExists ==
  ASSUME NEW S, NEW e \in Seq(S), NEW skip
  PROVE  \E f : From(f, e, skip, 1)
  <1> DEFINE n == Len(e)
             T == { k \in 1 .. n + 1 : \E f : From(f, e, skip, k) }
  <1>1. n \in Nat
    OBVIOUS
  <1>2. n + 1 \in T
    <2> DEFINE f == [k \in n + 1 .. n + 1 |-> << >>]
    <2>1. \A k \in n + 1 .. n + 1 : k > n
      BY <1>1
    <2>2. From(f, e, skip, n + 1)
      BY <2>1 DEF From
    <2> QED
      BY <1>1, <2>2
  <1>3. ASSUME NEW k \in T, k \in 2 .. n + 1
        PROVE  k - 1 \in T
    <2>1. PICK f : From(f, e, skip, k)
      OBVIOUS
    <2> DEFINE g == [j \in k - 1 .. n + 1 |->
                       IF j = k - 1 THEN Kept(e, skip, k - 1) \o f[k] ELSE f[j]]
    <2>2. \A j \in k .. n + 1 : g[j] = f[j]
      BY <1>1
    <2>3. g[k - 1] = Kept(e, skip, k - 1) \o f[k]
      <3>1. k - 1 \in k - 1 .. n + 1
        BY <1>1, <1>3
      <3> QED
        BY <3>1
    <2>4. \A j \in k .. n + 1 :
            f[j] = IF j > n THEN << >> ELSE Kept(e, skip, j) \o f[j + 1]
      BY <2>1 DEF From
    <2>5. ASSUME NEW j \in k - 1 .. n + 1
          PROVE  g[j] = IF j > n THEN << >> ELSE Kept(e, skip, j) \o g[j + 1]
      <3> HIDE DEF g
      <3>1. CASE j = k - 1
        <4>1. ~(j > n) /\ j + 1 = k /\ k \in k .. n + 1
          BY <1>1, <1>3, <3>1
        <4> QED
          BY <2>2, <2>3, <3>1, <4>1
      <3>2. CASE j # k - 1 /\ j > n
        <4>1. j \in k .. n + 1
          BY <1>1, <1>3, <3>2
        <4> QED
          BY <2>2, <2>4, <3>2, <4>1
      <3>3. CASE j # k - 1 /\ ~(j > n)
        <4>1. j \in k .. n + 1 /\ j + 1 \in k .. n + 1
          BY <1>1, <1>3, <3>3
        <4> QED
          BY <2>2, <2>4, <3>3, <4>1
      <3> QED
        BY <3>1, <3>2, <3>3
    <2>6. g = [j \in k - 1 .. n + 1 |-> g[j]]
      OBVIOUS
    <2> HIDE DEF g
    <2>7. From(g, e, skip, k - 1)
      BY <2>5, <2>6 DEF From
    <2>8. k - 1 \in 1 .. n + 1
      BY <1>1, <1>3
    <2> QED
      BY <2>7, <2>8
  <1>4. 1 \in T
    <2> HIDE DEF T, n
    <2>1. \A k \in 1 .. n + 1 : k \in T
      BY <1>1, <1>2, <1>3, Downward
    <2> QED
      BY <1>1, <2>1
  <1> QED
    BY <1>4

\* If as many fields are serialized as there are, none is skipped.
LEMMA AllKept ==
  ASSUME NEW S, NEW e \in Seq(S), NEW skip, NEW f, From(f, e, skip, 1),
         Len(f[1]) = Len(e)
  PROVE  skip \cap DOMAIN e = {}
  <1> DEFINE n == Len(e)
             T == { k \in 1 .. n + 1 :
                      /\ f[k] \in Seq(S) /\ Len(f[k]) <= n + 1 - k
                      /\ Len(f[k]) = n + 1 - k => \A j \in k .. n : j \notin skip }
  <1>1. n \in Nat /\ DOMAIN e = 1 .. n /\ \A k \in 1 .. n : e[k] \in S
    OBVIOUS
  <1>2. /\ f[n + 1] = << >>
        /\ \A k \in 1 .. n : f[k] = Kept(e, skip, k) \o f[k + 1]
    <2>1. \A k \in 1 .. n + 1 : f[k] = IF k > n THEN << >> ELSE Kept(e, skip, k) \o f[k + 1]
      BY DEF From
    <2> HIDE DEF n
    <2>2. n + 1 \in 1 .. n + 1 /\ n + 1 > n
      BY <1>1
    <2>3. \A k \in 1 .. n : k \in 1 .. n + 1 /\ ~(k > n)
      BY <1>1
    <2> QED
      BY <2>1, <2>2, <2>3
  <1> HIDE DEF n
  <1>3. n + 1 \in T
    <2>1. << >> \in Seq(S) /\ Len(<< >>) = 0
      OBVIOUS
    <2> DEFINE m == n + 1
    <2>2. m \in 1 .. n + 1 /\ n + 1 - m = 0 /\ \A j \in m .. n : FALSE
      BY <1>1
    <2>3. f[m] \in Seq(S) /\ Len(f[m]) = 0
      BY <1>2, <2>1
    <2> HIDE DEF m
    <2>4. m \in T
      BY <2>2, <2>3
    <2> QED
      BY <2>4 DEF m
  <1>4. ASSUME NEW k \in T, k \in 2 .. n + 1
        PROVE  k - 1 \in T
    <2> DEFINE i == k - 1
               a == Kept(e, skip, i)
               b == f[k]
    <2>1. i \in 1 .. n /\ i + 1 = k /\ i \in 1 .. n + 1
      BY <1>1, <1>4
    <2>2. /\ b \in Seq(S) /\ Len(b) \in Nat /\ Len(b) <= n - i
          /\ Len(b) = n - i => \A j \in k .. n : j \notin skip
      <3>1. /\ b \in Seq(S) /\ Len(b) <= n + 1 - k
            /\ Len(b) = n + 1 - k => \A j \in k .. n : j \notin skip
        OBVIOUS
      <3>2. n + 1 - k = n - i
        BY <1>1, <2>1
      <3>3. Len(b) \in Nat
        BY <3>1
      <3> QED
        BY <3>1, <3>2, <3>3
    <2>3. f[i] = a \o b
      BY <1>2, <2>1
    <2>4. /\ a \in Seq(S)
          /\ i \in skip => Len(a) = 0
          /\ i \notin skip => Len(a) = 1
      <3>1. e[i] \in S
        BY <1>1, <2>1
      <3> HIDE DEF i
      <3> QED
        BY <3>1 DEF Kept
    <2> HIDE DEF i, a, b
    <2>5. f[i] \in Seq(S) /\ Len(f[i]) = Len(a) + Len(b)
      BY <2>2, <2>3, <2>4
    <2>6. Len(f[i]) <= n + 1 - i /\ (Len(f[i]) = n + 1 - i => i \notin skip /\ Len(b) = n - i)
      <3> DEFINE x == Len(a)
                 y == Len(b)
                 z == Len(f[i])
      <3>1. y \in Nat /\ y <= n - i /\ z = x + y /\ (x = 0 \/ x = 1) /\ (i \in skip => x = 0)
        BY <2>2, <2>4, <2>5
      <3> HIDE DEF x, y, z
      <3>2. z <= n + 1 - i /\ (z = n + 1 - i => i \notin skip /\ y = n - i)
        BY <1>1, <2>1, <3>1
      <3> QED
        BY <3>2 DEF y, z
    <2>7. ASSUME Len(f[i]) = n + 1 - i
          PROVE  \A j \in i .. n : j \notin skip
      <3>1. i \notin skip /\ Len(b) = n - i
        BY <2>6, <2>7
      <3>2. \A j \in i .. n : j = i \/ j \in k .. n
        BY <1>1, <2>1
      <3> QED
        BY <2>2, <3>1, <3>2
    <2> QED
      BY <2>1, <2>5, <2>6, <2>7 DEF i
  <1>5. 1 \in T
    <2> HIDE DEF T
    <2>1. \A k \in 1 .. n + 1 : k \in T
      BY <1>1, <1>3, <1>4, Downward
    <2> QED
      BY <1>1, <2>1
  <1>6. \A j \in 1 .. n : j \notin skip
    BY <1>1, <1>5 DEF n
  <1> QED
    BY <1>1, <1>6

LEMMA FieldsOfFrom ==
  ASSUME NEW t \in GoType, Go[t].elems \in Seq(GoType)
  PROVE  \E f : From(f, Go[t].elems, Go[t].skip, 1) /\ FieldsOf(t) = f[1]
  <1> DEFINE e == Go[t].elems
             skip == Go[t].skip
             is(f) == f = [k \in 1 .. Len(e) + 1 |->
                             IF k > Len(e) THEN << >>
                             ELSE (IF k \in skip THEN << >> ELSE <<e[k]>>) \o f[k + 1]]
             from == CHOOSE f : is(f)
  <1>1. \A f : is(f) <=> From(f, e, skip, 1)
    BY DEF From, Kept
  <1>2. \E f : is(f)
    BY <1>1, FromExists
  <1> HIDE DEF is
  <1>3. is(from)
    BY <1>2
  <1>4. FieldsOf(t) = from[1]
    BY DEF FieldsOf, is
  <1> HIDE DEF from
  <1> QED
    BY <1>1, <1>3, <1>4

LEMMA BlittableIsWhole ==
  ASSUME Declarations, NEW t \in GoType, Blittable(t)
  PROVE  t \notin Skipping
  <1>1. Go[t].elems \in Seq(GoType)
    BY DEF Declarations
  <1>2. PICK f : From(f, Go[t].elems, Go[t].skip, 1) /\ FieldsOf(t) = f[1]
    BY <1>1, FieldsOfFrom
  <1>3. Len(f[1]) = Len(Go[t].elems)
    BY <1>2 DEF Blittable
  <1>4. Go[t].skip \cap DOMAIN Go[t].elems = {}
    BY <1>1, <1>2, <1>3, AllKept
  <1> QED
    BY <1>4 DEF Skipping

-----------------------------------------------------------------------------
(***************************************************************************)
(* MemCopyable recurses through arrays; there is a function that does, the *)
(* least one, in packages where an array contains itself as well.          *)
(***************************************************************************)
Word(u) == Go[u].of = "basic" /\ ~Go[u].word

Copyable(f) ==
  f = [u \in GoType |-> \/ Go[u].of = "basic" /\ ~Go[u].word
                        \/ Go[u].of = "array" /\ f[Elem(u)]]

LEMMA CopyableExists ==
  ASSUME Declarations
  PROVE  \E f : Copyable(f)
  <1> DEFINE Closed(X) ==
               \A u \in GoType : Word(u) \/ (Go[u].of = "array" /\ Elem(u) \in X) => u \in X
             S == { u \in GoType : \A X \in SUBSET GoType : Closed(X) => u \in X }
             f == [u \in GoType |-> u \in S]
  <1>1. \A u \in GoType : Go[u].of = "array" => Elem(u) \in GoType
    BY DEF Declarations
  <1>2. Closed(S)
    OBVIOUS
  <1>3. ASSUME NEW u \in S
        PROVE  Word(u) \/ (Go[u].of = "array" /\ Elem(u) \in S)
    <2> SUFFICES ASSUME ~(Word(u) \/ (Go[u].of = "array" /\ Elem(u) \in S))
                 PROVE  FALSE
      OBVIOUS
    <2> DEFINE X == S \ { u }
    <2>1. Closed(X)
      <3> SUFFICES ASSUME NEW v \in GoType, Word(v) \/ (Go[v].of = "array" /\ Elem(v) \in X)
                   PROVE  v \in X
        OBVIOUS
      <3>1. Word(v) \/ (Go[v].of = "array" /\ Elem(v) \in S)
        OBVIOUS
      <3> HIDE DEF S
      <3>2. v \in S
        BY <1>2, <3>1
      <3>3. v # u
        BY <3>1
      <3> QED
        BY <3>2, <3>3
    <2>2. X \in SUBSET GoType /\ u \notin X
      OBVIOUS
    <2> HIDE DEF X
    <2> QED
      BY <2>1, <2>2
  <1> HIDE DEF S
  <1>4. ASSUME NEW u \in GoType
        PROVE  u \in S <=> \/ Go[u].of = "basic" /\ ~Go[u].word
                           \/ Go[u].of = "array" /\ f[Elem(u)]
    <2>1. Go[u].of = "array" => (f[Elem(u)] <=> Elem(u) \in S)
      BY <1>1
    <2> HIDE DEF f
    <2> QED
      BY <1>2, <1>3, <2>1 DEF Word
  <1>5. ASSUME NEW u \in GoType
        PROVE  (u \in S) = (\/ Go[u].of = "basic" /\ ~Go[u].word
                            \/ Go[u].of = "array" /\ f[Elem(u)])
    <2> DEFINE a == u \in S
               b == \/ Go[u].of = "basic" /\ ~Go[u].word
                    \/ Go[u].of = "array" /\ f[Elem(u)]
    <2>1. a <=> b
      BY <1>4
    <2>2. a \in BOOLEAN /\ b \in BOOLEAN
      OBVIOUS
    <2> HIDE DEF a, b
    <2>3. a = b
      BY <2>1, <2>2
    <2> QED
      BY <2>3 DEF a, b
  <1>6. Copyable(f)
    BY <1>5 DEF Copyable
  <1> QED
    BY <1>6

LEMMA MemCopyableIsNoStruct ==
  ASSUME Declarations, NEW t \in GoType, MemCopyable(t)
  PROVE  Go[t].of \in { "basic", "array" }
  <1> DEFINE copyable == CHOOSE f : Copyable(f)
  <1>1. Copyable(copyable)
    BY CopyableExists
  <1>2. MemCopyable(t) = copyable[t]
    BY DEF MemCopyable, Copyable
  <1> HIDE DEF copyable
  <1>3. copyable[t] = (\/ Go[t].of = "basic" /\ ~Go[t].word
                       \/ Go[t].of = "array" /\ copyable[Elem(t)])
    BY <1>1 DEF Copyable
  <1> QED
    BY <1>2, <1>3

\* Whatever a package declares, no struct and no element of a slice that fast mode
\* copies as a block of memory has a field that is not serialized: blittable sees
\* the ones that fieldsOf leaves out.
THEOREM BlocksHoldSerialized ==
  ASSUME Declarations, NEW t \in GoType, ShapeOf(t).bulk
  PROVE  /\ ShapeOf(t).kind = "struct" => t \notin Skipping
         /\ ShapeOf(t).kind \in { "slice", "array" } => ShapeOf(t).elems[1] \notin Skipping
  <1>1. Raw(t) > 0 /\ ShapeOf(t).kind = Kind(t)
    BY DEF ShapeOf
  <1>2. ASSUME Kind(t) = "struct"
        PROVE  t \notin Skipping
    <2>1. Blittable(t)
      BY <1>1, <1>2 DEF Raw
    <2> QED
      BY <2>1, BlittableIsWhole
  <1>3. ASSUME Kind(t) \in { "slice", "array" }
        PROVE  ShapeOf(t).elems[1] \notin Skipping
    <2>1. MemCopyable(Elem(t)) \/ BlitElem(Elem(t))
      BY <1>1, <1>3 DEF Raw
    <2>2. Go[t].of \in { "slice", "array" }
      BY <1>3 DEF Kind
    <2>3. Elem(t) \in GoType
      BY <2>2 DEF Declarations
    <2>4. ShapeOf(t).elems[1] = Elem(t)
      BY <1>3 DEF ShapeOf, Elem
    <2>5. ASSUME MemCopyable(Elem(t)) PROVE Elem(t) \notin Skipping
      BY <2>3, <2>5, MemCopyableIsNoStruct DEF Skipping
    <2>6. ASSUME BlitElem(Elem(t)) PROVE Elem(t) \notin Skipping
      BY <2>3, <2>6, BlittableIsWhole DEF BlitElem
    <2> QED
      BY <2>1, <2>4, <2>5, <2>6
  <1> QED
    BY <1>1, <1>2, <1>3
=============================================================================
