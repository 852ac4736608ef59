----------------------------- MODULE MCGenerator -----------------------------
(***************************************************************************)
(* Generator on a package with a nested struct and a union.                *)
(***************************************************************************)
EXTENDS Generator, Integers, Sequences

CONSTANTS Outer, Inner, Ping

MCType == { Outer, Inner, Ping }

MCFields == [t \in MCType |-> IF t = Outer THEN { Inner } ELSE {}]

MCHasUnion == { Outer }

MCMembers == { Ping }

-----------------------------------------------------------------------------
(***************************************************************************)
(* Small packages for TypeClass: a struct S with a field of any type and   *)
(* one that may be skipped, a struct T, a wrapper L, a map M, an interface *)
(* I, a basic and a type without a codec.                                  *)
(***************************************************************************)
Declared(k, es, skip) ==
  [of |-> k, width |-> 1, memory |-> 1, word |-> FALSE, byte |-> FALSE, len |-> 1,
   elems |-> es, skip |-> skip]

Packages ==
  [ S     : { Declared("struct", <<t, "chan">>, { 2 }) : t \in { "T", "L", "M", "I", "u8", "chan" } }
            \cup { Declared("struct", <<t, "L">>, {}) : t \in { "M", "I" } },
    T     : { Declared("struct", <<t>>, {}) : t \in { "u8", "L" } },
    L     : { Declared(k, <<t>>, {}) : k \in { "slice", "pointer" },
                                      t \in { "S", "T", "M", "I", "u8", "chan" } },
    M     : { Declared("map", <<k, v>>, {}) : k \in { "u8", "T", "chan" },
                                             v \in { "T", "I", "u8", "chan" } },
    I     : { Declared("interface", ts, {}) : ts \in { << >>, <<"S">>, <<"T", "S">> } },
    u8    : { Declared("basic", << >>, {}) },
    chan  : { Declared("other", << >>, {}) } ]

TypesOf(go, structs, own) == INSTANCE TypeClass WITH Go <- go, Marked <- structs, UserOwned <- own

\* S is what Outer may be, and T what Inner may be.
Named(ts) == { IF t = Outer THEN "S" ELSE "T" : t \in ts }

\* A package without generated code and without a struct Ping, about to be run on.
Untouched ==
  /\ result = "none" /\ Present = {} /\ used = {}
  /\ Ping \notin marked /\ hand[Ping] = {}
  /\ \A t \in Type : pasted[t] = {} /\ hand[t] \in { {}, Method }
  /\ \A t \in Type \ marked : hand[t] = {}

\* The first run on a package, whatever its types are, accepts it exactly if
\* there is a codec for all that the generated methods would visit.
AcceptedIsHandled ==
  Untouched =>
    \A go \in Packages :
      TypesOf(go, Named(marked), Named(Owned({})))!AcceptedIsHandled
=============================================================================
