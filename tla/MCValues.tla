------------------------------ MODULE MCValues ------------------------------
(***************************************************************************)
(* A few values of each struct of MCPackage: empty and non-empty strings,  *)
(* slices, arrays and maps, nil and non-nil pointers, recursive pointers,  *)
(* every union member and an undeclared one.  A prefix is two bytes long   *)
(* from 4 on, as it is from 128 on in the code.                            *)
(***************************************************************************)
EXTENDS MCPackage, FiniteSets

MCPutUvarint(n) == V!UvarintBytes(n)
MCSizeUvarint(n) == V!UvarintSize(n)
MCTagLen(n) == V!UvarintLen(n)

u8s == { <<0>>, <<5>> }
u16s == { <<0, 1>>, <<6, 0>> }
hashes == { <<3, 4>> }
strings == { <<>>, <<1>>, <<1, 2, 3, 4>> }
inners == { <<<<5>>, s>> : s \in strings }

\* 4 members: the tag of the last is two bytes long.
signals == { <<0, <<>>>>, <<1, <<<<5>>>>>>, <<2, <<<<1>>>>>>,
             <<4, <<>>>>, <<5, <<>>>> }

nodes0 == { << <<>>, b >> : b \in u8s }
nodes == nodes0 \cup { << <<n>>, b >> : n \in nodes0, b \in u8s }

pixels == { << <<<<0>>, <<6>>>>, x >> : x \in u8s }

Few(S, n) == UNION { [1 .. k -> S] : k \in 0 .. n }

MapsUpTo(n) == { m \in SUBSET (strings \X u8s) :
                   /\ Cardinality(m) <= n
                   /\ \A p, q \in m : p[1] = q[1] => p = q }

ValuesWith(n) ==
  [ Fixed  |-> { <<h, u>> : h \in hashes, u \in u16s },
    Text   |-> { <<b, s, r>> : b \in strings, s \in strings, r \in inners },
    Lists  |-> { <<a, b>> : a \in Few(strings, 2), b \in Few(u16s, 4) },
    Blits  |-> { <<a, b>> : a \in Few({ <<x>> : x \in u8s }, 2), b \in [1 .. 2 -> u8s] },
    Arrays |-> { <<a, <<>>, x>> : a \in [1 .. 2 -> strings], x \in u8s },
    Grids  |-> { <<g, s>> : g \in [1 .. 2 -> [1 .. 2 -> u8s]], s \in strings },
    Scores |-> { <<m>> : m \in MapsUpTo(n) },
    Ptrs   |-> { <<p, q>> : p \in Few(u8s, 1), q \in Few(inners, 1) },
    Wide   |-> { <<x, s>> : x \in u8s, s \in signals },
    Structs |-> { <<f, g>> : f \in Few({ <<x, s>> : x \in u8s, s \in signals }, 2),
                             g \in [1 .. 2 -> { <<x>> : x \in u8s }] },
    Node   |-> nodes,
    Bare   |-> { << <<>>, x, e >> : x \in u8s, e \in Few({ <<>> }, 4) },
    Counts |-> { <<a, <<1, 2, 3>>>> : a \in Few({ <<0, 1>>, <<6, 0>> }, 2) },
    Record |-> { << <<1, 2, 3>>, <<0, 0, 6>>, <<x>>, s, a, b >> :
                 x \in { 0, 1 }, s \in { <<>>, <<1, 2, 3, 4>> }, a \in Few(u16s, 2),
                 b \in { <<>>, <<5>> } },
    Plot   |-> { <<a, g, p>> : a \in Few(pixels, 2), g \in Few([1 .. 2 -> { <<<<1>>, <<2>>>> }], 1),
                               p \in pixels },
    Ping   |-> { <<x>> : x \in u8s } ]

SmallMapValues == ValuesWith(1)
MapValues == ValuesWith(2)
=============================================================================
