-------------------------- MODULE MCEncodeDecode --------------------------
(***************************************************************************)
(* EncodeDecode on the values of MCValues.                                 *)
(***************************************************************************)
EXTENDS MCValues, EncodeDecode

MCBefore == { <<>>, <<9, 9>> }

MCRoots == DOMAIN MapValues

\* Without the struct that has a slice of empty structs.
MCSized == MCRoots \ { "Bare" }

\* The hypothesis under which GeneratorProofs speaks of blocks, and the one under
\* which DestinationProofs says that decode keeps excluded fields.
ASSUME DeclarationsHold == Class!Declarations /\ MCExcluded = Class!Skipping

ASSUME BlocksAreWhole ==
  \A t \in MCType : Shapes[t].bulk =>
    /\ Shapes[t].kind = "struct" => t \notin MCExcluded
    /\ Shapes[t].kind = "slice" => Shapes[t].elems[1] \notin MCExcluded

\* The values with all they consist of, and the hypotheses of EncodeDecodeProofs
\* and RoundTripProofs.
RECURSIVE Closure(_)
Closure(S) ==
  LET more == S \cup UNION { Enc!Parts(x) : x \in S }
  IN  IF more = S THEN S ELSE Closure(more)

MCItems == Closure(UNION { { Enc!Item(t, v) : v \in MapValues[t] } : t \in MCRoots })

RECURSIVE DepthOf(_)
DepthOf(x) ==
  LET under == { DepthOf(y) : y \in Enc!Parts(x) }
  IN  CHOOSE n \in 0 .. 9 : \A m \in under : m < n

RECURSIVE RankOf(_)
RankOf(t) == IF Shapes[t].kind = "array" THEN 1 + RankOf(Shapes[t].elems[1]) ELSE 0

ASSUME EncoderHypotheses ==
  Enc!Encodable(MCItems, [x \in MCItems |-> DepthOf(x)], [t \in MCType |-> RankOf(t)])

MCTails == UNION { [1 .. n -> V!Byte] : n \in 0 .. 2 }

ASSUME DecoderHypotheses ==
  /\ PrefixesRead(MCItems, MCTails)
  /\ LengthsFit(MCType \ { "Bare", "empties" }, MCType \ { "Empty", "none", "owned" })

\* A slice or array is copied as a block only if its elements have as many
\* bytes in memory as on the wire, on every platform.
BlocksAreWire == todo # <<>> => Class!BlockIsWire(Head(todo).t)
=============================================================================
