--------------------------- MODULE MCDecodePair ---------------------------
(***************************************************************************)
(* The package and the buffers of MCPackage for DecodePair.  Hand-written  *)
(* codecs are left out, as nothing says that they decide twice alike, and  *)
(* so are, but for the run about them, elements without a byte of their    *)
(* own.                                                                    *)
(***************************************************************************)
EXTENDS MCPackage, DecodePair

MCRoots == { "Fixed", "Text", "Lists", "Blits", "Arrays", "Grids", "Scores", "Ptrs",
             "Frame", "Holder", "Node" }

EmptyElementRoots == { "Bare" }

\* The hypotheses under which DecodePairProofs relates the two decodes.
GeneratedTypes == MCType \ { "owned", "Mixed", "Bare", "empties" }

TypesWithBytes == GeneratedTypes \ { "Empty", "none" }

ASSUME ProofsApply ==
  Roots = MCRoots =>
    Generated(GeneratedTypes) /\ ElementsTakeBytes(GeneratedTypes, TypesWithBytes)
=============================================================================
