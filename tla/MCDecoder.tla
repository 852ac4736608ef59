----------------------------- MODULE MCDecoder -----------------------------
(***************************************************************************)
(* Decoder on the structs and the buffers of MCPackage.                    *)
(***************************************************************************)
EXTENDS MCPackage, Decoder

MCRoots == { "Fixed", "Text", "Lists", "Blits", "Arrays", "Grids", "Scores", "Ptrs",
             "Frame", "Holder", "Node", "Bare", "Mixed" }
=============================================================================
