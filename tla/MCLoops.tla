------------------------------ MODULE MCLoops ------------------------------
(***************************************************************************)
(* Loops on the structs of MCPackage with loops, calls and both in one     *)
(* another.                                                                *)
(***************************************************************************)
EXTENDS MCPackage, Loops

MCRoots == { "Fixed", "Text", "Lists", "Blits", "Arrays", "Grids", "Scores", "Ptrs",
             "Frame", "Holder", "Node", "Bare", "Mixed", "Index", "Structs" }
=============================================================================
