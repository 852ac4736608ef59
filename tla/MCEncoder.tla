----------------------------- MODULE MCEncoder -----------------------------
(***************************************************************************)
(* Encoder on the values of MCValues.                                      *)
(***************************************************************************)
EXTENDS MCValues, Encoder

MCRoots == DOMAIN MapValues

MCBefore == { <<>>, <<9, 9>> }
=============================================================================
