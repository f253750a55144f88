------------------------------- MODULE MCPacks -------------------------------
(***************************************************************************)
(* Small instances of Packs.                                               *)
(***************************************************************************)
EXTENDS Packs, TLC

CONSTANT bible

OnePack == <<bible>>

Symmetry == Permutations(Builders) \cup Permutations(Texts)
=============================================================================
