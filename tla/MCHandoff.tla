------------------------------ MODULE MCHandoff ------------------------------
(***************************************************************************)
(* Handoff on small meshes.                                                *)
(***************************************************************************)
EXTENDS Handoff, TLC

Symmetry ==
  Permutations(Typing) \union Permutations(Node \ Typing) \union Permutations(Key)

=============================================================================
