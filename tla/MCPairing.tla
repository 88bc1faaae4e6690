------------------------------ MODULE MCPairing ------------------------------
(* For TLC: the two machines, and the codes, are interchangeable.          *)
EXTENDS Pairing, TLC

Sym == Permutations(Machine) \union Permutations(Code)
==============================================================================
