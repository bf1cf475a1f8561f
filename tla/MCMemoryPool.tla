---------------------------- MODULE MCMemoryPool ----------------------------
(***************************************************************************)
(* MemoryPool with five stack contexts and four heap blocks: malloc runs   *)
(* out while a context still asks for a stack.                             *)
(***************************************************************************)
EXTENDS MemoryPool, TLC

CONSTANTS s1, s2, s3, s4, s5

MCStacks == {s1, s2, s3, s4, s5}
Symmetry == Permutations(MCStacks)
=============================================================================
