--------------------------- MODULE MCThreadContext ---------------------------
(* Three objects, and a context of two groups of registers: the general    *)
(* ones, which set_reg can set, and the floating-point ones.               *)
EXTENDS ThreadContext, TLC
Symmetric == Permutations(Blocks) \cup Permutations(Handles) \cup Permutations(Values)
=============================================================================
