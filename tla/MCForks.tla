------------------------------- MODULE MCForks -------------------------------
(* A target that forks three times.                                        *)
EXTENDS Forks, TLC

CONSTANTS c1, c2, c3
Symmetry == Permutations({c1, c2, c3})
=============================================================================
