------------------------------ MODULE MCRunner ------------------------------
(* Two callers and the worker; the callers are interchangeable.            *)
EXTENDS Runner

CallersSymmetry == Permutations(Callers)
=============================================================================
