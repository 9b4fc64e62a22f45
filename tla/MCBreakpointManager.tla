------------------------- MODULE MCBreakpointManager -------------------------
(* Three addresses: a plain one, one where the target's own code is an     *)
(* int3, and one where breakpoints may overlap.                            *)
EXTENDS BreakpointManager

CONSTANTS a1, a2, a3, op, int3

MCAddrs == {a1, a2, a3}
MCShared == {a3}
MCBytes == {op, int3}
MCCode == [a \in MCAddrs |-> IF a = a2 THEN int3 ELSE op]
=============================================================================
