---------------------------- MODULE DebugControl ----------------------------
(***************************************************************************)
(* DebugControlReg: the fields of DR7.  A word is the set of the positions *)
(* of its ones.  Shifts and complements are done in int, 32 bits wide, and *)
(* widened to the register's type with the sign.                           *)
(***************************************************************************)
EXTENDS Integers

Width == 64   \* X64_DebugControlReg
Dregs == 0 .. 3

Widen(int) == IF 31 \in int THEN int \cup 32 .. Width - 1 ELSE int
Shl(int, n) == {b + n : b \in int} \cap 0 .. 31
Mask(ones, n) == Widen((0 .. 31) \ Shl(ones, n))

\* (value & ~(ones << n)) | field << n
SetField(v, ones, field, n) == (v \cap Mask(ones, n)) \cup Widen(Shl(field, n))

Enable(on) == IF on THEN {0} ELSE {}

BreakOn == [Exec |-> {}, Read |-> {0}, Write |-> {1}, ReadOrWrite |-> {2}]
BpSize == [Byte |-> {}, Word |-> {0}, Qword |-> {1}, Dword |-> {0, 1}]

LocalSetEnabled(v, i, on) == SetField(v, {0}, Enable(on), 2 * i)
SetBreakOn(v, i, brkon) == SetField(v, {0, 1}, BreakOn[brkon], 16 + 4 * i)
SetSize(v, i, size) == SetField(v, {0, 1}, BpSize[size], 18 + 4 * i)

\* value & mask, where the mask is that of the setter: all bits but the one asked for
IsLocalEnabled(v, i) == v \cap Mask({0}, 2 * i) # {}

\* set_hw_bpx_enabled
SetHwBpxEnabled(v, i, on) ==
  LET w == LocalSetEnabled(v, i, on)
  IN  IF on THEN SetSize(SetBreakOn(w, i, "Exec"), i, "Byte") ELSE w
=============================================================================
