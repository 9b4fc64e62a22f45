---------------------------- MODULE MCEntryTrace ----------------------------
(* Images of up to three segments, at 0 or 40, and perhaps the entry that  *)
(* says what the stack must allow; all programs of as many instructions as *)
(* a segment holds.                                                        *)
EXTENDS EntryTrace

MCOutside == {Size + 1}

Flags == {{"R"}, {"R", "X"}, {"R", "W"}, {"R", "W", "X"}}
Stacks == {{"R", "W"}, {"R", "W", "X"}}

Segment(flags, vaddr) == [type |-> "LOAD", flags |-> flags, vaddr |-> vaddr, memsz |-> Size]
Stack(flags) == [type |-> "STACK", flags |-> flags, vaddr |-> 0, memsz |-> 0]

Layouts(low) ==
  {[k \in DOMAIN fs |-> Segment(fs[k], low + Size * (k - 1))] \o st :
     fs \in UNION {[1 .. n -> Flags] : n \in 1 .. 3},
     st \in {<<>>} \cup {<<Stack(f)>> : f \in Stacks}}

\* The entry point is in an executable segment, and not at its beginning
ImagesOf(layouts) ==
  UNION {{[class |-> c, entry |-> l[k].vaddr + n, phdrs |-> l] :
            c \in {0, 32, 64}, n \in 1 .. Size - 1,
            k \in {j \in DOMAIN l : l[j].type = "LOAD" /\ "X" \in l[j].flags}}
           : l \in layouts}

MCImages == ImagesOf(Layouts(0) \cup Layouts(40))
=============================================================================
