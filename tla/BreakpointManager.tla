-------------------------- MODULE BreakpointManager --------------------------
(***************************************************************************)
(* src/hdbg/dbg/breakpoint_manager.cc with the software breakpoints of     *)
(* dbg/bps/sw_breakpoint.cc, and LocalDebuggee::Impl::handle_bp_event that *)
(* drives it: dispatch_bp_hit, a single step over the original             *)
(* instruction, restore_bps.                                               *)
(*                                                                         *)
(* Only the byte a breakpoint replaces is kept of the target's memory.     *)
(* Handlers and event listeners are the client's: they may call the API,   *)
(* resume the target (so that hits nest), return or throw.  An exception   *)
(* is caught by the client somewhere up the stack.                         *)
(***************************************************************************)
EXTENDS Naturals, Sequences, FiniteSets

CONSTANTS
  Addrs,     \* the addresses where breakpoints are set
  Bytes,     \* values of a byte of the target
  Int3,      \* sw_bpx_template(): the byte a breakpoint writes
  Code,      \* Code[a]: the target's own byte at a
  Shared,    \* the addresses where the client may set several breakpoints
  MaxId,     \* bound: ids handed out
  MaxDepth   \* bound: hits being handled at the same time

ASSUME MemoryAssumption == Int3 \in Bytes /\ Code \in [Addrs -> Bytes]
ASSUME BoundAssumption == MaxId \in Nat /\ MaxDepth \in Nat

VARIABLES
  mem,      \* the target's memory
  mapped,   \* the addresses that are still mapped: elsewhere read and write throw
  bps,      \* bps_: a function from ids to [addr, ov, active]
  next_id,  \* next_id_
  frames,   \* the calls of handle_bp_event in progress, innermost last
  skipped,  \* the latest restore_bps due was skipped or cut short by an exception
  crashed   \* a breakpoint was used after it was destroyed

vars == <<mem, mapped, bps, next_id, frames, skipped, crashed>>

Ids == DOMAIN bps
Breakpoints == [addr : Addrs, ov : Bytes, active : BOOLEAN]
Frames == [id : Nat \ {0}, phase : {"handler", "stepping"}]
Top == frames[Len(frames)]

Init == /\ mem = Code
        /\ mapped = Addrs
        /\ bps = [i \in {} |-> {}]
        /\ next_id = 1
        /\ frames = <<>>
        /\ skipped = FALSE
        /\ crashed = FALSE

-----------------------------------------------------------------------------

Without(S) == [i \in Ids \ S |-> bps[i]]

\* The memory after the cleanup of the active breakpoints of S, in id order
LastOf(S, a) == {i \in S : /\ bps[i].active /\ bps[i].addr = a
                           /\ \A j \in S : bps[j].active /\ bps[j].addr = a => j <= i}

Cleaned(S) == [a \in Addrs |-> IF LastOf(S, a) = {} THEN mem[a]
                               ELSE bps[CHOOSE i \in LastOf(S, a) : TRUE].ov]

\* An exception leaves the innermost calls and is caught after call k
Unwind(k) ==
  /\ frames' = SubSeq(frames, 1, k)
  /\ skipped' = (skipped \/ \E i \in k+1..Len(frames) : frames[i].phase = "stepping")

-----------------------------------------------------------------------------
(* The client's calls                                                      *)

\* set_bp that registers the breakpoint before setup has succeeded
SetBpRegistersFirst(a) ==
  /\ ~crashed /\ next_id <= MaxId
  /\ a \in Shared \/ \A i \in Ids : bps[i].addr # a
  /\ bps' = [i \in Ids \cup {next_id} |->
               IF i = next_id THEN [addr |-> a, ov |-> mem[a], active |-> TRUE]
               ELSE bps[i]]
  /\ next_id' = next_id + 1
  /\ IF a \in mapped
     THEN mem' = [mem EXCEPT ![a] = Int3] /\ UNCHANGED <<frames, skipped>>
     ELSE mem' = mem /\ \E k \in 0..Len(frames) : Unwind(k)
  /\ UNCHANGED <<mapped, crashed>>

SetBp(a) ==
  /\ ~crashed /\ next_id <= MaxId
  /\ a \in Shared \/ \A i \in Ids : bps[i].addr # a
  /\ \/ /\ a \in mapped
        /\ bps' = [i \in Ids \cup {next_id} |->
                     IF i = next_id
                     THEN [addr |-> a, ov |-> mem[a], active |-> TRUE]
                     ELSE bps[i]]
        /\ mem' = [mem EXCEPT ![a] = Int3]
        /\ next_id' = next_id + 1
        /\ UNCHANGED <<frames, skipped>>
     \/ /\ a \notin mapped
        /\ \E k \in 0..Len(frames) : Unwind(k)
        /\ UNCHANGED <<bps, mem, next_id>>
  /\ UNCHANGED <<mapped, crashed>>

RemoveBp(id) ==
  /\ ~crashed
  /\ \/ /\ bps[id].active => bps[id].addr \in mapped
        /\ mem' = Cleaned({id})
        /\ bps' = Without({id})
        /\ UNCHANGED <<frames, skipped>>
     \/ /\ bps[id].active /\ bps[id].addr \notin mapped
        /\ \E k \in 0..Len(frames) : Unwind(k)
        /\ UNCHANGED <<bps, mem>>
  /\ UNCHANGED <<mapped, next_id, crashed>>

\* The loop erases the element its iterator stands on and then advances the
\* iterator: it removes the first element, and whatever the freed node leads
\* to next, or crashes there; a cleanup that fails throws.
RemoveAllBps ==
  /\ ~crashed /\ Ids # {}
  /\ \E S \in SUBSET Ids :
       /\ \A i \in S : bps[i].active => bps[i].addr \in mapped
       /\ mem' = Cleaned(S)
       /\ bps' = Without(S)
       /\ \/ /\ \E first \in S : \A i \in Ids : first <= i
             /\ crashed' \in BOOLEAN
             /\ UNCHANGED <<frames, skipped>>
          \/ /\ \E i \in Ids \ S : bps[i].active /\ bps[i].addr \notin mapped
             /\ \E k \in 0..Len(frames) : Unwind(k)
             /\ UNCHANGED crashed
  /\ UNCHANGED <<mapped, next_id>>

-----------------------------------------------------------------------------
(* A hit                                                                   *)

\* An event with the instruction pointer behind a: the first active breakpoint
\* that matches is rewound and its handler is entered.
DispatchHit(a) ==
  /\ ~crashed /\ Len(frames) < MaxDepth
  /\ \E id \in Ids :
       /\ bps[id].active /\ bps[id].addr = a
       /\ \A i \in Ids : bps[i].active /\ bps[i].addr = a => id <= i
       /\ frames' = Append(frames, [id |-> id, phase |-> "handler"])
  /\ UNCHANGED <<mem, mapped, bps, next_id, skipped, crashed>>

InHandler == ~crashed /\ frames # <<>> /\ Top.phase = "handler"
InStep == ~crashed /\ frames # <<>> /\ Top.phase = "stepping"

\* The rest of dispatch_bp_hit that leaves the int3 in place
HandlerReturnKeepsInt3 ==
  /\ InHandler
  /\ Top.id \in Ids
  /\ bps' = [bps EXCEPT ![Top.id].active = FALSE]
  /\ frames' = [frames EXCEPT ![Len(frames)].phase = "stepping"]
  /\ UNCHANGED <<mem, mapped, next_id, skipped, crashed>>

HandlerReturn ==
  /\ InHandler
  /\ Top.id \in Ids
  /\ LET bp == bps[Top.id] IN
     \/ /\ bp.addr \in mapped
        /\ mem' = [mem EXCEPT ![bp.addr] = bp.ov]
        /\ bps' = [bps EXCEPT ![Top.id].active = FALSE]
        /\ frames' = [frames EXCEPT ![Len(frames)].phase = "stepping"]
        /\ UNCHANGED skipped
     \/ /\ bp.addr \notin mapped
        /\ \E k \in 0..Len(frames)-1 : Unwind(k)
        /\ UNCHANGED <<mem, bps>>
  /\ UNCHANGED <<mapped, next_id, crashed>>

\* The handler removed the breakpoint it was called for: the map's node and
\* the Breakpoint are freed, and the virtual call of cleanup goes through them.
UseAfterFree ==
  /\ InHandler
  /\ Top.id \notin Ids
  /\ crashed' = TRUE
  /\ UNCHANGED <<mem, mapped, bps, next_id, frames, skipped>>

\* The handler throws, or the single step or its event does
Throw ==
  /\ ~crashed /\ frames # <<>>
  /\ \E k \in 0..Len(frames)-1 : Unwind(k)
  /\ UNCHANGED <<mem, mapped, bps, next_id, crashed>>

\* restore_bps goes through the inactive breakpoints in the order of their
\* ids, up to the first whose memory is gone.
Due == {i \in Ids : ~bps[i].active}
Failing == {i \in Due : bps[i].addr \notin mapped}
Restorable == {i \in Due : \A f \in Failing : i < f}

Restored(i) ==
  [addr |-> bps[i].addr, active |-> TRUE,
   ov |-> IF \E j \in Restorable : j < i /\ bps[j].addr = bps[i].addr
          THEN Int3 ELSE mem[bps[i].addr]]

\* restore_bps that stops after the first breakpoint it has set up
RestoreFirst ==
  /\ InStep
  /\ LET first == {i \in Restorable : \A j \in Restorable : i <= j} IN
     /\ bps' = [i \in Ids |-> IF i \in first THEN Restored(i) ELSE bps[i]]
     /\ mem' = [a \in Addrs |-> IF \E i \in first : bps[i].addr = a
                                THEN Int3 ELSE mem[a]]
  /\ frames' = SubSeq(frames, 1, Len(frames) - 1)
  /\ skipped' = FALSE
  /\ UNCHANGED <<mapped, next_id, crashed>>

\* restore_bps that does not mark what it has set up
RestoreForgetsActive ==
  /\ InStep
  /\ bps' = [i \in Ids |-> IF i \in Restorable
                           THEN [Restored(i) EXCEPT !.active = FALSE] ELSE bps[i]]
  /\ mem' = [a \in Addrs |-> IF \E i \in Restorable : bps[i].addr = a
                             THEN Int3 ELSE mem[a]]
  /\ frames' = SubSeq(frames, 1, Len(frames) - 1)
  /\ skipped' = FALSE
  /\ UNCHANGED <<mapped, next_id, crashed>>

RestoreBps ==
  /\ InStep
  /\ bps' = [i \in Ids |-> IF i \in Restorable THEN Restored(i) ELSE bps[i]]
  /\ mem' = [a \in Addrs |-> IF \E i \in Restorable : bps[i].addr = a
                             THEN Int3 ELSE mem[a]]
  /\ \/ /\ Failing = {}
        /\ frames' = SubSeq(frames, 1, Len(frames) - 1)
        /\ skipped' = FALSE
     \/ /\ Failing # {}
        /\ \E k \in 0..Len(frames)-1 : frames' = SubSeq(frames, 1, k)
        /\ skipped' = TRUE
  /\ UNCHANGED <<mapped, next_id, crashed>>

-----------------------------------------------------------------------------

\* The target unmaps the page
Unmap(a) ==
  /\ a \in mapped
  /\ mapped' = mapped \ {a}
  /\ UNCHANGED <<mem, bps, next_id, frames, skipped, crashed>>

Next == \/ \E a \in Addrs : SetBp(a) \/ DispatchHit(a) \/ Unmap(a)
        \/ \E id \in Ids : RemoveBp(id)
        \/ RemoveAllBps
        \/ HandlerReturn \/ UseAfterFree \/ Throw \/ RestoreBps

Spec == Init /\ [][Next]_vars

\* Handlers return, and the client does not start nested hits for ever while a
\* step waits to be completed.
FairSpec == Spec /\ WF_vars(HandlerReturn) /\ WF_vars(UseAfterFree)
                 /\ SF_vars(RestoreBps)

-----------------------------------------------------------------------------

\* Every variable holds a value of its type, and ids stay below next_id_
TypeOK ==
  /\ mem \in [Addrs -> Bytes]
  /\ mapped \subseteq Addrs
  /\ next_id \in Nat \ {0}
  /\ Ids \subseteq 1..next_id-1
  /\ bps \in [Ids -> Breakpoints]
  /\ frames \in Seq(Frames)
  /\ skipped \in BOOLEAN
  /\ crashed \in BOOLEAN

\* Where the client sets one breakpoint at a time, the target's memory is its own
\* code with int3 exactly at the active breakpoints, and each of these holds
\* the byte to put back: none is lost, none is left behind (through nested
\* hits, removals from handlers, failing accesses and exceptions, and whatever
\* becomes of shared addresses).
Shadow ==
  /\ \A i \in Ids : bps[i].active /\ bps[i].addr \notin Shared =>
       mem[bps[i].addr] = Int3 /\ bps[i].ov = Code[bps[i].addr]
  /\ \A a \in Addrs \ Shared : (\A i \in Ids : bps[i].active => bps[i].addr # a)
                                 => mem[a] = Code[a]

\* A breakpoint is inactive only while the step over an instruction is in
\* progress, or after an exception cost the manager a restore_bps.
Rearmed ==
  (\E i \in Ids : ~bps[i].active) =>
    skipped \/ \E n \in DOMAIN frames : frames[n].phase = "stepping"

\* A breakpoint that was hit is set again (or removed), unless an exception
\* aborted its step or the debugger crashed.
EventuallyRearmed ==
  \A i \in 1..MaxId :
    (i \in Ids /\ ~bps[i].active) ~> (i \notin Ids \/ bps[i].active \/ skipped \/ crashed)
=============================================================================
