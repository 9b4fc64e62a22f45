---------------------------- MODULE HwBreakpoints ----------------------------
(***************************************************************************)
(* Hardware breakpoints: HwBreakpoint::setup and cleanup, which go through *)
(* the threads of /proc/<pid>/task and change the debug registers of each, *)
(* called by the BreakpointManager when a breakpoint is set, hit, restored *)
(* after the step over it, and removed.                                    *)
(*                                                                         *)
(* The other threads go on meanwhile: they stop when the SIGSTOP sent to   *)
(* them arrives, and clone threads the debugger has not heard of.  Either  *)
(* makes setup or cleanup throw half way, and so does every thread that    *)
(* has exited: the debugger forgets it in its exit stop and never resumes  *)
(* it, so that /proc goes on listing it.                                   *)
(***************************************************************************)
EXTENDS DebugControl, FiniteSets

CONSTANTS Threads,
          Main,  \* the first thread
          Bps    \* breakpoints, of different addresses

Zero == "0"  \* what a debug register holds at first

ASSUME HwAssumption == Main \in Threads /\ Zero \notin Bps

VARIABLES
  thread,  \* "none", "new" (cloned, not in threads_ yet), "running", "stopped",
           \* "exited" (in its exit stop, not in threads_ any more)
  dr,      \* the debug registers of a thread: [addr: Dr0 to Dr3, ctl: Dr7]
  bp_regs, \* bp_regs_ of a breakpoint: the register used per thread, and its old value
  active,  \* the breakpoints the manager holds, and whether they are active
  call,    \* the manager's call in progress: [op, bp, todo]
  failed   \* some call has thrown

vars == <<thread, dr, bp_regs, active, call, failed>>

Idle == [op |-> "none", bp |-> Zero, todo |-> {}]

Init ==
  /\ thread = [t \in Threads |-> IF t = Main THEN "stopped" ELSE "none"]
  /\ dr = [t \in Threads |-> [addr |-> [i \in Dregs |-> Zero], ctl |-> {}]]
  /\ bp_regs = [b \in Bps |-> <<>>]
  /\ active = <<>>
  /\ call = Idle
  /\ failed = FALSE

\* What enum_threads lists, and what get_thread knows of that
Listed == {t \in Threads : thread[t] # "none"}
InMap(t) == thread[t] \in {"running", "stopped"}
Armed(b, t) == \E i \in Dregs : dr[t].addr[i] = b /\ 2 * i \in dr[t].ctl

-----------------------------------------------------------------------------
(* The threads of the target                                               *)

Becomes(t, s) == thread' = [thread EXCEPT ![t] = s]

\* Nobody steps into an event but a thread that is stepped
Between == call.op \in {"none", "step"}

\* The debug registers of a new thread are clear
Clone(t) == /\ thread[t] = "none"
            /\ call.op = "step" \/ \E u \in Listed : thread[u] = "running"
            /\ Becomes(t, "new")

Stop(t) == thread[t] = "running" /\ Becomes(t, "stopped")

\* on_thread_created waits for the new thread's first stop
Learn(t) == Between /\ thread[t] = "new" /\ Becomes(t, "stopped")

\* on_thread_exited, for a thread that has stopped to exit.  The first thread keeps
\* its entry and is resumed; as a zombie it is listed, and runs for all one can tell.
Exit(t) == Between /\ t # Main /\ thread[t] = "stopped" /\ Becomes(t, "exited")

\* LocalDebuggee::run
Resume(t) == call = Idle /\ thread[t] = "stopped" /\ Becomes(t, "running")

Target == /\ \E t \in Threads : Clone(t) \/ Stop(t) \/ Learn(t) \/ Exit(t) \/ Resume(t)
          /\ UNCHANGED <<dr, bp_regs, active, call, failed>>

-----------------------------------------------------------------------------
(* Calls of the BreakpointManager                                          *)

Begin(op, b) == call' = [op |-> op, bp |-> b, todo |-> Listed]

\* The manager forgets the breakpoint, whose bp_regs_ goes with it
Erase(b) == /\ active' = [c \in DOMAIN active \ {b} |-> active[c]]
            /\ bp_regs' = [bp_regs EXCEPT ![b] = <<>>]

SetBp(b) == /\ call = Idle /\ b \notin DOMAIN active
            /\ Begin("set", b)
            /\ UNCHANGED <<thread, dr, bp_regs, active, failed>>

RemoveBp(b) == /\ call = Idle /\ b \in DOMAIN active
               /\ IF active[b] THEN Begin("remove", b) /\ UNCHANGED <<active, bp_regs>>
                  ELSE Erase(b) /\ UNCHANGED call
               /\ UNCHANGED <<thread, dr, failed>>

\* A thread stops at the address of an active breakpoint, armed on it or not:
\* dispatch_bp_hit calls the handler, which is taken to leave the breakpoints alone,
\* and cleans up
Hit(t, b) == /\ call = Idle /\ thread[t] = "running"
             /\ b \in DOMAIN active /\ active[b]
             /\ Becomes(t, "stopped")
             /\ Begin("hit", b)
             /\ UNCHANGED <<dr, bp_regs, active, failed>>

\* restore_bps, once the step over the instruction is done: the inactive
\* breakpoints in turn
Inactive == {b \in DOMAIN active : ~active[b]}
RestoreOne(bps) == IF bps = {} THEN call' = Idle ELSE \E b \in bps : Begin("restore", b)

Stepped == /\ call.op = "step"
           /\ RestoreOne(Inactive)
           /\ UNCHANGED <<thread, dr, bp_regs, active, failed>>

-----------------------------------------------------------------------------
(* One thread of the loop in setup and cleanup                             *)

Visit(t) == call.op \in {"set", "remove", "hit", "restore"} /\ t \in call.todo
Rest(t) == call' = [call EXCEPT !.todo = @ \ {t}]

\* A check that looks at the register's own bit
FreeRegsByBit(t) == {i \in Dregs : 2 * i \notin dr[t].ctl}

\* The first register that does not seem to be in use
FreeRegs(t) == {i \in Dregs : ~IsLocalEnabled(dr[t].ctl, i)}
First(s) == CHOOSE i \in s : \A j \in s : i <= j

Accessible(t) == thread[t] = "stopped"

\* set_context forgotten
SetOnThreadForgets(t) ==
  /\ Visit(t) /\ call.op \in {"set", "restore"} /\ Accessible(t) /\ FreeRegs(t) # {}
  /\ bp_regs' = [bp_regs EXCEPT ![call.bp] =
                   [u \in DOMAIN @ \cup {t} |->
                      IF u \in DOMAIN @ THEN @[u]
                      ELSE [idx |-> First(FreeRegs(t)), ov |-> Zero]]]
  /\ Rest(t)
  /\ UNCHANGED <<thread, dr, active, failed>>

SetOnThread(t) ==
  /\ Visit(t) /\ call.op \in {"set", "restore"} /\ Accessible(t) /\ FreeRegs(t) # {}
  /\ LET b == call.bp
         i == First(FreeRegs(t))
     IN /\ dr' = [dr EXCEPT ![t] = [addr |-> [@.addr EXCEPT ![i] = b],
                                    ctl |-> SetHwBpxEnabled(@.ctl, i, TRUE)]]
        \* emplace: an entry that is there stays
        /\ bp_regs' = [bp_regs EXCEPT ![b] =
                         IF t \in DOMAIN @ THEN @
                         ELSE [u \in DOMAIN @ \cup {t} |->
                                 IF u = t THEN [idx |-> i, ov |-> dr[t].addr[i]] ELSE @[u]]]
  /\ Rest(t)
  /\ UNCHANGED <<thread, active, failed>>

\* A thread that does not answer is passed over
RemoveSkips(t) ==
  /\ Visit(t) /\ call.op \in {"remove", "hit"} /\ InMap(t)
  /\ Rest(t)
  /\ UNCHANGED <<thread, dr, bp_regs, active, failed>>

RemoveFromThread(t) ==
  /\ Visit(t) /\ call.op \in {"remove", "hit"} /\ InMap(t)
  /\ LET b == call.bp IN
       IF t \notin DOMAIN bp_regs[b] THEN UNCHANGED <<dr, bp_regs>>
       ELSE LET e == bp_regs[b][t] IN
            /\ Accessible(t)
            /\ dr' = [dr EXCEPT ![t] = [addr |-> [@.addr EXCEPT ![e.idx] = e.ov],
                                        ctl |-> SetHwBpxEnabled(@.ctl, e.idx, FALSE)]]
            /\ bp_regs' = [bp_regs EXCEPT ![b] = [u \in DOMAIN @ \ {t} |-> @[u]]]
  /\ Rest(t)
  /\ UNCHANGED <<thread, active, failed>>

\* get_thread knows no such thread, get_context finds it running, or no register is free
Throws(t) ==
  /\ Visit(t)
  /\ \/ ~InMap(t)
     \/ /\ ~Accessible(t)
        /\ call.op \in {"remove", "hit"} => t \in DOMAIN bp_regs[call.bp]
     \/ call.op \in {"set", "restore"} /\ FreeRegs(t) = {}
  /\ call' = Idle /\ failed' = TRUE
  \* set_bp deletes the breakpoint, and its bp_regs_ with it
  /\ bp_regs' = IF call.op = "set" THEN [bp_regs EXCEPT ![call.bp] = <<>>] ELSE bp_regs
  /\ UNCHANGED <<thread, dr, active>>

Status(b, on) == [c \in DOMAIN active \cup {b} |-> IF c = b THEN on ELSE active[c]]

\* The end of the loop, and what the manager does then
Ends(op) == call.op = op /\ call.todo = {} /\ UNCHANGED <<thread, dr, failed>>

SetEnds == /\ Ends("set")
           /\ active' = Status(call.bp, TRUE) /\ call' = Idle /\ UNCHANGED bp_regs

RemoveEnds == Ends("remove") /\ Erase(call.bp) /\ call' = Idle

\* dispatch_bp_hit has cleaned up, and the thread is to be stepped
HitEnds == /\ Ends("hit")
           /\ active' = Status(call.bp, FALSE) /\ call' = [call EXCEPT !.op = "step"]
           /\ UNCHANGED bp_regs

RestoreEnds == /\ Ends("restore")
               /\ active' = Status(call.bp, TRUE) /\ RestoreOne(Inactive \ {call.bp})
               /\ UNCHANGED bp_regs

Finish == SetEnds \/ RemoveEnds \/ HitEnds \/ RestoreEnds

Next == \/ Target
        \/ \E b \in Bps : SetBp(b) \/ RemoveBp(b) \/ \E t \in Threads : Hit(t, b)
        \/ \E t \in Threads : SetOnThread(t) \/ RemoveFromThread(t) \/ Throws(t)
        \/ Stepped \/ Finish

Spec == Init /\ [][Next]_vars

-----------------------------------------------------------------------------

\* Every variable holds a value of its type
TypeOK ==
  /\ thread \in [Threads -> {"none", "new", "running", "stopped", "exited"}]
  /\ dr \in [Threads -> [addr : [Dregs -> Bps \cup {Zero}], ctl : SUBSET (0 .. Width - 1)]]
  /\ DOMAIN bp_regs = Bps
  /\ \A b \in Bps : /\ DOMAIN bp_regs[b] \subseteq Threads
                    /\ \A t \in DOMAIN bp_regs[b] :
                         bp_regs[b][t] \in [idx : Dregs, ov : Bps \cup {Zero}]
  /\ DOMAIN active \subseteq Bps /\ \A b \in DOMAIN active : active[b] \in BOOLEAN
  /\ call \in [op : {"none", "set", "remove", "hit", "step", "restore"},
               bp : Bps \cup {Zero}, todo : SUBSET Threads]
  /\ failed \in BOOLEAN

Settled == call = Idle /\ ~failed

\* While the thread that hit a breakpoint is stepped over it, no thread at all has
\* it armed (one that is resumed would hit it again, and for ever), even if earlier
\* calls have thrown half way.
StepOff == call.op = "step" => \A t \in Listed : ~Armed(call.bp, t)

\* Unless a call has thrown, a breakpoint that is not set is armed nowhere: remove_bp
\* and the cleanup of a hit find every thread that setup has changed, whichever
\* threads were created since.  The first call after a thread has exited throws.
NoLeftover ==
  Settled => \A b \in Bps, t \in Listed : Armed(b, t) => b \in DOMAIN active /\ active[b]

(* The inductive invariant, in parts *)

Recorded(b, t) == t \in DOMAIN bp_regs[b]

\* Every breakpoint finds the first register free, since the bit is masked out
FirstRegister ==
  \A t \in Threads : /\ dr[t].ctl \subseteq {0}
                     /\ \A b \in Bps : Recorded(b, t) => bp_regs[b][t].idx = 0

\* A thread to come has clear registers
Unborn ==
  \A t \in Threads : thread[t] = "none" =>
    dr[t].ctl = {} /\ \A b \in Bps : ~Recorded(b, t)

\* What the manager knows of: a breakpoint that is armed is recorded, or will be visited
Known ==
  \A b \in Bps, t \in Listed : Armed(b, t) =>
    \/ b \notin DOMAIN active /\ (call.op = "set" /\ call.bp = b => t \in call.todo)
    \/ Recorded(b, t)

\* The call in progress: what cleanup has still to visit, and has visited
InCall ==
  /\ call.op # "none" => call.bp \in Bps
  /\ call.op = "set" => call.bp \notin DOMAIN active
  /\ call.op \in {"remove", "hit", "step", "restore"} => call.bp \in DOMAIN active
  /\ call.op \in {"remove", "hit"} => {t \in Listed : Recorded(call.bp, t)} \subseteq call.todo
  /\ call.op = "step" => {t \in Listed : Recorded(call.bp, t)} = {}
  /\ call.op = "restore" => ~active[call.bp]

\* Until a call throws, what is armed is active or being set up
ArmedActive ==
  ~failed => \A b \in Bps, t \in Listed : Armed(b, t) =>
    \/ b \in DOMAIN active /\ active[b]
    \/ call.op \in {"set", "restore"} /\ call.bp = b

IInv == TypeOK /\ FirstRegister /\ Unborn /\ Known /\ InCall /\ ArmedActive
=============================================================================
