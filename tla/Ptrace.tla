------------------------------- MODULE Ptrace -------------------------------
(***************************************************************************)
(* The target of a debug session as the kernel shows it to the tracer: the *)
(* threads of one process traced with the options debuggee.cc asks for     *)
(* (TRACECLONE, TRACEEXIT).  External to the repository: modelled from the *)
(* waitpid, ptrace and tgkill calls of os/linux/dbg/local/debuggee.cc.     *)
(*                                                                         *)
(* A thread stops for a signal about to be delivered or for an event, and  *)
(* each stop has one status that waitpid returns once.                     *)
(***************************************************************************)
CONSTANTS Threads,  \* thread ids of the target
          Main,     \* the thread group leader: its id is the process id
          Signals   \* signals somebody sends to threads of the target

ASSUME PtraceAssumption == Main \in Threads /\ Signals \subseteq {"STOP", "SEGV"}

VARIABLES
  ks,       \* ks[t]: "none", "born", "run", "stop", "zombie", "gone" (reaped)
            \* or "free" (no longer traced)
  why,      \* why[t]: what t stopped for last
  report,   \* report[t]: the status of the stop has not been returned by waitpid
  pend,     \* pend[t]: signals pending for t
  stepping, \* stepping[t]: t was resumed by PTRACE_SINGLESTEP
  msg,      \* msg[t]: what PTRACE_GETEVENTMSG returns after a clone, a thread id
  ending,   \* the whole process is exiting: exit_group, or a signal ended it
  dying     \* the threads that have yet to act on the SIGKILL this sends them

kernel == <<ks, why, report, pend, stepping, msg, ending, dying>>

\* Stops for a signal, and the signal each would deliver: an int3 (SI_KERNEL),
\* TRAP_BRKPT (the step over a system call) and TRAP_TRACE are all SIGTRAP.
TrapStops == {"INT3", "BRKPT", "TRACE"}
SignalStops == TrapStops \cup {"STOP", "SEGV"}
Whys == SignalStops \cup {"exec", "start", "clone", "exit", "group stop"}
SignalOf(w) == IF w \in TrapStops THEN "TRAP" ELSE w

Living == {t \in Threads : ks[t] \in {"born", "run", "stop"}}
Waitable(t) == report[t] \/ (ks[t] = "zombie" /\ (t = Main =>
                              \A u \in Threads \ {Main} : ks[u] \in {"none", "gone"}))

-----------------------------------------------------------------------------
(* The target runs                                                         *)

StopFor(t, w) == /\ ks' = [ks EXCEPT ![t] = "stop"]
                 /\ why' = [why EXCEPT ![t] = w]
                 /\ report' = [report EXCEPT ![t] = TRUE]

Running(t) == ks[t] = "run" /\ t \notin dying

Raise(t, s) == /\ t \in Living /\ s \in Signals
               /\ pend' = [pend EXCEPT ![t] = @ \cup {s}]
               /\ UNCHANGED <<ks, why, report, stepping, msg, ending, dying>>

\* A pending signal stops the thread before it is delivered; a group stop is
\* reported as a stop.
TakeSignal(t) == /\ Running(t)
                 /\ \E s \in pend[t] : /\ StopFor(t, s)
                                       /\ pend' = [pend EXCEPT ![t] = @ \ {s}]
                 /\ UNCHANGED <<stepping, msg, ending, dying>>

\* A new thread stops, with a SIGSTOP, before it executes anything
Start(t) == /\ ks[t] = "born" /\ t \notin dying
            /\ StopFor(t, "start")
            /\ pend' = [pend EXCEPT ![t] = @ \ {"STOP"}]
            /\ UNCHANGED <<stepping, msg, ending, dying>>

\* The thread executes: an int3, or the one instruction it was to step
Execute(t) == /\ Running(t)
              /\ \E w \in IF stepping[t] THEN TrapStops ELSE {"INT3"} : StopFor(t, w)
              /\ UNCHANGED <<pend, stepping, msg, ending, dying>>

Clone(t) == /\ Running(t)
            /\ \E u \in Threads :
                 /\ ks[u] = "none"
                 /\ ks' = [ks EXCEPT ![t] = "stop", ![u] = "born"]
                 /\ pend' = [pend EXCEPT ![u] = {"STOP"}]
                 /\ msg' = [msg EXCEPT ![t] = u]
            /\ why' = [why EXCEPT ![t] = "clone"]
            /\ report' = [report EXCEPT ![t] = TRUE]
            /\ UNCHANGED <<stepping, ending, dying>>

ExitThread(t) == /\ Running(t)
                 /\ StopFor(t, "exit")
                 /\ UNCHANGED <<pend, stepping, msg, ending, dying>>

ExitGroup(t) == /\ Running(t) /\ ~ending
                /\ StopFor(t, "exit")
                /\ ending' = TRUE
                /\ dying' = Living \ {t}
                /\ UNCHANGED <<pend, stepping, msg>>

\* SIGKILL ends a stop, and with it its status; the thread then stops once
\* more in its exit, or is past that stop already.
Killed(t) == /\ t \in dying
             /\ \/ /\ ks[t] = "stop" /\ why[t] # "exit"
                   /\ ks' = [ks EXCEPT ![t] = "run"]
                   /\ report' = [report EXCEPT ![t] = FALSE]
                   /\ UNCHANGED <<why, dying>>
                \/ /\ ks[t] \in {"run", "born"}
                   /\ StopFor(t, "exit")
                   /\ dying' = dying \ {t}
                \/ /\ ks[t] = "stop" /\ why[t] = "exit"
                   /\ ks' = [ks EXCEPT ![t] = "zombie"]
                   /\ report' = [report EXCEPT ![t] = FALSE]
                   /\ dying' = dying \ {t}
                   /\ why' = why
             /\ UNCHANGED <<pend, stepping, msg, ending>>

Target == \E t \in Threads :
            \/ \E s \in Signals : Raise(t, s)
            \/ TakeSignal(t) \/ Start(t) \/ Execute(t) \/ Clone(t)
            \/ ExitThread(t) \/ ExitGroup(t) \/ Killed(t)

-----------------------------------------------------------------------------
(* What the tracer's calls do                                              *)

Fetch(t) == IF report[t]
            THEN report' = [report EXCEPT ![t] = FALSE] /\ ks' = ks
            ELSE ks' = [ks EXCEPT ![t] = "gone"] /\ report' = report

\* PTRACE_CONT and PTRACE_SINGLESTEP with signal sig ("none": no signal).  The
\* signal counts only after a signal stop; it may end the process, and SIGSTOP
\* starts a group stop that every living thread reports.
Resume(t, sig, step) ==
  /\ report' = [report EXCEPT ![t] = FALSE]
  /\ stepping' = [stepping EXCEPT ![t] = step]
  /\ LET effect == why[t] \in SignalStops /\ sig # "none" IN
     \/ /\ why[t] = "exit"
        /\ ks' = [ks EXCEPT ![t] = "zombie"]
        /\ dying' = dying \ {t}
        /\ UNCHANGED <<pend, ending>>
     \/ /\ why[t] # "exit" /\ (effect => sig # "STOP")
        /\ ks' = [ks EXCEPT ![t] = "run"]
        /\ UNCHANGED <<pend, ending, dying>>
     \/ /\ effect /\ sig = "STOP"
        /\ ks' = [ks EXCEPT ![t] = "run"]
        /\ pend' = [u \in Threads |-> IF u \in Living THEN pend[u] \cup {"group stop"}
                                      ELSE pend[u]]
        /\ UNCHANGED <<ending, dying>>
     \/ /\ effect /\ sig # "STOP" /\ ~ending
        /\ ks' = [ks EXCEPT ![t] = "run"]
        /\ ending' = TRUE
        /\ dying' = Living
        /\ UNCHANGED pend
  /\ UNCHANGED <<why, msg>>

\* PTRACE_DETACH
Release(S) == /\ ks' = [t \in Threads |-> IF t \in S THEN "free" ELSE ks[t]]
              /\ report' = [t \in Threads |-> t \notin S /\ report[t]]
              /\ UNCHANGED <<why, pend, stepping, msg, ending, dying>>

\* kill(2) with SIGKILL
KillAll == /\ ending' = TRUE
           /\ dying' = Living
           /\ UNCHANGED <<ks, why, report, pend, stepping, msg>>

PtraceTypeOK ==
  /\ ks \in [Threads -> {"none", "born", "run", "stop", "zombie", "gone", "free"}]
  /\ why \in [Threads -> Whys]
  /\ report \in [Threads -> BOOLEAN]
  /\ pend \in [Threads -> SUBSET {"STOP", "SEGV", "group stop"}]
  /\ stepping \in [Threads -> BOOLEAN]
  /\ msg \in [Threads -> Threads]
  /\ ending \in BOOLEAN
  /\ dying \subseteq Threads
=============================================================================
