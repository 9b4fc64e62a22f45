------------------------------- MODULE Attach -------------------------------
(***************************************************************************)
(* LocalDebuggee::attach: a SIGSTOP to the process, PTRACE_ATTACH of its   *)
(* leader, one enumeration of /proc/<pid>/task, and PTRACE_ATTACH of each  *)
(* thread listed, while those not yet attached run, clone and exit.        *)
(*                                                                         *)
(* The kernel's half: SIGSTOP sent to a process is taken by one thread.  A *)
(* thread that is not traced starts a group stop; a traced one only stops  *)
(* for its tracer, and the signal is spent.                                *)
(***************************************************************************)
CONSTANTS Threads,  \* thread ids, those yet to be created included
          Main,     \* the leader: its id is the process id
          Initial,  \* the threads of the process when attach is called
          Exits     \* the threads that may exit meanwhile

ASSUME AttachAssumption == Main \in Initial /\ Initial \subseteq Threads

VARIABLES
  ks,      \* ks[t]: "none", "run", "held" (in a group stop), "stop" (for its
           \* tracer), "zombie" or "gone"
  pend,    \* pend[t]: PTRACE_ATTACH's "STOP", and "group" once a group stop began
  shared,  \* the SIGSTOP sent to the process is pending
  grouped, \* it began a group stop
  report,  \* the threads whose stop waitpid has not returned
  traced,  \* the threads attached
  opts,    \* those for which PTRACE_SETOPTIONS succeeded
  pc,      \* attach is about to: "kill", "attach", "wait", "options", "enum",
           \* "next"; or it is "done", "threw" or has "terminated" the debugger
  cur,     \* the thread it is attaching
  todo,    \* listed threads it has yet to attach
  old,     \* the threads there were when it listed them
  known    \* threads_ of the debuggee under construction

target == <<ks, pend, shared, grouped>>
attach_vars == <<target, report, traced, opts, pc, cur, todo, old, known>>

AttachInit ==
  /\ ks = [t \in Threads |-> IF t \in Initial THEN "run" ELSE "none"]
  /\ pend = [t \in Threads |-> {}]
  /\ shared = FALSE /\ grouped = FALSE
  /\ report = {} /\ traced = {} /\ opts = {}
  /\ pc = "kill" /\ cur = Main /\ todo = {} /\ old = {} /\ known = {}

Alive == {t \in Threads : ks[t] \in {"run", "held", "stop"}}

-----------------------------------------------------------------------------
(* The target                                                              *)

Stop(t) == /\ ks' = [ks EXCEPT ![t] = "stop"]
           /\ report' = report \cup {t}
Hold(t) == ks' = [ks EXCEPT ![t] = "held"] /\ report' = report
Take(t) == IF t \in traced THEN Stop(t) ELSE Hold(t)

TakeStop(t) == /\ ks[t] = "run" /\ "STOP" \in pend[t]
               /\ pend' = [pend EXCEPT ![t] = @ \ {"STOP"}]
               /\ Stop(t)
               /\ UNCHANGED <<shared, grouped>>

TakeGroup(t) == /\ ks[t] = "run" /\ "group" \in pend[t]
                /\ pend' = [pend EXCEPT ![t] = @ \ {"group"}]
                /\ Take(t)
                /\ UNCHANGED <<shared, grouped>>

TakeShared(t) == /\ ks[t] = "run" /\ shared
                 /\ shared' = FALSE
                 /\ grouped' = (t \notin traced)
                 /\ pend' = IF t \in traced THEN pend
                            ELSE [u \in Threads |-> IF u \in Alive \ {t}
                                    THEN pend[u] \cup {"group"} ELSE pend[u]]
                 /\ Take(t)

\* clone(2) gives way to a pending signal
Clone(t) == /\ ks[t] = "run" /\ pend[t] = {} /\ ~shared
            /\ \E u \in Threads : ks[u] = "none" /\ ks' = [ks EXCEPT ![u] = "run"]
            /\ UNCHANGED <<pend, shared, grouped, report>>

\* A traced thread, and the leader, wait to be reaped
Exit(t) == /\ ks[t] = "run" /\ t \in Exits
           /\ ks' = [ks EXCEPT ![t] = IF t \in traced \cup {Main} THEN "zombie" ELSE "gone"]
           /\ UNCHANGED <<pend, shared, grouped, report>>

Signals == /\ \E t \in Threads : TakeStop(t) \/ TakeGroup(t) \/ TakeShared(t)
           /\ UNCHANGED <<traced, opts, pc, cur, todo, old, known>>

Program == /\ \E t \in Threads : Clone(t) \/ Exit(t)
           /\ UNCHANGED <<traced, opts, pc, cur, todo, old, known>>

-----------------------------------------------------------------------------
(* attach                                                                  *)

\* The exception meets no debuggee, or destroys one that is attached_, whose
\* destructor calls std::terminate
Fail == /\ pc' = IF known = {} THEN "threw" ELSE "terminated"
        /\ UNCHANGED <<target, report, traced, opts, cur, todo, old, known>>

\* kill(pid, SIGSTOP)
KillStop == /\ pc = "kill"
            /\ shared' = (Alive # {})
            /\ pc' = "attach"
            /\ UNCHANGED <<ks, pend, grouped, report, traced, opts, cur, todo, old, known>>

\* PTRACE_SEIZE in the place of PTRACE_ATTACH: no SIGSTOP comes with it
SeizeThread ==
  /\ pc = "attach" /\ cur \in Alive
  /\ traced' = traced \cup {cur}
  /\ IF ks[cur] = "held" THEN Stop(cur) ELSE UNCHANGED <<ks, report>>
  /\ pc' = "wait"
  /\ UNCHANGED <<pend, shared, grouped, opts, cur, todo, old, known>>

\* PTRACE_ATTACH: a thread in a group stop is in a stop for its tracer at once
AttachThread ==
  /\ pc = "attach" /\ cur \in Alive
  /\ traced' = traced \cup {cur}
  /\ pend' = [pend EXCEPT ![cur] = @ \cup {"STOP"}]
  /\ IF ks[cur] = "held" THEN Stop(cur) ELSE UNCHANGED <<ks, report>>
  /\ pc' = "wait"
  /\ UNCHANGED <<shared, grouped, opts, cur, todo, old, known>>

AttachFails == pc = "attach" /\ cur \notin Alive /\ Fail

\* A ptrace_attach_task without its waitpid
WaitNoHang == /\ pc = "wait"
              /\ report' = report \ {cur}
              /\ pc' = "options"
              /\ UNCHANGED <<target, traced, opts, cur, todo, old, known>>

\* waitpid, whose status is not looked at.  A dead leader's comes last.
WaitStopped == /\ pc = "wait"
               /\ \/ cur \in report /\ UNCHANGED ks
                  \/ /\ ks[cur] = "zombie"
                     /\ cur = Main => \A u \in Threads \ {Main} : ks[u] \in {"none", "gone"}
                     /\ ks' = [ks EXCEPT ![cur] = "gone"]
               /\ report' = report \ {cur}
               /\ pc' = "options"
               /\ UNCHANGED <<pend, shared, grouped, traced, opts, cur, todo, old, known>>

\* PTRACE_SETOPTIONS and add_new_thread, which takes the thread for stopped.  The
\* debuggee is made when the leader is attached; its construction may fail, as in
\* Launch.Open, and nothing is done about the leader then.
SetOptions ==
  /\ pc = "options" /\ ks[cur] = "stop"
  /\ opts' = opts \cup {cur}
  /\ \/ /\ known' = known \cup {cur}
        /\ pc' = IF cur = Main THEN "enum" ELSE "next"
     \/ cur = Main /\ pc' = "threw" /\ UNCHANGED known
  /\ UNCHANGED <<target, report, traced, cur, todo, old>>

OptionsFail == pc = "options" /\ ks[cur] # "stop" /\ Fail

\* An enumeration that passes over the threads that are not stopped yet
EnumerateHeld == /\ pc = "enum"
                 /\ old' = Alive
                 /\ todo' = {t \in Alive \ {Main} : ks[t] = "held"}
                 /\ pc' = "next"
                 /\ UNCHANGED <<target, report, traced, opts, cur, known>>

\* One pass over /proc/<pid>/task: a directory that is read before it is walked
Enumerate == /\ pc = "enum"
             /\ old' = Alive
             /\ todo' = Alive \ {Main}
             /\ pc' = "next"
             /\ UNCHANGED <<target, report, traced, opts, cur, known>>

NextThread == /\ pc = "next"
              /\ \/ \E t \in todo : /\ cur' = t /\ todo' = todo \ {t}
                                    /\ pc' = "attach"
                 \/ todo = {} /\ pc' = "done" /\ UNCHANGED <<cur, todo>>
              /\ UNCHANGED <<target, report, traced, opts, old, known>>

Attaching == KillStop \/ AttachThread \/ AttachFails \/ WaitStopped
             \/ SetOptions \/ OptionsFail \/ Enumerate \/ NextThread

AttachNext == Signals \/ Program \/ Attaching

\* attach and the delivery of signals go on; the program need not do anything
AttachSpec == /\ AttachInit /\ [][AttachNext]_attach_vars
              /\ WF_attach_vars(Attaching) /\ WF_attach_vars(Signals)

-----------------------------------------------------------------------------

\* Every variable holds a value of its type
AttachTypeOK ==
  /\ ks \in [Threads -> {"none", "run", "held", "stop", "zombie", "gone"}]
  /\ pend \in [Threads -> SUBSET {"STOP", "group"}]
  /\ shared \in BOOLEAN /\ grouped \in BOOLEAN
  /\ report \subseteq Threads /\ traced \subseteq Threads /\ opts \subseteq Threads
  /\ pc \in {"kill", "attach", "wait", "options", "enum", "next",
             "done", "threw", "terminated"}
  /\ cur \in Threads /\ todo \subseteq Threads /\ old \subseteq Threads
  /\ known \subseteq Threads

\* A thread that attach put in the map, flagged as stopped (debuggee.cc:90), is
\* stopped for the debugger, and no status of that stop is left to confuse the
\* first wait of run().
KnownHeld == \A t \in known : ks[t] = "stop" /\ t \in opts \ report

\* When attach returns, what still runs was created after the enumeration:
\* nothing that was there escaped, whichever thread took the SIGSTOP.
OnlyNewcomersRun == pc = "done" => \A t \in Alive \ known : t \notin old

\* The SIGSTOP sent first makes attach complete, but only if it met a thread not
\* yet traced: taken by one that is, it stops nobody else, and threads that are
\* created meanwhile stay out of the debugger's reach for good.
GroupStopCompletes == pc = "done" /\ grouped => Alive = known

\* The inductive invariant behind these three: what each point of attach has
\* established,
Points ==
  /\ pc = "kill" => known = {} /\ ~shared /\ ~grouped
  /\ pc = "options" => cur \notin report /\ ks[cur] \in {"stop", "gone"}
  /\ pc \in {"enum", "next", "done", "terminated"} => Main \in known
  /\ Main \notin known => known = {} /\ cur = Main
  /\ Main \in known /\ pc \in {"attach", "wait", "options"} => cur # Main
  /\ pc = "done" => todo = {}
  /\ Main \notin todo

\* where a listed thread is,
Listed == Main \in known /\ pc # "enum" =>
  \A t \in old : /\ ks[t] # "none"
                 /\ t \in Alive => \/ t \in known \cup todo
                                   \/ t = cur /\ pc \in {"attach", "wait", "options"}

\* and that nothing is cloned until a traced thread takes the SIGSTOP.
NoneCreated ==
  /\ grouped => \A t \in Threads : ks[t] = "run" => "group" \in pend[t]
  /\ Main \in known /\ pc # "enum" /\ (shared \/ grouped) => Alive \subseteq old

AttachInv == /\ AttachTypeOK /\ KnownHeld /\ Points /\ Listed /\ NoneCreated
             /\ OnlyNewcomersRun /\ GroupStopCompletes
             /\ \A t \in report : ks[t] = "stop"

\* attach returns or fails, unless the leader exits before other threads do: the
\* waitpid for a leader that is a zombie by then waits for all the others.
AttachEnds == <>(pc \in {"done", "threw", "terminated"} \/ ks[Main] = "zombie")
=============================================================================
