------------------------------- MODULE Launch -------------------------------
(***************************************************************************)
(* LocalDebuggee::exec and the child it forks (ptrace_child_stub), up to   *)
(* the debuggee it returns or the exception it throws.                     *)
(*                                                                         *)
(* The child is forked by the worker thread of pt_runner and leaves its    *)
(* stub, when something fails, by std::exit.  That runs the destructor of  *)
(* the child's copy of pt_runner, in which the only thread of the child,   *)
(* the worker's copy, joins itself: std::thread::join throws, out of a     *)
(* destructor, and the child ends by SIGABRT, never with an exit code.     *)
(***************************************************************************)
CONSTANT Outside  \* signals that others may send to the child, once each

ASSUME LaunchAssumption == Outside \subseteq {"TERM", "STOP", "KILL"}

VARIABLES
  point,    \* exec: "fork", "wait1", "options", "cont", "wait2", "open", "done"
            \* (has returned), "threw", or "refused" (threw because the child
            \* could not be opened)
  status,   \* what the last waitpid returned: "stopped", "exited" or "killed"
  st,       \* the child: "none", "run", "stop", "zombie" or "gone" (reaped)
  at,       \* the child is about to: "chdir", "traceme", "raise", "execve",
            \* "quit"; or it is in the "program"
  tracee,   \* PTRACE_TRACEME has succeeded
  options,  \* PTRACE_SETOPTIONS has succeeded
  why,      \* what the child stopped for last
  unread,   \* the status of that stop has not been returned by waitpid
  signals,  \* signals sent to the child that it has not met
  sent      \* signals sent

parent == <<point, status>>
child == <<st, at, tracee, options, why, unread, signals>>
launch_vars == <<parent, child, sent>>

Stops == {"none", "STOP", "EXEC", "ABRT", "TERM", "exit"}

LaunchInit ==
  /\ point = "fork" /\ status = "none"
  /\ st = "none" /\ at = "chdir" /\ tracee = FALSE /\ options = FALSE
  /\ why = "none" /\ unread = FALSE
  /\ signals = {} /\ sent = {}

-----------------------------------------------------------------------------
(* The child                                                               *)

StopFor(w) == st' = "stop" /\ why' = w /\ unread' = TRUE
ChildDies == st' = "zombie" /\ unread' = FALSE /\ why' = why

\* A call of the stub that succeeds, or fails and leads to std::exit
Goes(p) == at' = p /\ UNCHANGED <<st, why, unread>>

Chdir == /\ st = "run" /\ at = "chdir"
         /\ Goes("traceme") \/ Goes("quit")
         /\ UNCHANGED <<tracee, options, signals>>

TraceMe == /\ st = "run" /\ at = "traceme"
           /\ \/ Goes("raise") /\ tracee' = TRUE
              \/ Goes("quit") /\ tracee' = tracee
           /\ UNCHANGED <<options, signals>>

RaiseSigstop == /\ st = "run" /\ at = "raise"
                /\ StopFor("STOP") /\ at' = "execve"
                /\ UNCHANGED <<tracee, options, signals>>

Execve == /\ st = "run" /\ at = "execve"
          /\ \/ StopFor("EXEC") /\ at' = "program"
             \/ Goes("quit")
          /\ UNCHANGED <<tracee, options, signals>>

\* std::exit, which ends in abort
Quit == /\ st = "run" /\ at = "quit"
        /\ IF tracee THEN StopFor("ABRT") ELSE ChildDies
        /\ UNCHANGED <<at, tracee, options, signals>>

\* A signal from outside stops a traced child; an untraced one it stops or ends
TakeSignal == /\ st = "run"
              /\ \E s \in signals \ {"KILL"} :
                   /\ IF tracee \/ s = "STOP" THEN StopFor(s) ELSE ChildDies
                   /\ signals' = signals \ {s}
              /\ UNCHANGED <<at, tracee, options>>

\* SIGKILL ends every stop; with PTRACE_O_TRACEEXIT the child stops once more
Killed == /\ st \in {"run", "stop"} /\ "KILL" \in signals
          /\ IF options /\ why # "exit" THEN StopFor("exit") ELSE ChildDies
          /\ UNCHANGED <<at, tracee, options, signals>>

Child == (Chdir \/ TraceMe \/ RaiseSigstop \/ Execve \/ Quit \/ TakeSignal \/ Killed)
         /\ UNCHANGED <<parent, sent>>

Send(s) == /\ s \in Outside \ sent /\ st \in {"run", "stop"}
           /\ signals' = signals \cup {s} /\ sent' = sent \cup {s}
           /\ UNCHANGED <<parent, st, at, tracee, options, why, unread>>

-----------------------------------------------------------------------------
(* exec                                                                    *)

ForkChild == /\ point = "fork"
             /\ \/ point' = "wait1" /\ st' = "run"
                \/ point' = "threw" /\ st' = st
             /\ UNCHANGED <<status, at, tracee, options, why, unread, signals, sent>>

\* waitpid, and the test of WIFEXITED after it
Wait(next) ==
  /\ unread \/ st = "zombie"
  /\ status' = IF unread THEN "stopped" ELSE "killed"
  /\ st' = IF unread THEN st ELSE "gone"
  /\ unread' = FALSE
  /\ point' = IF status' = "exited" THEN "threw" ELSE next
  /\ UNCHANGED <<at, tracee, options, why, signals, sent>>

\* waitpid without WUNTRACED, which does not see an untraced child stop
WaitStopTraced == point = "wait1" /\ (tracee \/ st = "zombie") /\ Wait("options")

WaitStop == point = "wait1" /\ Wait("options")

SetChildOptions ==
  /\ point = "options"
  /\ IF tracee /\ st = "stop" THEN point' = "cont" /\ options' = TRUE
                              ELSE point' = "threw" /\ options' = options
  /\ UNCHANGED <<status, st, at, tracee, why, unread, signals, sent>>

Cont ==
  /\ point = "cont"
  /\ IF st = "stop"
     THEN point' = "wait2" /\ st' = IF why = "exit" THEN "zombie" ELSE "run"
     ELSE point' = "threw" /\ st' = st
  /\ unread' = FALSE
  /\ UNCHANGED <<status, at, tracee, options, why, signals, sent>>

\* A second waitpid that does not block
WaitTrapNoHang ==
  /\ point = "wait2"
  /\ \/ Wait("open")
     \/ ~unread /\ st # "zombie" /\ point' = "open"
          /\ UNCHANGED <<status, st, at, tracee, options, why, unread, signals, sent>>

WaitTrap == point = "wait2" /\ Wait("open")

\* The debuggee is refused unless the child is in its execve stop
OpenExecuted ==
  /\ point = "open"
  /\ point' = IF why = "EXEC" THEN "done" ELSE "threw"
  /\ UNCHANGED <<status, child, sent>>

\* new LocalDebuggee, whose LocalDebugProcess lists the child's mappings and opens
\* /proc/<pid>/mem.  That fails once the child is reaped, and may fail for any
\* child, as for want of a descriptor; nothing is done about the child then.
\* The thread's entry says it is stopped.
Open ==
  /\ point = "open"
  /\ point' = "refused" \/ (st # "gone" /\ point' = "done")
  /\ UNCHANGED <<status, child, sent>>

Exec == ForkChild \/ WaitStop \/ SetChildOptions \/ Cont \/ WaitTrap \/ Open

LaunchNext == Child \/ Exec \/ \E s \in Outside : Send(s)

\* The child and the caller of exec each run
LaunchSpec == /\ LaunchInit /\ [][LaunchNext]_launch_vars
              /\ WF_launch_vars(Child) /\ WF_launch_vars(Exec)

-----------------------------------------------------------------------------

\* Every variable holds a value of its type
LaunchTypeOK ==
  /\ point \in {"fork", "wait1", "options", "cont", "wait2", "open", "done", "threw", "refused"}
  /\ status \in {"none", "stopped", "exited", "killed"}
  /\ st \in {"none", "run", "stop", "zombie", "gone"}
  /\ at \in {"chdir", "traceme", "raise", "execve", "quit", "program"}
  /\ tracee \in BOOLEAN /\ options \in BOOLEAN
  /\ why \in Stops /\ unread \in BOOLEAN
  /\ signals \subseteq Outside /\ sent \subseteq Outside

\* The entry of the thread of a returned debuggee says "stopped" (debuggee.cc:90),
\* and so it is, its status fetched, whatever signal came between and wherever
\* the stub had got to; unless SIGKILL was sent.
ReturnedStopped == point = "done" => (st = "stop" /\ ~unread) \/ "KILL" \in sent

\* An exec that throws leaves a live child in two cases only, and neither child
\* runs: one that somebody's SIGSTOP had stopped before it asked to be traced,
\* and one that could not be opened, which stays traced, in a stop whose status
\* has been fetched.  (What SIGKILL leaves is about to die.)
LeftBehind ==
  point \in {"threw", "refused"} /\ st \in {"run", "stop"} /\ "KILL" \notin sent =>
    /\ st = "stop"
    /\ \/ "STOP" \in sent /\ ~tracee
       \/ point = "refused" /\ tracee /\ options /\ ~unread

\* The inductive invariant behind both: exec waits while the child runs, and
\* only SIGKILL ends a traced child or takes it to its exit.
LaunchInv ==
  /\ LaunchTypeOK /\ ReturnedStopped /\ LeftBehind
  /\ unread => st = "stop"
  /\ signals \subseteq sent
  /\ point \in {"cont", "wait2", "open", "done", "refused"} \/ options => tracee
  /\ point \in {"cont", "wait2", "open", "done", "refused"} => options
  /\ at \in {"raise", "execve", "program"} => tracee
  /\ tracee /\ st \in {"zombie", "gone"} => "KILL" \in sent
  /\ why = "exit" => "KILL" \in sent
  /\ st = "stop" /\ ~tracee => "STOP" \in sent
  /\ st = "run" => point \in {"wait1", "wait2"}
  /\ point \in {"open", "refused"} => (st = "stop" /\ ~unread) \/ "KILL" \in sent
  /\ point = "fork" <=> st = "none" /\ point # "threw"

\* exec returns or throws, whatever the stub runs into
ExecEnds == <>(point \in {"done", "threw", "refused"})

\* The comments on the two waits ("// sigstop", "// sigtrap") and the tests of
\* WIFEXITED between them: exec returns a debuggee only if the program started.
ReturnsStarted == point = "done" => why = "EXEC"
=============================================================================
