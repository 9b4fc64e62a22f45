------------------------------- MODULE Runner -------------------------------
(***************************************************************************)
(* src/hdbg/utils/runner.cc: one worker thread executes closures for the   *)
(* threads that call Runner::run; the hand-off is a one-slot mailbox       *)
(* (cmd_, fn_, eptr_) under one mutex and one condition variable.  The     *)
(* global pt_runner of os/linux/dbg/local is such a runner: every ptrace   *)
(* request of the debugger goes through it.                                *)
(*                                                                         *)
(* The predicate test of cv_.wait and the blocking that follows are two    *)
(* steps: the mutex is held across them, but ~Impl writes cmd_ without it. *)
(***************************************************************************)
EXTENDS FiniteSets, TLC

CONSTANTS
  Callers,     \* threads that call Runner::run
  Worker,      \* the thread worker_
  None,        \* no thread: a free mutex, an empty fn_
  Exclusive    \* TRUE: the callers never overlap (one thread drives the library)

ASSUME ThreadsAssumption ==
  /\ Worker \notin Callers
  /\ None \notin Callers \cup {Worker}
  /\ Exclusive \in BOOLEAN

VARIABLES
  cmd,      \* cmd_
  fn,       \* the caller whose closure fn_ holds, None before the first call
  eptr,     \* eptr_ holds an exception
  mtx,      \* the thread that owns mtx_, or None
  waiting,  \* the threads blocked in cv_.wait
  pc,       \* pc[t]: the point thread t has reached
  dtor,     \* the progress of ~Impl
  out,      \* out[c]: how the closure of c's current call ended, or "called"
  got       \* got[c]: how c's last call of run ended

vars == <<cmd, fn, eptr, mtx, waiting, pc, dtor, out, got>>

Threads == Callers \cup {Worker}
Outcomes == {"value", "throw"}
WorkerPoints == {"lock", "test", "block", "sleep", "switch", "exec", "done", "exit"}
CallerPoints == {"idle", "enter", "submit", "test", "block", "sleep", "finish"}
InWait == {"test", "block", "sleep"}
Holding == {"test", "block", "switch", "exec", "done", "submit", "finish"}

Init == /\ cmd = "None"
        /\ fn = None
        /\ eptr = FALSE
        /\ mtx = None
        /\ waiting = {}
        /\ pc = [t \in Threads |-> IF t = Worker THEN "lock" ELSE "idle"]
        /\ dtor = "alive"
        /\ out = [c \in Callers |-> "called"]
        /\ got = [c \in Callers |-> "none"]

-----------------------------------------------------------------------------
(* The condition variable and the mutex                                    *)

\* std::unique_lock, and the re-acquisition at the end of cv_.wait
Acquire(t, to) == /\ mtx = None
                  /\ mtx' = t
                  /\ pc' = [pc EXCEPT ![t] = to]

NotifyOne == IF waiting = {} THEN waiting' = {}
             ELSE \E t \in waiting : waiting' = waiting \ {t}

\* What the thread waits for: the predicate lambdas of the two cv_.wait calls
WantedAnything(t) == IF t = Worker THEN {"ExecFn", "Ret", "Done"} ELSE {"Done"}
Wanted(t) == IF t = Worker THEN {"ExecFn", "Ret"} ELSE {"Done"}
Proceed(t) == IF t = Worker THEN "switch" ELSE "finish"

TestPredicate(t) ==
  /\ pc[t] = "test"
  /\ pc' = [pc EXCEPT ![t] = IF cmd \in Wanted(t) THEN Proceed(t) ELSE "block"]
  /\ UNCHANGED <<cmd, fn, eptr, mtx, waiting, dtor, out, got>>

Block(t) ==
  /\ pc[t] = "block"
  /\ pc' = [pc EXCEPT ![t] = "sleep"]
  /\ mtx' = None
  /\ waiting' = waiting \cup {t}
  /\ UNCHANGED <<cmd, fn, eptr, dtor, out, got>>

SpuriousWakeup(t) ==
  /\ t \in waiting
  /\ waiting' = waiting \ {t}
  /\ UNCHANGED <<cmd, fn, eptr, mtx, pc, dtor, out, got>>

Wake(t) ==
  /\ pc[t] = "sleep"
  /\ t \notin waiting
  /\ Acquire(t, "test")
  /\ UNCHANGED <<cmd, fn, eptr, waiting, dtor, out, got>>

-----------------------------------------------------------------------------
(* The loop of the worker thread                                           *)

WorkerLock ==
  /\ pc[Worker] = "lock"
  /\ Acquire(Worker, "test")
  /\ UNCHANGED <<cmd, fn, eptr, waiting, dtor, out, got>>

\* The switch; its default branch is assert(false), see SwitchAssert
SwitchExecFn ==
  /\ pc[Worker] = "switch"
  /\ cmd = "ExecFn"
  /\ pc' = [pc EXCEPT ![Worker] = "exec"]
  /\ UNCHANGED <<cmd, fn, eptr, mtx, waiting, dtor, out, got>>

SwitchRet ==
  /\ pc[Worker] = "switch"
  /\ cmd = "Ret"
  /\ pc' = [pc EXCEPT ![Worker] = "exit"]
  /\ mtx' = None
  /\ UNCHANGED <<cmd, fn, eptr, waiting, dtor, out, got>>

\* A stale eptr_ would survive a closure that ends normally
ExecuteKeepsEptr ==
  /\ pc[Worker] = "exec"
  /\ \E o \in Outcomes : /\ out' = [out EXCEPT ![fn] = o]
                         /\ eptr' = (eptr \/ o = "throw")
  /\ pc' = [pc EXCEPT ![Worker] = "done"]
  /\ UNCHANGED <<cmd, fn, mtx, waiting, dtor, got>>

Execute ==
  /\ pc[Worker] = "exec"
  /\ \E o \in Outcomes : /\ out' = [out EXCEPT ![fn] = o]
                         /\ eptr' = (o = "throw")
  /\ pc' = [pc EXCEPT ![Worker] = "done"]
  /\ UNCHANGED <<cmd, fn, mtx, waiting, dtor, got>>

\* A worker that leaves cmd_ at ExecFn when it wakes the caller
PublishForgetsDone ==
  /\ pc[Worker] = "done"
  /\ NotifyOne
  /\ mtx' = None
  /\ pc' = [pc EXCEPT ![Worker] = "lock"]
  /\ UNCHANGED <<cmd, fn, eptr, dtor, out, got>>

\* cmd_ = Done, notify_one, and the end of the scope of the unique_lock
Publish ==
  /\ pc[Worker] = "done"
  /\ cmd' = "Done"
  /\ NotifyOne
  /\ mtx' = None
  /\ pc' = [pc EXCEPT ![Worker] = "lock"]
  /\ UNCHANGED <<fn, eptr, dtor, out, got>>

-----------------------------------------------------------------------------
(* Runner::run and do_run                                                  *)

Call(c) ==
  /\ pc[c] = "idle"
  /\ dtor = "alive"
  /\ Exclusive => \A d \in Callers : pc[d] = "idle"
  /\ pc' = [pc EXCEPT ![c] = "enter"]
  /\ out' = [out EXCEPT ![c] = "called"]
  /\ UNCHANGED <<cmd, fn, eptr, mtx, waiting, dtor, got>>

Enter(c) ==
  /\ pc[c] = "enter"
  /\ Acquire(c, "submit")
  /\ UNCHANGED <<cmd, fn, eptr, waiting, dtor, out, got>>

\* do_run that keeps the closure of an earlier call
SubmitKeepsFn(c) ==
  /\ pc[c] = "submit"
  /\ cmd' = "ExecFn"
  /\ fn' = IF fn = None THEN c ELSE fn
  /\ NotifyOne
  /\ pc' = [pc EXCEPT ![c] = "test"]
  /\ UNCHANGED <<eptr, mtx, dtor, out, got>>

Submit(c) ==
  /\ pc[c] = "submit"
  /\ cmd' = "ExecFn"
  /\ fn' = c
  /\ NotifyOne
  /\ pc' = [pc EXCEPT ![c] = "test"]
  /\ UNCHANGED <<eptr, mtx, dtor, out, got>>

Finish(c) ==
  /\ pc[c] = "finish"
  /\ cmd' = "None"
  /\ got' = [got EXCEPT ![c] = IF eptr THEN "throw" ELSE "value"]
  /\ mtx' = None
  /\ pc' = [pc EXCEPT ![c] = "idle"]
  /\ UNCHANGED <<fn, eptr, waiting, dtor, out>>

-----------------------------------------------------------------------------
(* ~Impl, which runs when no thread is inside run                          *)

DestructorSetsRet ==
  /\ dtor = "alive"
  /\ \A c \in Callers : pc[c] = "idle"
  /\ cmd' = "Ret"
  /\ dtor' = "notify"
  /\ UNCHANGED <<fn, eptr, mtx, waiting, pc, out, got>>

DestructorNotifyAll ==
  /\ dtor = "notify"
  /\ waiting' = {}
  /\ dtor' = "join"
  /\ UNCHANGED <<cmd, fn, eptr, mtx, pc, out, got>>

DestructorJoin ==
  /\ dtor = "join"
  /\ pc[Worker] = "exit"
  /\ dtor' = "gone"
  /\ UNCHANGED <<cmd, fn, eptr, mtx, waiting, pc, out, got>>

-----------------------------------------------------------------------------

WorkerStep == WorkerLock \/ SwitchExecFn \/ SwitchRet \/ Execute \/ Publish
CallerStep(c) == Enter(c) \/ Submit(c) \/ Finish(c)
CvStep(t) == TestPredicate(t) \/ Block(t) \/ Wake(t)
Destructor == DestructorSetsRet \/ DestructorNotifyAll \/ DestructorJoin

Next == \/ WorkerStep
        \/ \E c \in Callers : Call(c) \/ CallerStep(c)
        \/ \E t \in Threads : CvStep(t) \/ SpuriousWakeup(t)
        \/ Destructor

Spec == Init /\ [][Next]_vars

\* Every thread is scheduled, and a thread to which the mutex is offered again
\* and again gets it.  Nobody has to call run or to destroy the runner, and
\* no spurious wakeup has to happen.
Fairness ==
  /\ SF_vars(WorkerStep \/ CvStep(Worker))
  /\ \A c \in Callers : SF_vars(CallerStep(c) \/ CvStep(c))
  /\ WF_vars(DestructorNotifyAll \/ DestructorJoin)

FairSpec == Spec /\ Fairness

-----------------------------------------------------------------------------

\* Every variable holds a value of its type
TypeOK ==
  /\ cmd \in {"None", "ExecFn", "Ret", "Done"}
  /\ fn \in Callers \cup {None}
  /\ eptr \in BOOLEAN
  /\ mtx \in Threads \cup {None}
  /\ waiting \subseteq Threads
  /\ pc \in [Threads -> WorkerPoints \cup CallerPoints]
  /\ dtor \in {"alive", "notify", "join", "gone"}
  /\ out \in [Callers -> Outcomes \cup {"called"}]
  /\ got \in [Callers -> Outcomes \cup {"none"}]

\* The closure run() builds captures its caller's stack by reference
\* (runner.hpp:52, 64): the worker never executes it unless that caller is
\* still blocked in do_run, however many threads call run at once.
ClosureAlive ==
  pc[Worker] = "exec" => fn \in Callers /\ pc[fn] \in InWait

\* The assert(false) of the worker's switch (runner.cc:53) is never reached,
\* although ~Impl writes cmd_ without the mutex between the test and the switch.
SwitchAssert == pc[Worker] = "switch" => cmd \in {"ExecFn", "Ret"}

\* When do_run reads eptr_ and returns, the worker has executed this very
\* caller's closure, and eptr_ tells how that execution ended.
OwnOutcome ==
  \A c \in Callers : pc[c] = "finish" =>
    /\ fn = c
    /\ out[c] = IF eptr THEN "throw" ELSE "value"

\* The inductive invariant behind ClosureAlive and SwitchAssert, for callers
\* that may overlap: a thread owns the mutex exactly at its Holding points,
\* and while cmd_ is ExecFn the thread that wrote fn_ last stays in its wait.
SlotInv ==
  /\ pc[Worker] \in WorkerPoints
  /\ \A c \in Callers : pc[c] \in CallerPoints
  /\ \A t \in Threads : pc[t] \in Holding <=> mtx = t
  /\ cmd = "ExecFn" => fn \in Callers /\ pc[fn] \in InWait
  /\ pc[Worker] = "switch" => cmd \in {"ExecFn", "Ret"}
  /\ pc[Worker] \in {"exec", "done"} => cmd = "ExecFn"
  /\ dtor # "alive" => cmd = "Ret" /\ \A c \in Callers : pc[c] = "idle"

\* What fn_'s closure did is what eptr_ says
Told == fn \in Callers /\ out[fn] = IF eptr THEN "throw" ELSE "value"

\* The inductive invariant behind OwnOutcome, for callers that do not overlap:
\* the mailbox is in step with the one call in progress.
MailboxInv ==
  /\ \A c, d \in Callers : pc[c] # "idle" /\ pc[d] # "idle" => c = d
  /\ \A c \in Callers : pc[c] \in {"enter", "submit"} =>
       out[c] = "called" /\ cmd = "None"
  /\ \A c \in Callers : pc[c] \in InWait =>
       /\ fn = c
       /\ \/ cmd = "ExecFn" /\ (pc[Worker] # "done" => out[c] = "called")
          \/ cmd = "Done"
  /\ \A c \in Callers : pc[c] = "finish" => fn = c /\ cmd = "Done"
  /\ cmd = "Done" \/ pc[Worker] = "done" => Told
  /\ dtor = "alive" /\ (\A c \in Callers : pc[c] = "idle") => cmd = "None"

\* Runner::run implements the synchronous call of SyncCall
Abstract == INSTANCE SyncCall WITH
  st <- [c \in Callers |-> IF pc[c] = "idle" THEN "idle" ELSE out[c]],
  open <- (dtor = "alive")

ImplementsSyncCall == Abstract!FairSpec

\* Every call of run returns
CallReturns == \A c \in Callers : pc[c] # "idle" ~> pc[c] = "idle"

\* The destructor returns: worker_.join() (runner.cc:65) finds the worker gone,
\* which every test of runner_unittest.cc relies on when its fixture dies.
DestructorJoins == (dtor = "notify") ~> (dtor = "gone")
=============================================================================
