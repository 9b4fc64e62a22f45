---------------------------- MODULE LocalDebuggee ----------------------------
(***************************************************************************)
(* The event loop of os/linux/dbg/local/debuggee.cc over the kernel of     *)
(* Ptrace: run, pause, singlestep, the wait for a status, dispatch_event   *)
(* and its handlers, and the step over a breakpoint that handle_bp_event   *)
(* nests in a dispatch.  ctl is the stack of API calls in progress.        *)
(*                                                                         *)
(* The client is its listener: it discards the events whose stop is in     *)
(* Discards.  Which stops are breakpoint hits is left open.                *)
(***************************************************************************)
EXTENDS Ptrace, Naturals, Sequences

CONSTANTS Discards,  \* the stops whose events the listener discards
          HitStops,  \* the stops that may be breakpoint hits
          MaxDepth   \* bound: API calls nested in one another

ASSUME DebuggeeAssumption == /\ MaxDepth \in Nat
                             /\ HitStops \subseteq SignalStops \ {"TRACE"}

VARIABLES
  threads,   \* threads_: a function from known threads to [stopped, sig]
  attached,  \* attached_
  evt_ign,   \* evt_ign_
  ctl,       \* calls in progress, innermost last: [op, at, thr, evt]
  err,       \* the first error of a system call, or "none"
  freed      \* a handler has used the entry of an erased thread

vars == <<kernel, threads, attached, evt_ign, ctl, err, freed>>

Entries == [stopped : BOOLEAN, sig : {"none", "TRAP", "STOP", "SEGV"}]
Calls == [op : {"run", "pause", "step", "bp"}, at : {"cont", "wait", "stop", "handle", "restore"},
          thr : Threads, evt : Whys \cup {"none", "end"}]

Known == DOMAIN threads
Top == ctl[Len(ctl)]
At(p) == ctl # <<>> /\ Top.at = p /\ ~freed
Idle == ctl = <<>> /\ attached /\ ~freed
Goto(p) == ctl' = [ctl EXCEPT ![Len(ctl)].at = p]
Push(op, at, t) == ctl' = Append(ctl, [op |-> op, at |-> at, thr |-> t, evt |-> "none"])

\* exec leaves the leader in its execve stop, and attach each thread in a stop,
\* with perhaps another SIGSTOP on its way.  All these stops are called "exec".
Init ==
  /\ threads \in UNION {[S -> {[stopped |-> TRUE, sig |-> "none"]}] : S \in SUBSET Threads}
  /\ Main \in Known
  /\ ks = [t \in Threads |-> IF t \in Known THEN "stop" ELSE "none"]
  /\ why = [t \in Threads |-> "exec"]
  /\ report = [t \in Threads |-> FALSE]
  /\ pend \in {[t \in Threads |-> IF t \in L THEN {"STOP"} ELSE {}] : L \in SUBSET Known}
  /\ stepping = [t \in Threads |-> FALSE]
  /\ msg = [t \in Threads |-> Main]
  /\ ending = FALSE
  /\ dying = {}
  /\ attached = TRUE
  /\ evt_ign = FALSE
  /\ ctl = <<>>
  /\ err = "none"
  /\ freed = FALSE

\* A system call fails: its exception leaves every call in progress
Throw(e) == /\ err' = IF err = "none" THEN e ELSE err
            /\ ctl' = <<>>

-----------------------------------------------------------------------------
(* Resuming threads                                                        *)

\* A resume that leaves the entry marked as stopped
RestartKeepsStopped(t, step) ==
  /\ Resume(t, threads[t].sig, step)
  /\ threads' = [threads EXCEPT ![t].sig = "none"]

\* A resume after which the signal would be delivered once more
RestartKeepsSignal(t, step) ==
  /\ Resume(t, threads[t].sig, step)
  /\ threads' = [threads EXCEPT ![t].stopped = FALSE]

\* ptrace_cont or ptrace_singlestep, and the reset of the thread's entry
Restart(t, step) ==
  /\ Resume(t, threads[t].sig, step)
  /\ threads' = [threads EXCEPT ![t] = [stopped |-> FALSE, sig |-> "none"]]

\* singlestep, called by the client ("step") or by handle_bp_event ("bp")
StepThread(t, op) ==
  /\ t \in Known /\ threads[t].stopped
  /\ \/ /\ ks[t] = "stop"
        /\ Restart(t, TRUE)
        /\ Push(op, "wait", t)
        /\ UNCHANGED err
     \/ /\ ks[t] # "stop"
        /\ Throw("ESRCH")
        /\ UNCHANGED <<kernel, threads>>
  /\ UNCHANGED <<attached, evt_ign, freed>>

Singlestep(t) == Idle /\ StepThread(t, "step")

Run == /\ Idle
       /\ Push("run", "cont", Main)
       /\ UNCHANGED <<kernel, threads, attached, evt_ign, err, freed>>

\* kill(pid, SIGSTOP) to the process, whose threads may all be zombies, and a
\* wait for whatever comes first.  (The code does not assert attached here.)
Pause == /\ Idle
         /\ \/ \E t \in Living : pend' = [pend EXCEPT ![t] = @ \cup {"STOP"}]
            \/ Living = {} /\ pend' = pend
         /\ Push("pause", "wait", Main)
         /\ UNCHANGED <<ks, why, report, stepping, msg, ending, dying,
                        threads, attached, evt_ign, err, freed>>

\* One turn of the loop of run() over threads_, in the map's arbitrary order
ContThread(t) ==
  /\ At("cont") /\ t \in Known /\ threads[t].stopped
  /\ \/ /\ ks[t] = "stop"
        /\ Restart(t, FALSE)
        /\ UNCHANGED <<ctl, err>>
     \/ /\ ks[t] # "stop"
        /\ Throw("ESRCH")
        /\ UNCHANGED <<kernel, threads>>
  /\ UNCHANGED <<attached, evt_ign, freed>>

ContDone ==
  /\ At("cont") /\ \A t \in Known : ~threads[t].stopped
  /\ Goto("wait")
  /\ UNCHANGED <<kernel, threads, attached, evt_ign, err, freed>>

\* run() and pause() poll the known threads, singlestep blocks in waitpid for its own
WaitEvent(t) ==
  /\ At("wait") /\ t \in Known /\ Waitable(t)
  /\ Top.op \in {"step", "bp"} => t = Top.thr
  /\ Fetch(t)
  /\ threads' = [threads EXCEPT ![t].stopped = report[t]]
  /\ ctl' = [ctl EXCEPT ![Len(ctl)] =
               [op |-> Top.op, at |-> "stop", thr |-> t,
                evt |-> IF report[t] THEN why[t] ELSE "end"]]
  /\ UNCHANGED <<why, pend, stepping, msg, ending, dying, attached, evt_ign, err, freed>>

\* waitpid of a thread that is no longer there to be waited for
WaitFails(t) ==
  /\ At("wait") /\ t \in Known /\ ks[t] \in {"gone", "free"}
  /\ Top.op \in {"step", "bp"} => t = Top.thr
  /\ Throw("ECHILD")
  /\ UNCHANGED <<kernel, threads, attached, evt_ign, freed>>

\* Detaches the threads of S; one that is not stopped makes the call fail
Detach ==
  /\ Idle
  /\ \E S \in SUBSET {t \in Known : ks[t] = "stop"} :
       /\ Release(S)
       /\ \/ /\ S = Known
             /\ attached' = FALSE
             /\ UNCHANGED <<ctl, err>>
          \/ /\ \E t \in Known \ S : ks[t] # "stop"
             /\ Throw("detach")
             /\ UNCHANGED attached
  /\ UNCHANGED <<threads, evt_ign, freed>>

Kill ==
  /\ Idle
  /\ KillAll
  /\ attached' = FALSE
  /\ UNCHANGED <<threads, evt_ign, ctl, err, freed>>

-----------------------------------------------------------------------------
(* dispatch_event                                                          *)

SignalAll(S) == pend' = [t \in Threads |-> IF t \in S THEN pend[t] \cup {"STOP"}
                                           ELSE pend[t]]

\* stop_all_threads that picks the wrong threads
StopStoppedThreads ==
  /\ At("stop")
  /\ evt_ign' = FALSE
  /\ IF Top.evt = "end" THEN pend' = pend
     ELSE SignalAll({t \in Known : threads[t].stopped})
  /\ Goto("handle")
  /\ UNCHANGED <<ks, why, report, stepping, msg, ending, dying,
                 threads, attached, err, freed>>

\* dispatch_event that keeps the discard of an earlier event
StopKeepsIgnore ==
  /\ At("stop")
  /\ IF Top.evt = "end" THEN pend' = pend
     ELSE SignalAll({t \in Known : ~threads[t].stopped})
  /\ Goto("handle")
  /\ UNCHANGED <<ks, why, report, stepping, msg, ending, dying,
                 threads, attached, evt_ign, err, freed>>

\* tgkill would throw at a thread that has been reaped.  It meets none: the end of
\* one in the map ends the session, and one that was reaped when it was new is
\* entered as stopped.
StopAllThreads ==
  /\ At("stop")
  /\ evt_ign' = FALSE
  /\ IF Top.evt = "end" THEN pend' = pend
     ELSE SignalAll({t \in Known : ~threads[t].stopped})
  /\ Goto("handle")
  /\ UNCHANGED <<ks, why, report, stepping, msg, ending, dying,
                 threads, attached, err, freed>>

\* The end of a dispatch: run() goes on while attached, the others return to
\* the client or into the dispatch it is nested in.
Return(still) ==
  LET outer == SubSeq(ctl, 1, Len(ctl) - 1) IN
  ctl' = CASE Top.op = "run" -> IF still THEN [ctl EXCEPT ![Len(ctl)].at = "cont"]
                                ELSE outer
           [] Top.op \in {"step", "pause"} -> outer
           [] Top.op = "bp" -> [outer EXCEPT ![Len(outer)].at = "restore"]

\* notify_event, and sig_deliv = evt_ign_ ? 0 : sig
NotifyAndDeliver(stop) ==
  LET ign == evt_ign \/ stop \in Discards IN
  /\ evt_ign' = ign
  /\ threads' = [threads EXCEPT ![Top.thr].sig = IF ign THEN "none" ELSE SignalOf(stop)]

HandleEnd ==
  /\ At("handle") /\ Top.evt = "end"
  /\ attached' = FALSE
  /\ Return(FALSE)
  /\ UNCHANGED <<kernel, threads, evt_ign, err, freed>>

\* on_thread_created waits for the first stop of the new thread
HandleClone ==
  /\ At("handle") /\ Top.evt = "clone"
  /\ LET new == msg[Top.thr] IN
     /\ Waitable(new)
     /\ Fetch(new)
     /\ threads' = [u \in Known \cup {new} |->
                      IF u \in Known THEN threads[u]
                      ELSE [stopped |-> TRUE, sig |-> "none"]]
  /\ Return(attached)
  /\ UNCHANGED <<why, pend, stepping, msg, ending, dying, attached, evt_ign, err, freed>>

\* on_thread_exited that erases the leader as well
HandleExitErasesAll ==
  /\ At("handle") /\ Top.evt = "exit"
  /\ threads' = [u \in Known \ {Top.thr} |-> threads[u]]
  /\ Return(attached)
  /\ UNCHANGED <<kernel, attached, evt_ign, err, freed>>

\* on_thread_exited that takes the exit of any thread for the process's
HandleExitEnds ==
  /\ At("handle") /\ Top.evt = "exit"
  /\ attached' = FALSE
  /\ Return(FALSE)
  /\ UNCHANGED <<kernel, threads, evt_ign, err, freed>>

HandleExit ==
  /\ At("handle") /\ Top.evt = "exit"
  /\ threads' = [u \in Known \ ({Top.thr} \ {Main}) |-> threads[u]]
  /\ Return(attached)
  /\ UNCHANGED <<kernel, attached, evt_ign, err, freed>>

\* The stop PTRACE_GETSIGINFO tells of: the one reported, or, of a thread killed
\* since, its exit stop, which has a si_code of neither kind, like an int3.
Told == ({Top.evt} \cap SignalStops) \cup (IF why[Top.thr] = "exit" THEN {"INT3"} ELSE {})

HandlingSignal == At("handle") /\ Top.evt \in SignalStops \cup {"group stop"}

\* dispatch_bp_hit found a breakpoint and ran its handler: step over it
HandleHit ==
  /\ HandlingSignal /\ Told \cap HitStops # {}
  /\ Len(ctl) < MaxDepth
  /\ StepThread(Top.thr, "bp")

\* on_sig_trap and on_signal without a hit: TRAP_BRKPT alone returns at once,
\* and the client is not told
HandleSignal ==
  /\ HandlingSignal
  /\ \E stop \in Told : IF stop = "BRKPT" THEN UNCHANGED <<evt_ign, threads>>
                        ELSE NotifyAndDeliver(stop)
  /\ Return(attached)
  /\ UNCHANGED <<kernel, attached, err, freed>>

\* Event messages and signal information can be had of a stopped thread only, and
\* of a group stop not even then; a killed thread's message is its exit code.
\* (Where a handler above does not ask for the stop, its request came in time.)
HandleFails ==
  /\ At("handle") /\ Top.evt # "end"
  /\ \/ ks[Top.thr] # "stop" /\ Throw("ESRCH")
     \/ ks[Top.thr] = "stop" /\ Top.evt = "group stop" /\ why[Top.thr] # "exit"
          /\ Throw("EINVAL")
     \/ ks[Top.thr] = "stop" /\ Top.evt = "clone" /\ why[Top.thr] = "exit"
          /\ Throw("ECHILD")
  /\ UNCHANGED <<kernel, threads, attached, evt_ign, freed>>

\* Back from the step: restore_bps, and for TRAP_BRKPT the rest of on_sig_trap,
\* which writes to the entry of the thread.
Restore ==
  /\ At("restore")
  /\ \/ /\ Top.evt # "BRKPT"
        /\ Return(attached)
        /\ UNCHANGED <<evt_ign, threads, freed>>
     \/ /\ Top.evt = "BRKPT" /\ Top.thr \in Known
        /\ NotifyAndDeliver("BRKPT")
        /\ Return(attached)
        /\ UNCHANGED freed
     \/ /\ Top.evt = "BRKPT" /\ Top.thr \notin Known
        /\ freed' = TRUE
        /\ UNCHANGED <<ctl, evt_ign, threads>>
  /\ UNCHANGED <<kernel, attached, err>>

-----------------------------------------------------------------------------

Environment == Target /\ UNCHANGED <<threads, attached, evt_ign, ctl, err, freed>>

\* What goes on without the client's doing
Loop == \/ \E t \in Threads : ContThread(t) \/ WaitEvent(t) \/ WaitFails(t)
        \/ ContDone \/ StopAllThreads
        \/ HandleEnd \/ HandleClone \/ HandleExit \/ HandleHit \/ HandleSignal
        \/ HandleFails \/ Restore

Client == Run \/ Pause \/ (\E t \in Threads : Singlestep(t)) \/ Detach \/ Kill

Next == Environment \/ Loop \/ Client

Spec == Init /\ [][Next]_vars

\* The debugger's thread runs, and the kernel delivers signals; what the program
\* does otherwise is its own affair
Delivery == /\ \E t \in Threads : TakeSignal(t) \/ Start(t) \/ Killed(t)
            /\ UNCHANGED <<threads, attached, evt_ign, ctl, err, freed>>

FairSpec == Spec /\ WF_vars(Loop) /\ WF_vars(Delivery)

-----------------------------------------------------------------------------

\* Every variable holds a value of its type
TypeOK ==
  /\ PtraceTypeOK
  /\ Known \subseteq Threads
  /\ threads \in [Known -> Entries]
  /\ attached \in BOOLEAN
  /\ evt_ign \in BOOLEAN
  /\ ctl \in Seq(Calls)
  /\ err \in {"none", "ESRCH", "EINVAL", "ECHILD", "detach"}
  /\ freed \in BOOLEAN

\* A session that goes on undisturbed
Healthy == attached /\ ~ending /\ err = "none"

\* The stopped flag of threads_ is what the kernel thinks: a flagged thread is
\* in a stop whose status has been fetched.  run() resumes by it blindly
\* (debuggee.cc:636).  It can go wrong once the process is being killed (SIGKILL
\* ends stops behind the debugger's back) or a call has failed half way.
StoppedAccurate ==
  Healthy => \A t \in Known : threads[t].stopped => ks[t] = "stop" /\ ~report[t]

\* No request goes to a thread that is not stopped, unless the process is
\* being killed meanwhile.
NoStrayRequest == err = "ESRCH" => ending

\* The inductive invariant behind both: a status belongs to a stop, and nothing
\* but SIGKILL ends a stop behind the debugger's back;
StatusOfStop == /\ \A t \in Threads : report[t] => ks[t] = "stop"
                /\ ~ending => dying = {}

\* only the steps over breakpoints are nested in other calls, and once the
\* session is over, all that is left of these is to return;
CallsNested == /\ \A i \in DOMAIN ctl : ctl[i].op = "bp" <=> i > 1
               /\ ctl # <<>> => Top.at = "restore" \/ attached

\* the thread whose stop is handled is in the map and flagged,
HandlingStopped == ctl # <<>> /\ Top.at \in {"stop", "handle"} =>
  Top.evt = "end" \/ (Top.thr \in Known /\ threads[Top.thr].stopped)

\* and a thread that is not in the map does not run.
StrangersStill == Healthy =>
  \A t \in Threads \ Known : ks[t] \in {"none", "born", "stop"}

IInv == /\ TypeOK /\ StatusOfStop /\ CallsNested /\ HandlingStopped
        /\ StrangersStill /\ StoppedAccurate /\ NoStrayRequest

\* While an event is handled, every other thread of the target is stopped or
\* has a SIGSTOP (or SIGKILL) coming, those the debugger does not know included.
Halting == \A u \in Threads : ks[u] \in {"run", "born"} => "STOP" \in pend[u] \/ u \in dying
StopRequested == At("handle") \/ At("restore") => Top.evt = "end" \/ Halting

\* The session is over only when the process is, or the client has ended it.
EndIsEnd == ~attached /\ ~ending => ks[Main] \in {"gone", "free"}

\* The invariant behind these two.  A process that is ending has a SIGKILL for
\* whoever is not in its exit yet, and a new thread has its SIGSTOP;
Doomed == ending => \A u \in Threads :
            ks[u] \in {"born", "run"} \/ (ks[u] = "stop" /\ why[u] # "exit") => u \in dying
BornStopped == \A u \in Threads : ks[u] = "born" => "STOP" \in pend[u]

\* what is stopped for a dispatch stays so until run() or a step resumes it;
StopsComing ==
  ctl # <<>> /\ (Top.at \in {"handle", "restore"} \/ (Top.at = "stop" /\ Top.evt = "end")) =>
    Halting

\* an event is handled while its stop lasts, and the end is the leader's;
Dispatching(t, e) == /\ ctl # <<>> /\ Top.at \in {"stop", "handle"}
                     /\ Top.thr = t /\ Top.evt = e
StopLasts == ~ending => \A t \in Threads :
  /\ Dispatching(t, "end") => ks[Main] = "gone"
  /\ \A e \in Whys : Dispatching(t, e) =>
       t \in Known /\ ks[t] = "stop" /\ ~report[t] /\ why[t] = e

\* no thread but the leader exits and stays in the map, so none becomes a
\* zombie there; a thread outside has not had its first stop waited for, or
\* was erased in its last;
NoZombies == ~ending =>
  /\ Main \in Known
  /\ \A t \in Known : /\ threads[t].stopped => ks[t] \in {"stop", "free"} /\ ~report[t]
                      /\ ks[t] \in {"run", "stop", "free"} \/ (t = Main /\ ks[t] \in {"zombie", "gone"})
                      /\ t # Main /\ ks[t] = "stop" /\ why[t] = "exit" =>
                           report[t] \/ Dispatching(t, "exit")
  /\ \A t \in Threads \ Known : /\ ks[t] \in {"none", "born", "stop"}
                                /\ report[t] => why[t] = "start"

\* and each clone event that is still to be handled tells of another thread
\* that is not in the map.
TellsOfClone(t) == /\ ks[t] = "stop" /\ why[t] = "clone"
                   /\ report[t] \/ Dispatching(t, "clone")
ClonesAreNew == ~ending => \A t \in Threads : TellsOfClone(t) =>
  /\ msg[t] \notin Known /\ ks[msg[t]] # "none"
  /\ \A u \in Threads : TellsOfClone(u) /\ msg[u] = msg[t] => u = t

EndInv == /\ Doomed /\ BornStopped /\ StopsComing /\ StopLasts
          /\ NoZombies /\ ClonesAreNew /\ EndIsEnd

\* run() ends when the last thread of the target exits, and so does singlestep.
\* pause() need not: nothing wakes its poll if every thread is stopped already.
Alone == \A t \in Threads \ {Main} : ks[t] \in {"none", "gone"}
RunEnds ==
  (ctl # <<>> /\ ctl[1].op # "pause" /\ why[Main] = "exit" /\ Alone /\ err = "none")
    ~> (ctl = <<>>)
=============================================================================
