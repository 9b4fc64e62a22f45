------------------------ MODULE LocalDebuggeeProofs ------------------------
(* Theorems about LocalDebuggee, for any number of threads, any listener   *)
(* and any depth of nested calls.                                          *)
EXTENDS MCLocalDebuggee, TLAPS

-----------------------------------------------------------------------------
(* The calls in progress                                                   *)

\* Replacing the innermost call leaves the others.
LEMMA TopReplaced ==
  ASSUME ctl \in Seq(Calls), CallsNested, ctl # <<>>,
         NEW c \in Calls, ctl' = [ctl EXCEPT ![Len(ctl)] = c], c.op = Top.op
  PROVE  /\ ctl' \in Seq(Calls) /\ ctl' # <<>> /\ Top' = c
         /\ \A i \in DOMAIN ctl' : ctl'[i].op = "bp" <=> i > 1
<1>1. Len(ctl) \in Nat \ {0} /\ Len(ctl') = Len(ctl) /\ DOMAIN ctl' = DOMAIN ctl
  OBVIOUS
<1>2. \A i \in DOMAIN ctl' : ctl'[i].op = ctl[i].op
  BY <1>1 DEF Top
<1> QED BY <1>1, <1>2 DEF CallsNested, Top

\* So does moving it on.
LEMMA GotoShape ==
  ASSUME ctl \in Seq(Calls), CallsNested, ctl # <<>>,
         NEW p \in {"cont", "wait", "stop", "handle", "restore"}, Goto(p)
  PROVE  /\ ctl' \in Seq(Calls) /\ ctl' # <<>> /\ Top' = [Top EXCEPT !.at = p]
         /\ \A i \in DOMAIN ctl' : ctl'[i].op = "bp" <=> i > 1
<1> DEFINE c == [Top EXCEPT !.at = p]
<1>1. Top \in Calls
  BY DEF Top
<1>2. c \in Calls /\ c.op = Top.op
  BY <1>1 DEF Calls
<1>3. ctl' = [ctl EXCEPT ![Len(ctl)] = c]
  BY DEF Goto, Top
<1> QED BY <1>2, <1>3, TopReplaced

\* A new call is a step over a breakpoint exactly when it is nested.
LEMMA PushShape ==
  ASSUME ctl \in Seq(Calls), CallsNested,
         NEW op \in {"run", "pause", "step", "bp"}, NEW at \in {"cont", "wait"}, NEW t \in Threads,
         Push(op, at, t), op = "bp" <=> ctl # <<>>
  PROVE  /\ ctl' \in Seq(Calls) /\ ctl' # <<>> /\ Top'.at = at
         /\ \A i \in DOMAIN ctl' : ctl'[i].op = "bp" <=> i > 1
<1> DEFINE c == [op |-> op, at |-> at, thr |-> t, evt |-> "none"]
<1>1. c \in Calls
  BY DEF Calls
<1>2. ctl' = Append(ctl, c)
  BY DEF Push
<1>3. ctl' \in Seq(Calls) /\ Len(ctl') = Len(ctl) + 1 /\ ctl'[Len(ctl) + 1] = c
  BY <1>1, <1>2
<1>4. \A i \in 1..Len(ctl) : ctl'[i] = ctl[i]
  BY <1>2
<1> QED BY <1>3, <1>4 DEF CallsNested, Top

\* What is left of a sequence without its last element
LEMMA FrontOf ==
  ASSUME NEW S, NEW s \in Seq(S), s # <<>>
  PROVE  /\ SubSeq(s, 1, Len(s) - 1) \in Seq(S)
         /\ Len(SubSeq(s, 1, Len(s) - 1)) = Len(s) - 1
         /\ \A i \in 1..Len(s) - 1 : SubSeq(s, 1, Len(s) - 1)[i] = s[i]
<1>1. PICK n \in Nat : n = Len(s) - 1 /\ n <= Len(s)
  <2>1. Len(s) \in Nat /\ Len(s) # 0
    OBVIOUS
  <2>2. Len(s) - 1 \in Nat /\ Len(s) - 1 <= Len(s)
    BY <2>1
  <2> QED
    BY <2>2
<1>2. Len(SubSeq(s, 1, n)) = n
  BY <1>1
<1>3. \A i \in 1..n : SubSeq(s, 1, n)[i] = s[i]
  BY <1>1
<1>4. SubSeq(s, 1, n) \in Seq(S)
  BY <1>1
<1> QED
  BY <1>1, <1>2, <1>3, <1>4

\* A call that returns leaves its caller about to restore the breakpoints, or
\* run() in its loop while the session lasts, or nothing.
LEMMA ReturnShape ==
  ASSUME ctl \in Seq(Calls), CallsNested, ctl # <<>>, NEW still \in BOOLEAN, Return(still)
  PROVE  /\ ctl' \in Seq(Calls)
         /\ \A i \in DOMAIN ctl' : ctl'[i].op = "bp" <=> i > 1
         /\ ctl' # <<>> => Top'.at = "restore" \/ (Top'.at = "cont" /\ still)
<1> DEFINE n == Len(ctl)
           outer == SubSeq(ctl, 1, n - 1)
<1>1. n \in Nat \ {0} /\ Top \in Calls /\ (Top.op = "bp" <=> n > 1)
  BY DEF CallsNested, Top
<1>2. /\ outer \in Seq(Calls) /\ Len(outer) = n - 1
      /\ \A i \in 1..n-1 : outer[i] = ctl[i]
  BY FrontOf
<1>3. \A i \in DOMAIN outer : outer[i].op = "bp" <=> i > 1
  BY <1>1, <1>2 DEF CallsNested
<1>4. CASE Top.op = "bp"
  <2> DEFINE c == [outer[n-1] EXCEPT !.at = "restore"]
  <2>1. ctl' = [outer EXCEPT ![n-1] = c]
    BY <1>1, <1>2, <1>4 DEF Return
  <2>2. c \in Calls /\ c.op = outer[n-1].op /\ c.at = "restore"
    BY <1>1, <1>2, <1>4 DEF Calls
  <2>3. ctl' \in Seq(Calls) /\ Len(ctl') = n - 1 /\ ctl'[n-1] = c
    BY <1>1, <1>2, <1>4, <2>1, <2>2
  <2>4. \A i \in DOMAIN ctl' : ctl'[i].op = outer[i].op
    BY <1>2, <2>1, <2>2
  <2> QED BY <1>2, <1>3, <2>2, <2>3, <2>4 DEF Top
<1>5. CASE Top.op = "run" /\ still
  <2>1. Goto("cont")
    BY <1>1, <1>5 DEF Return, Goto
  <2> QED BY <1>1, <1>5, <2>1, GotoShape DEF Calls
<1>6. CASE Top.op \in {"step", "pause"} \/ (Top.op = "run" /\ ~still)
  <2>1. ctl' = outer
    BY <1>6 DEF Return
  <2>2. Top.op # "bp"
    BY <1>6
  <2>3. n = 1
    <3>1. ~(n > 1)
      BY <1>1, <2>2
    <3> HIDE DEF n
    <3> QED BY <1>1, <3>1
  <2>4. ctl' = <<>>
    BY <1>2, <2>1, <2>3
  <2> QED BY <2>4
<1> QED BY <1>1, <1>4, <1>5, <1>6 DEF Calls

-----------------------------------------------------------------------------
(* The kernel                                                              *)

\* A resumed thread runs or dies, and the others stay as they are.
LEMMA ResumeEffect ==
  ASSUME PtraceTypeOK, StatusOfStop, NEW t \in Threads, NEW sig, NEW step \in BOOLEAN,
         Resume(t, sig, step)
  PROVE  /\ PtraceTypeOK' /\ StatusOfStop'
         /\ ending => ending'
         /\ \A u \in Threads \ {t} : ks'[u] = ks[u] /\ report'[u] = report[u]
<1> USE DEF PtraceTypeOK, StatusOfStop
<1>1. /\ report' \in [Threads -> BOOLEAN] /\ stepping' \in [Threads -> BOOLEAN]
      /\ why' = why /\ msg' = msg
  BY DEF Resume
<1>2. CASE why[t] = "exit" /\ ks' = [ks EXCEPT ![t] = "zombie"] /\ dying' = dying \ {t}
           /\ UNCHANGED <<pend, ending>>
  BY <1>1, <1>2, ZenonT(60) DEF Resume
<1>3. CASE ks' = [ks EXCEPT ![t] = "run"] /\ UNCHANGED <<pend, ending, dying>>
  BY <1>1, <1>3 DEF Resume
<1>4. CASE /\ ks' = [ks EXCEPT ![t] = "run"]
           /\ pend' = [u \in Threads |-> IF u \in Living THEN pend[u] \cup {"group stop"}
                                         ELSE pend[u]]
           /\ UNCHANGED <<ending, dying>>
  BY <1>1, <1>4 DEF Resume
<1>5. CASE /\ ks' = [ks EXCEPT ![t] = "run"] /\ ending' = TRUE /\ dying' = Living
           /\ UNCHANGED pend
  BY <1>1, <1>5 DEF Resume, Living
<1> QED BY <1>2, <1>3, <1>4, <1>5 DEF Resume

\* A thread that stops has a status to report.
LEMMA StopForEffect ==
  ASSUME PtraceTypeOK, StatusOfStop, NEW t \in Threads, NEW w \in Whys, StopFor(t, w)
  PROVE  /\ ks' \in [Threads -> {"none", "born", "run", "stop", "zombie", "gone", "free"}]
         /\ why' \in [Threads -> Whys]
         /\ report' \in [Threads -> BOOLEAN]
         /\ \A u \in Threads : report'[u] => ks'[u] = "stop"
         /\ ks'[t] = "stop"
         /\ \A u \in Threads \ {t} : ks'[u] = ks[u] /\ report'[u] = report[u]
BY DEF StopFor, PtraceTypeOK, StatusOfStop

\* While the target lives, no step of its own takes a thread out of a stop.
LEMMA TargetEffect ==
  ASSUME PtraceTypeOK, StatusOfStop, Target
  PROVE  /\ PtraceTypeOK' /\ StatusOfStop'
         /\ ending => ending'
         /\ ~ending' => \A u \in Threads :
              /\ ks[u] = "stop" => ks'[u] = "stop" /\ report'[u] = report[u]
              /\ ks[u] \in {"none", "born"} => ks'[u] \in {"none", "born", "stop"}
<1> USE DEF PtraceTypeOK, StatusOfStop, Running, Living
<1> DEFINE Goal == /\ PtraceTypeOK' /\ StatusOfStop'
                   /\ ending => ending'
                   /\ ~ending' => \A u \in Threads :
                        /\ ks[u] = "stop" => ks'[u] = "stop" /\ report'[u] = report[u]
                        /\ ks[u] \in {"none", "born"} => ks'[u] \in {"none", "born", "stop"}
<1>1. ASSUME NEW t \in Threads, NEW s \in Signals, Raise(t, s) PROVE Goal
  BY <1>1, PtraceAssumption DEF Raise
<1>2. ASSUME NEW t \in Threads, TakeSignal(t) PROVE Goal
  <2>1. PICK s \in pend[t] : StopFor(t, s) /\ pend' = [pend EXCEPT ![t] = @ \ {s}]
    BY <1>2 DEF TakeSignal
  <2>2. s \in {"STOP", "SEGV", "group stop"}
    OBVIOUS
  <2>3. s \in Whys
    BY <2>2 DEF Whys, SignalStops
  <2>4. pend' \in [Threads -> SUBSET {"STOP", "SEGV", "group stop"}]
    BY <2>1
  <2> QED BY <1>2, <2>1, <2>3, <2>4, StopForEffect DEF TakeSignal
<1>3. ASSUME NEW t \in Threads, Start(t) PROVE Goal
  <2>1. "start" \in Whys
    BY DEF Whys
  <2>2. pend' \in [Threads -> SUBSET {"STOP", "SEGV", "group stop"}]
    BY <1>3 DEF Start
  <2> QED BY <1>3, <2>1, <2>2, StopForEffect DEF Start
<1>4. ASSUME NEW t \in Threads, Execute(t) PROVE Goal
  <2>1. PICK w \in Whys : StopFor(t, w)
    BY <1>4 DEF Execute, Whys, SignalStops, TrapStops
  <2> QED BY <1>4, <2>1, StopForEffect DEF Execute
<1>5. ASSUME NEW t \in Threads, Clone(t) PROVE Goal
  <2>1. PICK u \in Threads :
             /\ ks[u] = "none" /\ ks' = [ks EXCEPT ![t] = "stop", ![u] = "born"]
             /\ pend' = [pend EXCEPT ![u] = {"STOP"}] /\ msg' = [msg EXCEPT ![t] = u]
    BY <1>5 DEF Clone
  <2>2. "clone" \in Whys
    BY DEF Whys
  <2>3. /\ why' \in [Threads -> Whys] /\ report' = [report EXCEPT ![t] = TRUE]
        /\ UNCHANGED <<stepping, ending, dying>> /\ ks[t] = "run"
    BY <1>5, <2>2 DEF Clone
  <2>4. PtraceTypeOK'
    <3>1. ks' \in [Threads -> {"none", "born", "run", "stop", "zombie", "gone", "free"}]
      BY <2>1
    <3>2. report' \in [Threads -> BOOLEAN]
      BY <2>3
    <3>3. msg' \in [Threads -> Threads]
      BY <2>1
    <3>4. pend' \in [Threads -> SUBSET {"STOP", "SEGV", "group stop"}]
      BY <2>1
    <3> QED BY <2>3, <3>1, <3>2, <3>3, <3>4
  <2>5. u # t /\ ~report[u]
    BY <2>1, <2>3
  <2>6. ks'[t] = "stop" /\ ks'[u] = "born" /\ \A v \in Threads \ {t, u} : ks'[v] = ks[v]
    BY <2>1, <2>5
  <2>7. \A v \in Threads \ {t} : report'[v] = report[v]
    BY <2>3
  <2>8. StatusOfStop'
    BY <2>3, <2>5, <2>6, <2>7
  <2>9. \A v \in Threads :
          /\ ks[v] = "stop" => ks'[v] = "stop" /\ report'[v] = report[v]
          /\ ks[v] \in {"none", "born"} => ks'[v] \in {"none", "born", "stop"}
    BY <2>1, <2>3, <2>5, <2>6, <2>7
  <2> QED BY <2>3, <2>4, <2>8, <2>9
<1>6. ASSUME NEW t \in Threads, ExitThread(t) PROVE Goal
  <2>1. "exit" \in Whys
    BY DEF Whys
  <2> QED BY <1>6, <2>1, StopForEffect DEF ExitThread
<1>7. ASSUME NEW t \in Threads, ExitGroup(t) PROVE Goal
  <2>1. "exit" \in Whys
    BY DEF Whys
  <2> QED BY <1>7, <2>1, StopForEffect DEF ExitGroup
<1>8. ASSUME NEW t \in Threads, Killed(t) PROVE Goal
  <2>1. ending /\ UNCHANGED <<pend, stepping, msg, ending>>
    BY <1>8 DEF Killed
  <2>2. CASE /\ ks' = [ks EXCEPT ![t] = "run"] \/ ks' = [ks EXCEPT ![t] = "zombie"]
             /\ report' = [report EXCEPT ![t] = FALSE] /\ why' = why
             /\ dying' = dying \/ dying' = dying \ {t}
    <3>1. /\ ks' \in [Threads -> {"none", "born", "run", "stop", "zombie", "gone", "free"}]
          /\ \A u \in Threads \ {t} : ks'[u] = ks[u]
      <4>1. PICK k \in {"run", "zombie"} : ks' = [ks EXCEPT ![t] = k]
        BY <2>2
      <4> QED BY <4>1
    <3>2. /\ report' \in [Threads -> BOOLEAN] /\ ~report'[t]
          /\ \A u \in Threads \ {t} : report'[u] = report[u]
      BY <2>2
    <3>3. why' \in [Threads -> Whys] /\ dying' \subseteq Threads
      BY <2>2
    <3> QED BY <2>1, <3>1, <3>2, <3>3
  <2>3. CASE StopFor(t, "exit") /\ dying' = dying \ {t}
    <3>1. "exit" \in Whys
      BY DEF Whys
    <3> QED BY <2>1, <2>3, <3>1, StopForEffect
  <2> QED BY <1>8, <2>2, <2>3 DEF Killed
<1> HIDE DEF Goal
<1>9. Goal
  BY <1>1, <1>2, <1>3, <1>4, <1>5, <1>6, <1>7, <1>8 DEF Target
<1> QED BY <1>9 DEF Goal

-----------------------------------------------------------------------------
(* The inductive invariant                                                 *)

\* A call that fails leaves no call in progress, and fails with ESRCH only if
\* the process is being killed.
LEMMA Thrown ==
  ASSUME IInv, NEW e \in {"ESRCH", "EINVAL", "ECHILD", "detach"}, Throw(e),
         e = "ESRCH" /\ err = "none" => ending,
         PtraceTypeOK', StatusOfStop', ending => ending',
         UNCHANGED <<threads, attached, evt_ign, freed>>
  PROVE  IInv'
<1>1. ctl' = <<>> /\ err' \in {"ESRCH", "EINVAL", "ECHILD", "detach"}
  BY DEF Throw, IInv, TypeOK
<1>2. TypeOK'
  BY <1>1 DEF IInv, TypeOK, Known
<1>3. CallsNested' /\ HandlingStopped'
  BY <1>1 DEF CallsNested, HandlingStopped
<1>4. StrangersStill' /\ StoppedAccurate'
  BY <1>1 DEF StrangersStill, StoppedAccurate, Healthy
<1>5. NoStrayRequest'
  BY DEF Throw, NoStrayRequest, IInv
<1> QED BY <1>2, <1>3, <1>4, <1>5 DEF IInv

\* A thread that is flagged is in a stop, or there is a reason why not.
LEMMA Flagged ==
  ASSUME IInv, attached, err = "none", NEW t \in Known, threads[t].stopped, ks[t] # "stop"
  PROVE  ending
BY DEF IInv, StoppedAccurate, Healthy

\* Resuming a thread keeps what is known of the others.
LEMMA RestartKeeps ==
  ASSUME IInv, NEW t \in Known, NEW step \in BOOLEAN, Restart(t, step), UNCHANGED <<attached, err>>
  PROVE  /\ PtraceTypeOK' /\ StatusOfStop' /\ StrangersStill' /\ StoppedAccurate'
         /\ NoStrayRequest'
         /\ Known' = Known /\ threads' \in [Known -> Entries]
<1>1. t \in Threads
  BY DEF IInv, TypeOK
<1>2. /\ PtraceTypeOK' /\ StatusOfStop'
      /\ ending => ending'
      /\ \A u \in Threads \ {t} : ks'[u] = ks[u] /\ report'[u] = report[u]
  BY <1>1, ResumeEffect DEF Restart, IInv, TypeOK
<1>3. /\ Known' = Known /\ threads' \in [Known -> Entries] /\ ~threads'[t].stopped
      /\ \A u \in Known \ {t} : threads'[u] = threads[u]
  <2>1. [stopped |-> FALSE, sig |-> "none"] \in Entries
    BY DEF Entries
  <2> QED BY <2>1 DEF Restart, IInv, TypeOK, Known
<1>4. Healthy' => Healthy
  BY <1>2 DEF Healthy
<1>5. StrangersStill'
  BY <1>2, <1>3, <1>4 DEF StrangersStill, IInv
<1>6. StoppedAccurate'
  BY <1>1, <1>2, <1>3, <1>4 DEF StoppedAccurate, IInv, TypeOK
<1> QED BY <1>2, <1>3, <1>5, <1>6 DEF NoStrayRequest, IInv

\* singlestep, by the client or over a breakpoint
LEMMA StepThreadInv ==
  ASSUME IInv, NEW t \in Threads, NEW op \in {"step", "bp"}, op = "bp" <=> ctl # <<>>,
         attached, StepThread(t, op)
  PROVE  IInv'
<1>1. CASE Restart(t, TRUE) /\ Push(op, "wait", t) /\ UNCHANGED err
  <2>1. t \in Known /\ UNCHANGED <<attached, evt_ign, freed>>
    BY DEF StepThread
  <2>2. /\ ctl' \in Seq(Calls) /\ ctl' # <<>> /\ Top'.at = "wait"
        /\ \A i \in DOMAIN ctl' : ctl'[i].op = "bp" <=> i > 1
    BY <1>1, PushShape DEF IInv, TypeOK
  <2>3. CallsNested' /\ HandlingStopped'
    BY <2>1, <2>2 DEF CallsNested, HandlingStopped
  <2>4. /\ PtraceTypeOK' /\ StatusOfStop' /\ StrangersStill' /\ StoppedAccurate'
        /\ NoStrayRequest' /\ Known' = Known /\ threads' \in [Known -> Entries]
    BY <1>1, <2>1, RestartKeeps
  <2>5. TypeOK'
    BY <1>1, <2>1, <2>2, <2>4 DEF IInv, TypeOK
  <2> QED BY <2>3, <2>4, <2>5 DEF IInv
<1>2. CASE ks[t] # "stop" /\ Throw("ESRCH") /\ UNCHANGED <<kernel, threads>>
  <2>1. PtraceTypeOK' /\ StatusOfStop' /\ (ending => ending')
    BY <1>2 DEF kernel, PtraceTypeOK, StatusOfStop, IInv, TypeOK
  <2>2. err = "none" => ending
    BY <1>2, Flagged DEF StepThread
  <2> QED BY <1>2, <2>1, <2>2, Thrown DEF StepThread
<1> QED BY <1>1, <1>2 DEF StepThread

\* The session is as it was, but for signals noted and calls that have returned.
LEMMA Settled ==
  ASSUME IInv, UNCHANGED <<kernel, attached, err>>, NEW still \in BOOLEAN, still => attached,
         ctl # <<>>, Return(still), Known' = Known, threads' \in [Known -> Entries],
         \A t \in Known : threads'[t].stopped = threads[t].stopped,
         evt_ign' \in BOOLEAN, freed' \in BOOLEAN
  PROVE  IInv'
<1>1. /\ ctl' \in Seq(Calls)
      /\ \A i \in DOMAIN ctl' : ctl'[i].op = "bp" <=> i > 1
      /\ ctl' # <<>> => Top'.at = "restore" \/ (Top'.at = "cont" /\ still)
  BY ReturnShape DEF IInv, TypeOK
<1>2. CallsNested' /\ HandlingStopped'
  BY <1>1 DEF CallsNested, HandlingStopped
<1>3. TypeOK'
  BY <1>1 DEF TypeOK, IInv, kernel, PtraceTypeOK
<1>4. StatusOfStop' /\ NoStrayRequest'
  BY DEF IInv, StatusOfStop, NoStrayRequest, kernel
<1>5. (Healthy' <=> Healthy) /\ ks' = ks /\ report' = report
  BY DEF Healthy, kernel
<1>6. StrangersStill' /\ StoppedAccurate'
  BY <1>5 DEF IInv, StrangersStill, StoppedAccurate
<1> QED BY <1>2, <1>3, <1>4, <1>6 DEF IInv

\* The signal to deliver is noted in the entry of a thread, and nowhere else.
LEMMA Delivered ==
  ASSUME TypeOK, Top.thr \in Known, NEW stop \in SignalStops, NotifyAndDeliver(stop)
  PROVE  /\ Known' = Known /\ threads' \in [Known -> Entries] /\ evt_ign' \in BOOLEAN
         /\ \A t \in Known : threads'[t].stopped = threads[t].stopped
<1>1. SignalOf(stop) \in {"TRAP", "STOP", "SEGV"}
  BY DEF SignalOf, SignalStops, TrapStops
<1>2. PICK s \in {"none", "TRAP", "STOP", "SEGV"} : threads' = [threads EXCEPT ![Top.thr].sig = s]
  BY <1>1 DEF NotifyAndDeliver
<1>3. threads[Top.thr] \in Entries /\ [threads[Top.thr] EXCEPT !.sig = s] \in Entries
  BY DEF TypeOK, Entries
<1>4. Known' = Known /\ threads' \in [Known -> Entries]
  BY <1>2, <1>3 DEF TypeOK, Known
<1>5. \A t \in Known : threads'[t].stopped = threads[t].stopped
  BY <1>2, <1>3 DEF TypeOK, Entries
<1>6. evt_ign' \in BOOLEAN
  BY DEF NotifyAndDeliver, TypeOK
<1> QED BY <1>4, <1>5, <1>6

\* A thread whose status waitpid returns is in a stop, or was a zombie.
LEMMA FetchEffect ==
  ASSUME PtraceTypeOK, StatusOfStop, NEW t \in Threads, Fetch(t),
         UNCHANGED <<why, pend, stepping, msg, ending, dying>>
  PROVE  /\ PtraceTypeOK' /\ StatusOfStop' /\ ~report'[t]
         /\ report[t] => ks'[t] = "stop"
         /\ \A u \in Threads \ {t} : ks'[u] = ks[u] /\ report'[u] = report[u]
<1> USE DEF PtraceTypeOK, StatusOfStop, Fetch
<1>1. CASE report[t]
  <2>1. report' = [report EXCEPT ![t] = FALSE] /\ ks' = ks
    BY <1>1
  <2> QED BY <1>1, <2>1
<1>2. CASE ~report[t]
  <2>1. ks' = [ks EXCEPT ![t] = "gone"] /\ report' = report
    BY <1>2
  <2> QED BY <1>2, <2>1
<1> QED BY <1>1, <1>2

\* The debuggee that exec returns satisfies it.
LEMMA InitInv == Init => IInv
<1> SUFFICES ASSUME Init PROVE IInv
  OBVIOUS
<1> USE PtraceAssumption DEF Init
<1>2. /\ Known \subseteq Threads /\ threads \in [Known -> Entries]
      /\ \A t \in Known : ks[t] = "stop" /\ ~report[t]
      /\ \A t \in Threads \ Known : ks[t] = "none"
  <2>1. PICK S \in SUBSET Threads : threads \in [S -> {[stopped |-> TRUE, sig |-> "none"]}]
    OBVIOUS
  <2>2. Known = S
    BY <2>1 DEF Known
  <2>3. [stopped |-> TRUE, sig |-> "none"] \in Entries
    BY DEF Entries
  <2> QED BY <2>1, <2>2, <2>3
<1>1. PtraceTypeOK
  <2>1. ks \in [Threads -> {"none", "born", "run", "stop", "zombie", "gone", "free"}]
    OBVIOUS
  <2>2. pend \in [Threads -> SUBSET {"STOP", "SEGV", "group stop"}]
    OBVIOUS
  <2> QED BY <2>1, <2>2 DEF PtraceTypeOK, Whys
<1>3. ctl \in Seq(Calls) /\ ctl = <<>>
  OBVIOUS
<1>4. attached \in BOOLEAN /\ evt_ign \in BOOLEAN /\ freed \in BOOLEAN /\ err = "none"
  OBVIOUS
<1>5. TypeOK
  <2> HIDE DEF Init
  <2> QED BY <1>1, <1>2, <1>3, <1>4 DEF TypeOK
<1>6. StatusOfStop /\ CallsNested /\ HandlingStopped /\ NoStrayRequest
  BY <1>3 DEF StatusOfStop, CallsNested, HandlingStopped, NoStrayRequest
<1>7. StrangersStill /\ StoppedAccurate
  BY <1>2 DEF StrangersStill, StoppedAccurate
<1> QED BY <1>5, <1>6, <1>7 DEF IInv

\* The target's own steps leave a healthy session's stops alone.
LEMMA EnvironmentInv == IInv /\ Environment => IInv'
<1> SUFFICES ASSUME IInv, Environment PROVE IInv'
  OBVIOUS
<1>1. UNCHANGED <<threads, attached, evt_ign, ctl, err, freed>>
  BY DEF Environment
<1>2. /\ PtraceTypeOK' /\ StatusOfStop'
      /\ ending => ending'
      /\ ~ending' => \A u \in Threads :
           /\ ks[u] = "stop" => ks'[u] = "stop" /\ report'[u] = report[u]
           /\ ks[u] \in {"none", "born"} => ks'[u] \in {"none", "born", "stop"}
  BY TargetEffect DEF Environment, IInv, TypeOK
<1>3. TypeOK'
  BY <1>1, <1>2 DEF IInv, TypeOK, Known
<1>4. CallsNested' /\ HandlingStopped'
  BY <1>1 DEF IInv, CallsNested, HandlingStopped, Top, Known
<1>5. Healthy' => Healthy /\ ~ending'
  BY <1>1, <1>2 DEF Healthy
<1>6. StrangersStill'
  BY <1>1, <1>2, <1>5 DEF IInv, StrangersStill, Known
<1>7. StoppedAccurate'
  BY <1>1, <1>2, <1>5 DEF IInv, TypeOK, StoppedAccurate, Known
<1>8. NoStrayRequest'
  BY <1>1, <1>2 DEF IInv, NoStrayRequest
<1> QED BY <1>2, <1>3, <1>4, <1>6, <1>7, <1>8 DEF IInv

\* A step that only moves the calls in progress on, to the loop of run() or to
\* the wait, and may make signals pending.
LEMMA Moved ==
  ASSUME IInv, ctl' \in Seq(Calls), CallsNested', HandlingStopped',
         pend' \in [Threads -> SUBSET {"STOP", "SEGV", "group stop"}], evt_ign' \in BOOLEAN,
         UNCHANGED <<ks, why, report, stepping, msg, ending, dying, threads, attached, err, freed>>
  PROVE  IInv'
<1>1. TypeOK'
  BY DEF IInv, TypeOK, PtraceTypeOK, Known
<1>2. StatusOfStop' /\ NoStrayRequest'
  BY DEF IInv, StatusOfStop, NoStrayRequest
<1>3. StrangersStill' /\ StoppedAccurate'
  BY DEF IInv, StrangersStill, StoppedAccurate, Healthy, Known
<1> QED BY <1>1, <1>2, <1>3 DEF IInv

\* run() has resumed nothing yet.
LEMMA RunInv == IInv /\ Run => IInv'
<1> SUFFICES ASSUME IInv, Run PROVE IInv'
  OBVIOUS
<1> USE PtraceAssumption
<1>1. /\ ctl' \in Seq(Calls) /\ ctl' # <<>> /\ Top'.at = "cont"
      /\ \A i \in DOMAIN ctl' : ctl'[i].op = "bp" <=> i > 1
  BY PushShape DEF Run, Idle, IInv, TypeOK
<1>2. CallsNested' /\ HandlingStopped'
  BY <1>1 DEF Run, Idle, CallsNested, HandlingStopped
<1>3. pend' \in [Threads -> SUBSET {"STOP", "SEGV", "group stop"}] /\ evt_ign' \in BOOLEAN
  BY DEF Run, kernel, IInv, TypeOK, PtraceTypeOK
<1> QED BY <1>1, <1>2, <1>3, Moved DEF Run, kernel

\* pause() has resumed nothing; a SIGSTOP is on its way.
LEMMA PauseInv == IInv /\ Pause => IInv'
<1> SUFFICES ASSUME IInv, Pause PROVE IInv'
  OBVIOUS
<1> USE PtraceAssumption
<1>1. /\ ctl' \in Seq(Calls) /\ ctl' # <<>> /\ Top'.at = "wait"
      /\ \A i \in DOMAIN ctl' : ctl'[i].op = "bp" <=> i > 1
  BY PushShape DEF Pause, Idle, IInv, TypeOK
<1>2. CallsNested' /\ HandlingStopped'
  BY <1>1 DEF Pause, Idle, CallsNested, HandlingStopped
<1>3. pend' \in [Threads -> SUBSET {"STOP", "SEGV", "group stop"}] /\ evt_ign' \in BOOLEAN
  <2>1. pend \in [Threads -> SUBSET {"STOP", "SEGV", "group stop"}] /\ evt_ign \in BOOLEAN
    BY DEF IInv, TypeOK, PtraceTypeOK
  <2>2. CASE \E t \in Living : pend' = [pend EXCEPT ![t] = @ \cup {"STOP"}]
    BY <2>1, <2>2 DEF Pause, Living
  <2>3. CASE pend' = pend
    BY <2>1, <2>3 DEF Pause
  <2> QED BY <2>2, <2>3 DEF Pause
<1> QED BY <1>1, <1>2, <1>3, Moved DEF Pause

\* All resumed: run() waits.
LEMMA ContDoneInv == IInv /\ ContDone => IInv'
<1> SUFFICES ASSUME IInv, ContDone PROVE IInv'
  OBVIOUS
<1>1. /\ ctl' \in Seq(Calls) /\ ctl' # <<>> /\ Top' = [Top EXCEPT !.at = "wait"]
      /\ \A i \in DOMAIN ctl' : ctl'[i].op = "bp" <=> i > 1
  BY GotoShape DEF ContDone, At, IInv, TypeOK
<1>2. Top'.at = "wait" /\ attached'
  <2>1. Top \in Calls
    BY DEF ContDone, At, IInv, TypeOK, Top
  <2> QED BY <1>1, <2>1 DEF ContDone, At, IInv, CallsNested, Calls
<1>3. CallsNested' /\ HandlingStopped'
  BY <1>1, <1>2 DEF CallsNested, HandlingStopped
<1>4. pend' \in [Threads -> SUBSET {"STOP", "SEGV", "group stop"}] /\ evt_ign' \in BOOLEAN
  BY DEF ContDone, kernel, IInv, TypeOK, PtraceTypeOK
<1> QED BY <1>1, <1>3, <1>4, Moved DEF ContDone, kernel

\* The SIGSTOPs are pending; nobody has stopped for them yet.
LEMMA StopAllThreadsInv == IInv /\ StopAllThreads => IInv'
<1> SUFFICES ASSUME IInv, StopAllThreads PROVE IInv'
  OBVIOUS
<1>1. /\ ctl' \in Seq(Calls) /\ ctl' # <<>> /\ Top' = [Top EXCEPT !.at = "handle"]
      /\ \A i \in DOMAIN ctl' : ctl'[i].op = "bp" <=> i > 1
  BY GotoShape DEF StopAllThreads, At, IInv, TypeOK
<1>2. Top'.at = "handle" /\ Top'.thr = Top.thr /\ Top'.evt = Top.evt /\ Top.at = "stop"
  <2>1. Top \in Calls
    BY DEF StopAllThreads, At, IInv, TypeOK, Top
  <2> QED BY <1>1, <2>1 DEF StopAllThreads, At, Calls
<1>3. CallsNested'
  BY <1>1, <1>2 DEF StopAllThreads, At, IInv, CallsNested
<1>4. HandlingStopped'
  BY <1>1, <1>2 DEF StopAllThreads, At, IInv, HandlingStopped, Known
<1>5. pend' \in [Threads -> SUBSET {"STOP", "SEGV", "group stop"}] /\ evt_ign' \in BOOLEAN
  <2>1. CASE pend' = pend
    BY <2>1 DEF StopAllThreads, IInv, TypeOK, PtraceTypeOK
  <2>2. CASE SignalAll({t \in Known : ~threads[t].stopped})
    BY <2>2 DEF StopAllThreads, SignalAll, IInv, TypeOK, PtraceTypeOK
  <2> QED BY <2>1, <2>2 DEF StopAllThreads
<1> QED BY <1>1, <1>3, <1>4, <1>5, Moved DEF StopAllThreads

\* A flagged thread is resumed, and its flag reset; or the process is being killed.
LEMMA ContThreadInv == ASSUME IInv, NEW t \in Threads, ContThread(t) PROVE IInv'
<1>1. At("cont") /\ t \in Known /\ attached /\ UNCHANGED <<attached, evt_ign, freed>>
  BY DEF ContThread, At, IInv, CallsNested
<1>2. CASE Restart(t, FALSE) /\ UNCHANGED <<ctl, err>>
  <2>1. /\ PtraceTypeOK' /\ StatusOfStop' /\ StrangersStill' /\ StoppedAccurate'
        /\ NoStrayRequest' /\ Known' = Known /\ threads' \in [Known -> Entries]
    BY <1>1, <1>2, RestartKeeps
  <2>2. TypeOK'
    BY <1>1, <1>2, <2>1 DEF IInv, TypeOK
  <2>3. CallsNested' /\ HandlingStopped'
    BY <1>1, <1>2 DEF IInv, CallsNested, HandlingStopped, Top, At
  <2> QED BY <2>1, <2>2, <2>3 DEF IInv
<1>3. CASE ks[t] # "stop" /\ Throw("ESRCH") /\ UNCHANGED <<kernel, threads>>
  <2>1. PtraceTypeOK' /\ StatusOfStop' /\ (ending => ending')
    BY <1>3 DEF kernel, PtraceTypeOK, StatusOfStop, IInv, TypeOK
  <2>2. err = "none" => ending
    BY <1>1, <1>3, Flagged DEF ContThread
  <2> QED BY <1>1, <1>3, <2>1, <2>2, Thrown
<1> QED BY <1>2, <1>3 DEF ContThread

\* A status whose stop is noted, or the end of a thread that was not flagged
LEMMA WaitEventInv == ASSUME IInv, NEW t \in Threads, WaitEvent(t) PROVE IInv'
<1> DEFINE c == [op |-> Top.op, at |-> "stop", thr |-> t,
                 evt |-> IF report[t] THEN why[t] ELSE "end"]
<1>1. /\ At("wait") /\ t \in Known /\ Fetch(t) /\ attached
      /\ ks[t] # "stop" => ~report[t]
      /\ report[t] \/ ks[t] = "zombie"
      /\ UNCHANGED <<attached, evt_ign, err, freed, ending>>
  BY DEF WaitEvent, At, IInv, CallsNested, StatusOfStop, Waitable
<1>2. Top \in Calls /\ c \in Calls /\ report[t] \in BOOLEAN
  <2>1. Top \in Calls
    BY <1>1 DEF At, IInv, TypeOK, Top
  <2>2. why[t] \in Whys /\ report[t] \in BOOLEAN
    BY DEF IInv, TypeOK, PtraceTypeOK
  <2> QED BY <2>1, <2>2 DEF Calls
<1>3. /\ ctl' \in Seq(Calls) /\ ctl' # <<>> /\ Top' = c
      /\ \A i \in DOMAIN ctl' : ctl'[i].op = "bp" <=> i > 1
  <2>1. ctl' = [ctl EXCEPT ![Len(ctl)] = c] /\ c.op = Top.op /\ ctl # <<>>
    BY DEF WaitEvent, At
  <2> HIDE DEF c
  <2> QED BY <1>2, <2>1, TopReplaced DEF IInv, TypeOK
<1>4. /\ PtraceTypeOK' /\ StatusOfStop' /\ ~report'[t]
      /\ report[t] => ks'[t] = "stop"
      /\ \A u \in Threads \ {t} : ks'[u] = ks[u] /\ report'[u] = report[u]
  BY <1>1, FetchEffect DEF WaitEvent, IInv, TypeOK
<1>5. /\ Known' = Known /\ threads' \in [Known -> Entries]
      /\ threads'[t].stopped = report[t]
      /\ \A u \in Known \ {t} : threads'[u] = threads[u]
  <2>1. threads' = [threads EXCEPT ![t] = [threads[t] EXCEPT !.stopped = report[t]]]
    BY DEF WaitEvent
  <2>2. /\ [threads[t] EXCEPT !.stopped = report[t]] \in Entries
        /\ [threads[t] EXCEPT !.stopped = report[t]].stopped = report[t]
    BY <1>1, <1>2 DEF IInv, TypeOK, Entries
  <2> QED BY <1>1, <2>1, <2>2 DEF IInv, TypeOK, Known
<1>6. TypeOK'
  BY <1>1, <1>3, <1>4, <1>5 DEF IInv, TypeOK
<1>7. CallsNested' /\ HandlingStopped'
  BY <1>1, <1>3, <1>5 DEF CallsNested, HandlingStopped
<1>8. Healthy' <=> Healthy
  BY <1>1 DEF Healthy
<1>9. StrangersStill'
  BY <1>1, <1>4, <1>5, <1>8 DEF IInv, StrangersStill
<1>10. StoppedAccurate'
  BY <1>4, <1>5, <1>8 DEF IInv, TypeOK, StoppedAccurate
<1>11. NoStrayRequest'
  BY <1>1 DEF IInv, NoStrayRequest
<1> QED BY <1>4, <1>6, <1>7, <1>9, <1>10, <1>11 DEF IInv

\* A wait that fails leaves the kernel alone.
LEMMA WaitFailsInv == ASSUME IInv, NEW t \in Threads, WaitFails(t) PROVE IInv'
<1>1. PtraceTypeOK' /\ StatusOfStop' /\ (ending => ending')
  BY DEF WaitFails, kernel, PtraceTypeOK, StatusOfStop, IInv, TypeOK
<1> QED BY <1>1, Thrown DEF WaitFails

\* A detached session is healthy no more.
LEMMA DetachInv == IInv /\ Detach => IInv'
<1> SUFFICES ASSUME IInv, Detach PROVE IInv'
  OBVIOUS
<1>1. PICK S \in SUBSET {t \in Known : ks[t] = "stop"} :
        /\ Release(S)
        /\ \/ attached' = FALSE /\ UNCHANGED <<ctl, err>>
           \/ Throw("detach") /\ UNCHANGED attached
  BY DEF Detach
<1>2. UNCHANGED <<threads, evt_ign, freed>> /\ ctl = <<>>
  BY DEF Detach, Idle
<1>3. PtraceTypeOK' /\ StatusOfStop' /\ UNCHANGED ending
  <2>1. /\ ks' \in [Threads -> {"none", "born", "run", "stop", "zombie", "gone", "free"}]
        /\ report' \in [Threads -> BOOLEAN]
    BY <1>1 DEF Release, IInv, TypeOK, PtraceTypeOK
  <2>2. \A t \in Threads : report'[t] => ks'[t] = "stop"
    BY <1>1 DEF Release, IInv, StatusOfStop, TypeOK, PtraceTypeOK
  <2>3. UNCHANGED <<why, pend, stepping, msg, ending, dying>>
    BY <1>1 DEF Release
  <2> QED BY <2>1, <2>2, <2>3 DEF IInv, TypeOK, PtraceTypeOK, StatusOfStop
<1>4. CASE attached' = FALSE /\ UNCHANGED <<ctl, err>>
  <2>1. TypeOK'
    BY <1>2, <1>3, <1>4 DEF IInv, TypeOK, Known
  <2>2. CallsNested' /\ HandlingStopped'
    BY <1>2, <1>4 DEF CallsNested, HandlingStopped
  <2>3. StrangersStill' /\ StoppedAccurate'
    BY <1>4 DEF StrangersStill, StoppedAccurate, Healthy
  <2>4. NoStrayRequest'
    BY <1>3, <1>4 DEF IInv, NoStrayRequest
  <2> QED BY <1>3, <2>1, <2>2, <2>3, <2>4 DEF IInv
<1>5. CASE Throw("detach") /\ UNCHANGED attached
  BY <1>2, <1>3, <1>5, Thrown
<1> QED BY <1>1, <1>4, <1>5

\* SIGKILL is what every part of the invariant makes allowance for.
LEMMA KillInv == IInv /\ Kill => IInv'
<1> SUFFICES ASSUME IInv, Kill PROVE IInv'
  OBVIOUS
<1>1. /\ ending' = TRUE /\ dying' = Living /\ attached' = FALSE /\ ctl = <<>>
      /\ UNCHANGED <<ks, why, report, pend, stepping, msg, threads, evt_ign, ctl, err, freed>>
  BY DEF Kill, KillAll, Idle
<1>2. TypeOK'
  BY <1>1 DEF IInv, TypeOK, PtraceTypeOK, Living, Known
<1>3. StatusOfStop' /\ NoStrayRequest'
  BY <1>1 DEF IInv, StatusOfStop, NoStrayRequest
<1>4. CallsNested' /\ HandlingStopped'
  BY <1>1 DEF CallsNested, HandlingStopped
<1>5. StrangersStill' /\ StoppedAccurate'
  BY <1>1 DEF StrangersStill, StoppedAccurate, Healthy
<1> QED BY <1>2, <1>3, <1>4, <1>5 DEF IInv

\* The end of the session takes the call that met it with it.
LEMMA HandleEndInv == IInv /\ HandleEnd => IInv'
<1> SUFFICES ASSUME IInv, HandleEnd PROVE IInv'
  OBVIOUS
<1>1. /\ ctl # <<>> /\ attached' = FALSE /\ Return(FALSE)
      /\ UNCHANGED <<ks, why, report, pend, stepping, msg, ending, dying, threads, evt_ign, err, freed>>
  BY DEF HandleEnd, At, kernel
<1>2. /\ ctl' \in Seq(Calls)
      /\ \A i \in DOMAIN ctl' : ctl'[i].op = "bp" <=> i > 1
      /\ ctl' # <<>> => Top'.at = "restore"
  BY <1>1, ReturnShape DEF IInv, TypeOK
<1>3. CallsNested' /\ HandlingStopped'
  BY <1>2 DEF CallsNested, HandlingStopped
<1>4. TypeOK'
  BY <1>1, <1>2 DEF IInv, TypeOK, PtraceTypeOK, Known
<1>5. StatusOfStop' /\ NoStrayRequest'
  BY <1>1 DEF IInv, StatusOfStop, NoStrayRequest
<1>6. StrangersStill' /\ StoppedAccurate'
  BY <1>1 DEF StrangersStill, StoppedAccurate, Healthy
<1> QED BY <1>3, <1>4, <1>5, <1>6 DEF IInv

\* The call that returns leaves a caller that is not about to handle a stop.
LEMMA Returned ==
  ASSUME IInv, At("handle"), Return(attached), UNCHANGED attached
  PROVE  ctl' \in Seq(Calls) /\ CallsNested' /\ HandlingStopped'
<1>1. attached = TRUE /\ ctl # <<>>
  BY DEF At, IInv, CallsNested, TypeOK
<1>2. /\ ctl' \in Seq(Calls)
      /\ \A i \in DOMAIN ctl' : ctl'[i].op = "bp" <=> i > 1
      /\ ctl' # <<>> => Top'.at = "restore" \/ (Top'.at = "cont" /\ attached)
  BY <1>1, ReturnShape DEF IInv, TypeOK
<1> QED BY <1>1, <1>2 DEF CallsNested, HandlingStopped

\* A thread whose first stop has been waited for may be flagged.
LEMMA HandleCloneInv == IInv /\ HandleClone => IInv'
<1> SUFFICES ASSUME IInv, HandleClone PROVE IInv'
  OBVIOUS
<1> DEFINE new == msg[Top.thr]
<1>1. new \in Threads
  <2>1. Top \in Calls
    BY DEF HandleClone, At, IInv, TypeOK, Top
  <2> QED BY <2>1 DEF Calls, IInv, TypeOK, PtraceTypeOK
<1>2. /\ Waitable(new) /\ Fetch(new)
      /\ threads' = [u \in Known \cup {new} |->
                       IF u \in Known THEN threads[u] ELSE [stopped |-> TRUE, sig |-> "none"]]
      /\ UNCHANGED <<why, pend, stepping, msg, ending, dying, attached, evt_ign, err, freed>>
  BY DEF HandleClone
<1> HIDE DEF new
<1>3. /\ PtraceTypeOK' /\ StatusOfStop' /\ ~report'[new]
      /\ report[new] => ks'[new] = "stop"
      /\ \A u \in Threads \ {new} : ks'[u] = ks[u] /\ report'[u] = report[u]
  BY <1>1, <1>2, FetchEffect DEF IInv, TypeOK
<1>4. /\ Known' = Known \cup {new} /\ \A u \in Known : threads'[u] = threads[u]
      /\ threads' \in [Known' -> Entries] /\ Known' \subseteq Threads
  <2>1. [stopped |-> TRUE, sig |-> "none"] \in Entries
    BY DEF Entries
  <2>2. Known' = Known \cup {new}
    BY <1>2 DEF Known
  <2> QED BY <1>1, <1>2, <2>1, <2>2 DEF IInv, TypeOK
<1>5. ctl' \in Seq(Calls) /\ CallsNested' /\ HandlingStopped'
  BY Returned DEF HandleClone
<1>6. TypeOK'
  BY <1>2, <1>3, <1>4, <1>5 DEF IInv, TypeOK
<1>7. Healthy' <=> Healthy
  BY <1>2 DEF Healthy
<1>8. StrangersStill'
  BY <1>3, <1>4, <1>7 DEF IInv, StrangersStill
<1>9. StoppedAccurate'
  <2> SUFFICES ASSUME Healthy, NEW u \in Known', threads'[u].stopped
               PROVE  ks'[u] = "stop" /\ ~report'[u]
    BY <1>7 DEF StoppedAccurate
  <2>1. CASE u = new /\ new \notin Known
    <3>1. ks[new] \in {"none", "born", "stop"}
      BY <1>1, <2>1 DEF IInv, StrangersStill
    <3> QED BY <1>2, <1>3, <2>1, <3>1 DEF Waitable
  <2>2. CASE u = new /\ new \in Known
    <3>1. ks[new] = "stop" /\ ~report[new]
      BY <1>4, <2>2 DEF IInv, StoppedAccurate
    <3> QED BY <1>2, <3>1 DEF Waitable
  <2>3. CASE u # new
    BY <1>3, <1>4, <2>3 DEF IInv, TypeOK, StoppedAccurate
  <2> QED BY <2>1, <2>2, <2>3
<1>10. NoStrayRequest'
  BY <1>2 DEF IInv, NoStrayRequest
<1> QED BY <1>3, <1>5, <1>6, <1>8, <1>9, <1>10 DEF IInv

\* The thread that is erased is in its exit stop still.
LEMMA HandleExitInv == IInv /\ HandleExit => IInv'
<1> SUFFICES ASSUME IInv, HandleExit PROVE IInv'
  OBVIOUS
<1>1. /\ UNCHANGED <<ks, why, report, pend, stepping, msg, ending, dying, attached, evt_ign, err, freed>>
      /\ threads' = [u \in Known \ ({Top.thr} \ {Main}) |-> threads[u]]
      /\ Top.thr \in Known /\ threads[Top.thr].stopped
  BY DEF HandleExit, kernel, At, IInv, HandlingStopped
<1>2. /\ Known' = Known \ ({Top.thr} \ {Main}) /\ \A u \in Known' : threads'[u] = threads[u]
      /\ threads' \in [Known' -> Entries] /\ Known' \subseteq Known
  <2>1. Known' = Known \ ({Top.thr} \ {Main})
    BY <1>1 DEF Known
  <2> QED BY <1>1, <2>1 DEF IInv, TypeOK
<1>3. ctl' \in Seq(Calls) /\ CallsNested' /\ HandlingStopped'
  BY Returned DEF HandleExit
<1>4. TypeOK'
  BY <1>1, <1>2, <1>3 DEF IInv, TypeOK, PtraceTypeOK
<1>5. StatusOfStop' /\ NoStrayRequest'
  BY <1>1 DEF IInv, StatusOfStop, NoStrayRequest
<1>6. Healthy' <=> Healthy
  BY <1>1 DEF Healthy
<1>7. StrangersStill'
  <2>1. Healthy => ks[Top.thr] = "stop"
    BY <1>1 DEF IInv, StoppedAccurate
  <2> QED BY <1>1, <1>2, <1>6, <2>1 DEF IInv, StrangersStill
<1>8. StoppedAccurate'
  BY <1>1, <1>2, <1>6 DEF IInv, StoppedAccurate
<1> QED BY <1>3, <1>4, <1>5, <1>7, <1>8 DEF IInv

\* The step over a breakpoint is nested in the dispatch that met it.
LEMMA HandleHitInv == IInv /\ HandleHit => IInv'
<1> SUFFICES ASSUME IInv, HandleHit PROVE IInv'
  OBVIOUS
<1>1. ctl # <<>> /\ attached /\ StepThread(Top.thr, "bp")
  BY DEF HandleHit, HandlingSignal, At, IInv, CallsNested
<1>2. Top.thr \in Threads
  <2>1. Top \in Calls
    BY <1>1 DEF IInv, TypeOK, Top
  <2> QED BY <2>1 DEF Calls
<1> QED BY <1>1, <1>2, StepThreadInv

\* The entry that the signal is noted in is there.
LEMMA HandleSignalInv == IInv /\ HandleSignal => IInv'
<1> SUFFICES ASSUME IInv, HandleSignal PROVE IInv'
  OBVIOUS
<1>1. /\ ctl # <<>> /\ attached = TRUE /\ Return(attached) /\ Top.thr \in Known
      /\ UNCHANGED <<kernel, attached, err, freed>>
  BY DEF HandleSignal, HandlingSignal, SignalStops, TrapStops, At, IInv, CallsNested, TypeOK,
         HandlingStopped
<1>2. PICK stop \in Told : IF stop = "BRKPT" THEN UNCHANGED <<evt_ign, threads>>
                           ELSE NotifyAndDeliver(stop)
  BY DEF HandleSignal
<1>3. stop \in SignalStops
  BY DEF Told, SignalStops, TrapStops
<1>4. /\ Known' = Known /\ threads' \in [Known -> Entries] /\ evt_ign' \in BOOLEAN
      /\ \A t \in Known : threads'[t].stopped = threads[t].stopped
  <2>1. CASE UNCHANGED <<evt_ign, threads>>
    BY <2>1 DEF IInv, TypeOK, Known
  <2>2. CASE NotifyAndDeliver(stop)
    BY <1>1, <1>3, <2>2, Delivered DEF IInv
  <2> QED BY <1>2, <2>1, <2>2
<1>5. freed' \in BOOLEAN
  BY <1>1 DEF IInv, TypeOK
<1> QED BY <1>1, <1>4, <1>5, Settled

\* A request to the thread whose stop is handled fails only if it was killed.
LEMMA HandleFailsInv == IInv /\ HandleFails => IInv'
<1> SUFFICES ASSUME IInv, HandleFails PROVE IInv'
  OBVIOUS
<1>1. PtraceTypeOK' /\ StatusOfStop' /\ (ending => ending')
  BY DEF HandleFails, kernel, PtraceTypeOK, StatusOfStop, IInv, TypeOK
<1>2. attached /\ Top.thr \in Known /\ threads[Top.thr].stopped
  BY DEF HandleFails, At, IInv, CallsNested, HandlingStopped
<1>3. CASE ks[Top.thr] # "stop" /\ Throw("ESRCH")
  BY <1>1, <1>2, <1>3, Flagged, Thrown DEF HandleFails
<1>4. CASE Throw("EINVAL") \/ Throw("ECHILD")
  BY <1>1, <1>4, Thrown DEF HandleFails
<1> QED BY <1>3, <1>4 DEF HandleFails

\* The step is over; its thread may have been erased meanwhile.
LEMMA RestoreInv == IInv /\ Restore => IInv'
<1> SUFFICES ASSUME IInv, Restore PROVE IInv'
  OBVIOUS
<1>1. ctl # <<>> /\ UNCHANGED <<kernel, attached, err>> /\ attached \in BOOLEAN
  BY DEF Restore, At, IInv, TypeOK
<1>2. CASE Return(attached) /\ UNCHANGED <<evt_ign, threads, freed>>
  <2>1. /\ Known' = Known /\ threads' \in [Known -> Entries] /\ evt_ign' \in BOOLEAN
        /\ freed' \in BOOLEAN /\ \A t \in Known : threads'[t].stopped = threads[t].stopped
    BY <1>2 DEF IInv, TypeOK, Known
  <2> QED BY <1>1, <1>2, <2>1, Settled
<1>3. CASE /\ Top.thr \in Known /\ NotifyAndDeliver("BRKPT")
           /\ Return(attached) /\ UNCHANGED freed
  <2>1. "BRKPT" \in SignalStops
    BY DEF SignalStops, TrapStops
  <2>2. /\ Known' = Known /\ threads' \in [Known -> Entries] /\ evt_ign' \in BOOLEAN
        /\ \A t \in Known : threads'[t].stopped = threads[t].stopped
    BY <1>3, <2>1, Delivered DEF IInv
  <2>3. freed' \in BOOLEAN
    BY <1>3 DEF IInv, TypeOK
  <2> QED BY <1>1, <1>3, <2>2, <2>3, Settled
<1>4. CASE freed' = TRUE /\ UNCHANGED <<ctl, evt_ign, threads>>
  <2>1. TypeOK'
    BY <1>1, <1>4 DEF IInv, TypeOK, PtraceTypeOK, kernel, Known
  <2>2. CallsNested' /\ HandlingStopped'
    BY <1>1, <1>4 DEF IInv, CallsNested, HandlingStopped, Top, Known
  <2>3. StatusOfStop' /\ NoStrayRequest'
    BY <1>1, <1>4 DEF IInv, StatusOfStop, NoStrayRequest, kernel
  <2>4. StrangersStill' /\ StoppedAccurate'
    BY <1>1, <1>4 DEF IInv, StrangersStill, StoppedAccurate, Healthy, kernel, Known
  <2> QED BY <2>1, <2>2, <2>3, <2>4 DEF IInv
<1> QED BY <1>2, <1>3, <1>4 DEF Restore

\* One case for each action
LEMMA NextInv == IInv /\ [Next]_vars => IInv'
<1> SUFFICES ASSUME IInv, [Next]_vars PROVE IInv'
  OBVIOUS
<1>1. CASE Loop
  BY <1>1, ContThreadInv, WaitEventInv, WaitFailsInv, ContDoneInv, StopAllThreadsInv,
     HandleEndInv, HandleCloneInv, HandleExitInv, HandleHitInv, HandleSignalInv,
     HandleFailsInv, RestoreInv DEF Loop
<1>2. ASSUME NEW t \in Threads, Singlestep(t) PROVE IInv'
  BY <1>2, StepThreadInv DEF Singlestep, Idle
<1>3. CASE Client
  BY <1>2, <1>3, RunInv, PauseInv, DetachInv, KillInv DEF Client
<1>4. CASE UNCHANGED vars
  <2>1. UNCHANGED <<ks, why, report, pend, stepping, msg, ending, dying,
                    threads, attached, evt_ign, ctl, err, freed>>
    BY <1>4 DEF vars, kernel
  <2>2. TypeOK'
    BY <2>1 DEF IInv, TypeOK, PtraceTypeOK, Known
  <2>3. CallsNested' /\ HandlingStopped'
    BY <2>1 DEF IInv, CallsNested, HandlingStopped, Top, Known
  <2>4. StatusOfStop' /\ NoStrayRequest'
    BY <2>1 DEF IInv, StatusOfStop, NoStrayRequest
  <2>5. StrangersStill' /\ StoppedAccurate'
    BY <2>1 DEF IInv, StrangersStill, StoppedAccurate, Healthy, Known
  <2> QED BY <2>2, <2>3, <2>4, <2>5 DEF IInv
<1> QED BY <1>1, <1>3, <1>4, EnvironmentInv DEF Next

-----------------------------------------------------------------------------
(* The theorems                                                            *)

\* The invariant holds in every state of every session.
THEOREM Inductive == Spec => []IInv
BY InitInv, NextInv, PTL DEF Spec

\* As long as nobody kills the process and no call has failed, the thread table
\* of LocalDebuggee agrees with the kernel about who is stopped.
THEOREM FlagsAccurate == Spec => []StoppedAccurate
<1>1. IInv => StoppedAccurate
  BY DEF IInv
<1> QED BY <1>1, Inductive, PTL

\* run, singlestep and the handlers of dispatch_event address requests to threads
\* that are stopped, unless the process is being killed.
THEOREM NoStrayRequests == Spec => []NoStrayRequest
<1>1. IInv => NoStrayRequest
  BY DEF IInv
<1> QED BY <1>1, Inductive, PTL

\* Every variable keeps its type, the kernel's included.
THEOREM Typing == Spec => []TypeOK
<1>1. IInv => TypeOK
  BY DEF IInv
<1> QED BY <1>1, Inductive, PTL

-----------------------------------------------------------------------------
(* The dispatch of events: what is asked to stop while an event is handled, *)
(* and when a session is over                                              *)
-----------------------------------------------------------------------------
(* The kernel                                                              *)

\* As long as the process lives, a step of the target stops at most one thread,
\* which ran or was new, and starts at most one other.
LEMMA TargetStep ==
  ASSUME PtraceTypeOK, StatusOfStop, Target, ~ending'
  PROVE  \E t \in Threads :
           /\ \A u \in Threads \ {t} :
                /\ report'[u] = report[u] /\ why'[u] = why[u] /\ msg'[u] = msg[u]
                /\ ks'[u] = ks[u] \/ (ks[u] = "none" /\ ks'[u] = "born")
           /\ \/ /\ ks'[t] = ks[t] /\ report'[t] = report[t]
                 /\ why'[t] = why[t] /\ msg'[t] = msg[t]
              \/ /\ ks[t] \in {"run", "born"} /\ ks'[t] = "stop" /\ report'[t] = TRUE
                 /\ ks[t] = "born" => why'[t] = "start"
                 /\ why'[t] = "clone" => ks[msg'[t]] = "none" /\ ks'[msg'[t]] = "born"
<1> DEFINE Others(t) == \A u \in Threads \ {t} :
             /\ report'[u] = report[u] /\ why'[u] = why[u] /\ msg'[u] = msg[u]
             /\ ks'[u] = ks[u] \/ (ks[u] = "none" /\ ks'[u] = "born")
           Quiet(t) == /\ ks'[t] = ks[t] /\ report'[t] = report[t]
                       /\ why'[t] = why[t] /\ msg'[t] = msg[t]
           Stops(t) == /\ ks[t] \in {"run", "born"} /\ ks'[t] = "stop" /\ report'[t] = TRUE
                       /\ ks[t] = "born" => why'[t] = "start"
                       /\ why'[t] = "clone" => ks[msg'[t]] = "none" /\ ks'[msg'[t]] = "born"
           Goal == \E t \in Threads : Others(t) /\ (Quiet(t) \/ Stops(t))
<1>1. ASSUME NEW t \in Threads, NEW s \in Signals, Raise(t, s) PROVE Goal
  BY <1>1 DEF Raise
<1>2. ASSUME NEW t \in Threads, NEW w \in Whys \ {"clone"}, StopFor(t, w), UNCHANGED msg,
             ks[t] \in {"run", "born"}, ks[t] = "born" => w = "start"
      PROVE  Goal
  <2>1. Others(t)
    BY <1>2 DEF StopFor, PtraceTypeOK
  <2>2. ks'[t] = "stop" /\ report'[t] = TRUE /\ why'[t] = w
    BY <1>2 DEF StopFor, PtraceTypeOK
  <2>3. Stops(t)
    BY <1>2, <2>2
  <2> QED BY <2>1, <2>3
<1> HIDE DEF Goal
<1>3. ASSUME NEW t \in Threads, TakeSignal(t) PROVE Goal
  <2>1. PICK s \in pend[t] : StopFor(t, s) /\ UNCHANGED msg /\ ks[t] = "run"
    BY <1>3 DEF TakeSignal, Running
  <2>2. s \in {"STOP", "SEGV", "group stop"}
    BY DEF PtraceTypeOK
  <2>3. s \in Whys \ {"clone"}
    BY <2>2 DEF Whys, SignalStops
  <2> QED BY <1>2, <2>1, <2>3
<1>4. ASSUME NEW t \in Threads, Start(t) PROVE Goal
  <2>1. "start" \in Whys \ {"clone"}
    BY DEF Whys, SignalStops, TrapStops
  <2> QED BY <1>2, <1>4, <2>1 DEF Start
<1>5. ASSUME NEW t \in Threads, Execute(t) PROVE Goal
  <2>1. PICK w \in TrapStops : StopFor(t, w) /\ UNCHANGED msg /\ ks[t] = "run"
    BY <1>5 DEF Execute, Running, TrapStops
  <2>2. w \in Whys \ {"clone"}
    BY DEF Whys, SignalStops, TrapStops
  <2> QED BY <1>2, <2>1, <2>2
<1>6. ASSUME NEW t \in Threads, Clone(t) PROVE Goal
  <2>1. PICK u \in Threads :
             /\ ks[u] = "none" /\ ks' = [ks EXCEPT ![t] = "stop", ![u] = "born"]
             /\ msg' = [msg EXCEPT ![t] = u]
    BY <1>6 DEF Clone
  <2>2. /\ ks[t] = "run" /\ u # t
        /\ why' = [why EXCEPT ![t] = "clone"] /\ report' = [report EXCEPT ![t] = TRUE]
    BY <1>6, <2>1 DEF Clone, Running
  <2>3. /\ ks'[t] = "stop" /\ ks'[u] = "born" /\ msg'[t] = u /\ report'[t] = TRUE
        /\ \A v \in Threads \ {t, u} : ks'[v] = ks[v]
    BY <2>1, <2>2 DEF PtraceTypeOK
  <2>4. \A v \in Threads \ {t} :
          report'[v] = report[v] /\ why'[v] = why[v] /\ msg'[v] = msg[v]
    BY <2>1, <2>2 DEF PtraceTypeOK
  <2>5. Others(t)
    BY <2>1, <2>3, <2>4
  <2>6. Stops(t)
    BY <2>1, <2>2, <2>3
  <2> QED BY <2>5, <2>6 DEF Goal
<1>7. ASSUME NEW t \in Threads, ExitThread(t) PROVE Goal
  <2>1. "exit" \in Whys \ {"clone"}
    BY DEF Whys, SignalStops, TrapStops
  <2> QED BY <1>2, <1>7, <2>1 DEF ExitThread, Running
<1>8. \A t \in Threads : ~ExitGroup(t) /\ ~Killed(t)
  BY DEF ExitGroup, Killed, StatusOfStop
<1>9. Goal
  BY <1>1, <1>3, <1>4, <1>5, <1>6, <1>7, <1>8 DEF Target
<1> QED BY <1>9 DEF Goal

\* A thread that is to stop stops, if it does anything, whoever asks it to.
LEMMA TargetHalts ==
  ASSUME PtraceTypeOK, StatusOfStop, Doomed, BornStopped, Target
  PROVE  Doomed' /\ BornStopped' /\ (Halting => Halting')
<1> USE DEF PtraceTypeOK, Doomed, BornStopped, Halting
<1> DEFINE Goal == Doomed' /\ BornStopped' /\ (Halting => Halting')
<1>1. ASSUME NEW t \in Threads, NEW s \in Signals, Raise(t, s) PROVE Goal
  <2>1. \A u \in Threads : pend[u] \subseteq pend'[u]
    BY <1>1 DEF Raise
  <2> QED BY <1>1, <2>1 DEF Raise
<1>2. ASSUME NEW t \in Threads, NEW w \in Whys, StopFor(t, w), ks[t] = "run" \/ ks[t] = "born",
             \A u \in Threads \ {t} : pend'[u] = pend[u],
             \/ UNCHANGED <<ending, dying>> /\ (ending => w = "exit" \/ t \in dying)
             \/ ending /\ UNCHANGED ending /\ dying' = dying \ {t} /\ w = "exit"
             \/ ~ending /\ ending' = TRUE /\ dying' = Living \ {t} /\ w = "exit"
      PROVE  Goal
  <2>1. /\ ks'[t] = "stop" /\ why'[t] = w
        /\ \A u \in Threads \ {t} : ks'[u] = ks[u] /\ why'[u] = why[u] /\ pend'[u] = pend[u]
    BY <1>2 DEF StopFor
  <2>2. CASE UNCHANGED <<ending, dying>> /\ (ending => w = "exit" \/ t \in dying)
    BY <2>1, <2>2
  <2>3. CASE ending /\ UNCHANGED ending /\ dying' = dying \ {t} /\ w = "exit"
    BY <2>1, <2>3
  <2>4. CASE ~ending /\ ending' = TRUE /\ dying' = Living \ {t} /\ w = "exit"
    <3>1. dying = {}
      BY <2>4 DEF StatusOfStop
    <3> QED BY <2>1, <2>4, <3>1 DEF Living
  <2> QED BY <1>2, <2>2, <2>3, <2>4
<1> HIDE DEF Goal
<1>3. ASSUME NEW t \in Threads, TakeSignal(t) PROVE Goal
  <2>1. PICK s \in pend[t] : StopFor(t, s) /\ pend' = [pend EXCEPT ![t] = @ \ {s}]
    BY <1>3 DEF TakeSignal
  <2>2. s \in {"STOP", "SEGV", "group stop"}
    OBVIOUS
  <2>3. s \in Whys
    BY <2>2 DEF Whys, SignalStops
  <2>4. ks[t] = "run" /\ ~ending /\ UNCHANGED <<ending, dying>>
    BY <1>3 DEF TakeSignal, Running
  <2>5. \A u \in Threads \ {t} : pend'[u] = pend[u]
    BY <2>1
  <2> QED BY <1>2, <2>1, <2>3, <2>4, <2>5
<1>4. ASSUME NEW t \in Threads, Start(t) PROVE Goal
  <2>1. "start" \in Whys
    BY DEF Whys
  <2>2. \A u \in Threads \ {t} : pend'[u] = pend[u]
    BY <1>4 DEF Start
  <2>3. ks[t] = "born" /\ ~ending /\ UNCHANGED <<ending, dying>> /\ StopFor(t, "start")
    BY <1>4 DEF Start
  <2> QED BY <1>2, <2>1, <2>2, <2>3
<1>5. ASSUME NEW t \in Threads, Execute(t) PROVE Goal
  <2>1. PICK w \in Whys : StopFor(t, w)
    BY <1>5 DEF Execute, Whys, SignalStops, TrapStops
  <2>2. ks[t] = "run" /\ ~ending /\ UNCHANGED <<pend, ending, dying>>
    BY <1>5 DEF Execute, Running
  <2> QED BY <1>2, <2>1, <2>2
<1>6. ASSUME NEW t \in Threads, Clone(t) PROVE Goal
  <2>1. PICK u \in Threads :
             /\ ks[u] = "none" /\ ks' = [ks EXCEPT ![t] = "stop", ![u] = "born"]
             /\ pend' = [pend EXCEPT ![u] = {"STOP"}]
    BY <1>6 DEF Clone
  <2>2. ks[t] = "run" /\ t # u /\ ~ending /\ UNCHANGED <<ending, dying>>
    BY <1>6, <2>1 DEF Clone, Running
  <2>3. /\ ks'[t] = "stop" /\ "STOP" \in pend'[u]
        /\ \A v \in Threads \ {t, u} : ks'[v] = ks[v] /\ pend'[v] = pend[v]
    BY <2>1, <2>2
  <2> QED BY <2>2, <2>3 DEF Goal
<1>7. ASSUME NEW t \in Threads, ExitThread(t) PROVE Goal
  <2>1. "exit" \in Whys
    BY DEF Whys
  <2> QED BY <1>2, <1>7, <2>1 DEF ExitThread, Running
<1>8. ASSUME NEW t \in Threads, ExitGroup(t) PROVE Goal
  <2>1. "exit" \in Whys
    BY DEF Whys
  <2> QED BY <1>2, <1>8, <2>1 DEF ExitGroup, Running
<1>9. ASSUME NEW t \in Threads, Killed(t) PROVE Goal
  <2>1. ending /\ t \in dying /\ UNCHANGED <<pend, ending>>
    BY <1>9 DEF Killed, StatusOfStop
  <2>2. CASE ks' = [ks EXCEPT ![t] = "run"] /\ UNCHANGED <<why, dying>>
    BY <2>1, <2>2 DEF Goal
  <2>3. CASE ks[t] \in {"run", "born"} /\ StopFor(t, "exit") /\ dying' = dying \ {t}
    <3>1. "exit" \in Whys
      BY DEF Whys
    <3> QED BY <1>2, <2>1, <2>3, <3>1
  <2>4. CASE ks' = [ks EXCEPT ![t] = "zombie"] /\ dying' = dying \ {t} /\ why' = why
    BY <2>1, <2>4 DEF Goal
  <2> QED BY <1>9, <2>2, <2>3, <2>4 DEF Killed
<1>10. Goal
  BY <1>1, <1>3, <1>4, <1>5, <1>6, <1>7, <1>8, <1>9 DEF Target
<1> QED BY <1>10 DEF Goal

\* A status that is fetched is that of a stop, or of a zombie.
LEMMA FetchStops ==
  ASSUME PtraceTypeOK, StatusOfStop, NEW t \in Threads, Waitable(t), Fetch(t)
  PROVE  /\ \A u \in Threads \ {t} : ks'[u] = ks[u] /\ report'[u] = report[u]
         /\ report'[t] = FALSE
         /\ report[t] => ks[t] = "stop" /\ ks'[t] = "stop"
         /\ ~report[t] => ks[t] = "zombie" /\ ks'[t] = "gone"
<1> USE DEF PtraceTypeOK, StatusOfStop
<1>1. CASE report[t]
  <2>1. report' = [report EXCEPT ![t] = FALSE] /\ ks' = ks
    BY <1>1 DEF Fetch
  <2> QED BY <1>1, <2>1
<1>2. CASE ~report[t]
  <2>1. ks' = [ks EXCEPT ![t] = "gone"] /\ report' = report /\ ks[t] = "zombie"
    BY <1>2 DEF Fetch, Waitable
  <2>2. report'[t] = FALSE
    BY <1>2, <2>1
  <2> QED BY <1>2, <2>1, <2>2
<1> QED BY <1>1, <1>2

\* Nothing the tracer's calls do keeps a thread from stopping.
LEMMA ResumeDooms ==
  ASSUME PtraceTypeOK, StatusOfStop, Doomed, BornStopped,
         NEW t \in Threads, ks[t] = "stop", NEW sig, NEW step \in BOOLEAN, Resume(t, sig, step)
  PROVE  Doomed' /\ BornStopped'
<1> USE DEF PtraceTypeOK, StatusOfStop, Doomed, BornStopped
<1>1. why' = why
  BY DEF Resume
<1>2. CASE why[t] = "exit" /\ ks' = [ks EXCEPT ![t] = "zombie"] /\ dying' = dying \ {t}
           /\ UNCHANGED <<pend, ending>>
  BY <1>1, <1>2
<1>3. CASE why[t] # "exit" /\ ks' = [ks EXCEPT ![t] = "run"] /\ UNCHANGED <<pend, ending, dying>>
  BY <1>1, <1>3
<1>4. CASE /\ why[t] \in SignalStops /\ ks' = [ks EXCEPT ![t] = "run"]
           /\ pend' = [u \in Threads |-> IF u \in Living THEN pend[u] \cup {"group stop"}
                                         ELSE pend[u]]
           /\ UNCHANGED <<ending, dying>>
  <2>1. why[t] # "exit"
    BY <1>4 DEF SignalStops, TrapStops
  <2>2. \A u \in Threads : pend[u] \subseteq pend'[u]
    BY <1>4
  <2> QED BY <1>1, <1>4, <2>1, <2>2
<1>5. CASE /\ ks' = [ks EXCEPT ![t] = "run"] /\ ending' = TRUE /\ dying' = Living
           /\ UNCHANGED pend
  BY <1>1, <1>5 DEF Living
<1> QED BY <1>2, <1>3, <1>4, <1>5 DEF Resume

LEMMA FetchHalts ==
  ASSUME PtraceTypeOK, Doomed, BornStopped, NEW t \in Threads, Waitable(t), StatusOfStop, Fetch(t),
         UNCHANGED <<why, pend, ending, dying>>
  PROVE  Doomed' /\ BornStopped' /\ (Halting => Halting')
<1>1. ks' = ks \/ ks' = [ks EXCEPT ![t] = "gone"]
  BY DEF Fetch
<1> QED BY <1>1 DEF PtraceTypeOK, Doomed, BornStopped, Halting

LEMMA ReleaseDooms ==
  ASSUME PtraceTypeOK, Doomed, BornStopped, NEW S, Release(S)
  PROVE  Doomed' /\ BornStopped'
BY DEF PtraceTypeOK, Doomed, BornStopped, Release

\* More signals change nothing either.
LEMMA MoreSignals ==
  ASSUME Doomed, BornStopped, UNCHANGED <<ks, why, ending, dying>>,
         \A u \in Threads : pend[u] \subseteq pend'[u]
  PROVE  Doomed' /\ BornStopped' /\ (Halting => Halting')
BY DEF Doomed, BornStopped, Halting

-----------------------------------------------------------------------------
(* Steps that dispatch nothing                                             *)

\* No event is being handled after the step.
NoDispatch == ctl = <<>> \/ Top.at \in {"cont", "wait", "restore"}

\* A step that leaves the kernel alone, and ends the handling of whatever it is
\* but an exit whose thread stays.
LEMMA SettledEnd ==
  ASSUME StopLasts, NoZombies, ClonesAreNew, UNCHANGED <<ks, why, report, msg, ending>>,
         NoDispatch', Known' \subseteq Known, Known \subseteq Known' \cup (Threads \ {Main}),
         Known \subseteq Threads,
         \A t \in Known' : threads'[t].stopped = threads[t].stopped,
         ~ending => \A t \in Known \ Known' : ks[t] = "stop" /\ ~report[t],
         ~ending => \A t \in Known' \ {Main} : ~Dispatching(t, "exit")
  PROVE  StopLasts' /\ NoZombies' /\ ClonesAreNew'
<1>1. \A t, e : ~Dispatching(t, e)'
  BY DEF NoDispatch, Dispatching
<1>2. StopLasts'
  BY <1>1 DEF StopLasts
<1>3. NoZombies'
  <2> SUFFICES ASSUME ~ending PROVE NoZombies'
    BY DEF NoZombies
  <2>1. Main \in Known' /\ Known' \subseteq Threads
    BY DEF NoZombies
  <2>2. ASSUME NEW t \in Known'
        PROVE  /\ threads'[t].stopped => ks'[t] \in {"stop", "free"} /\ ~report'[t]
               /\ \/ ks'[t] \in {"run", "stop", "free"}
                  \/ t = Main /\ ks'[t] \in {"zombie", "gone"}
               /\ t # Main /\ ks'[t] = "stop" /\ why'[t] = "exit" => report'[t]
    BY <2>1 DEF NoZombies
  <2>3. ASSUME NEW t \in Threads \ Known'
        PROVE  ks'[t] \in {"none", "born", "stop"} /\ (report'[t] => why'[t] = "start")
    <3>1. CASE t \in Known
      BY <3>1
    <3>2. CASE t \notin Known
      BY <3>2 DEF NoZombies
    <3> QED BY <3>1, <3>2
  <2> QED BY <2>1, <2>2, <2>3 DEF NoZombies
<1>4. ClonesAreNew'
  <2>1. \A t : TellsOfClone(t)' => TellsOfClone(t)
    BY <1>1 DEF TellsOfClone
  <2> QED BY <2>1 DEF ClonesAreNew
<1> QED BY <1>2, <1>3, <1>4

\* The same of a step that leaves the threads the debugger knows alone, too.
LEMMA QuietEnd ==
  ASSUME TypeOK, StopLasts, NoZombies, ClonesAreNew, UNCHANGED <<ks, why, report, msg, ending>>,
         NoDispatch', UNCHANGED threads,
         ~ending => \A t \in Known \ {Main} : ~Dispatching(t, "exit")
  PROVE  StopLasts' /\ NoZombies' /\ ClonesAreNew'
<1>1. Known' = Known
  BY DEF Known
<1> QED BY <1>1, SettledEnd DEF TypeOK

\* A call that fails leaves no call in progress.
LEMMA ThrownEnd ==
  ASSUME IInv, EndInv, UNCHANGED <<kernel, threads, attached>>, NEW e, Throw(e),
         ~ending => \A t \in Known \ {Main} : ~Dispatching(t, "exit")
  PROVE  EndInv'
<1>1. /\ ctl' = <<>>
      /\ UNCHANGED <<ks, why, report, pend, msg, ending, dying, threads, attached>>
  BY DEF Throw, kernel
<1>2. NoDispatch' /\ StopsComing'
  BY <1>1 DEF NoDispatch, StopsComing
<1>3. StopLasts' /\ NoZombies' /\ ClonesAreNew'
  BY <1>1, <1>2, QuietEnd DEF IInv, EndInv
<1>4. Doomed' /\ BornStopped' /\ EndIsEnd'
  BY <1>1 DEF EndInv, Doomed, BornStopped, EndIsEnd
<1> QED BY <1>2, <1>3, <1>4 DEF EndInv

\* A thread that is resumed is not one that exits, but the leader.
LEMMA RestartEnd ==
  ASSUME IInv, EndInv, NEW t \in Known, NEW step \in BOOLEAN, Restart(t, step), ks[t] = "stop",
         threads[t].stopped, attached', ctl' = <<>> \/ Top'.at \in {"cont", "wait"},
         \A u \in Threads : ~Dispatching(u, "exit")
  PROVE  EndInv'
<1>1. t \in Threads /\ Known \subseteq Threads
  BY DEF IInv, TypeOK
<1>2. /\ PtraceTypeOK' /\ StatusOfStop'
      /\ ending => ending'
      /\ \A u \in Threads \ {t} : ks'[u] = ks[u] /\ report'[u] = report[u]
  BY <1>1, ResumeEffect DEF Restart, IInv, TypeOK
<1>3. Doomed' /\ BornStopped'
  BY <1>1, ResumeDooms DEF Restart, IInv, TypeOK, EndInv
<1>4. /\ UNCHANGED <<why, msg>> /\ report'[t] = FALSE
      /\ (ks'[t] = "zombie" /\ why[t] = "exit") \/ ks'[t] = "run"
  BY <1>1 DEF Restart, Resume, IInv, TypeOK, PtraceTypeOK
<1>5. /\ Known' = Known /\ threads'[t].stopped = FALSE
      /\ \A u \in Known \ {t} : threads'[u] = threads[u]
  BY DEF Restart, Known, IInv, TypeOK
<1>6. NoDispatch' /\ StopsComing' /\ EndIsEnd'
  BY DEF NoDispatch, StopsComing, EndIsEnd
<1>7. \A u, e : ~Dispatching(u, e)'
  BY <1>6 DEF NoDispatch, Dispatching
<1>8. StopLasts'
  BY <1>7 DEF StopLasts
<1>9. NoZombies'
  <2> SUFFICES ASSUME ~ending' PROVE NoZombies'
    BY DEF NoZombies
  <2>1. ~ending /\ NoZombies
    BY <1>2 DEF EndInv
  <2>2. why[t] = "exit" => t = Main
    BY <1>1, <2>1 DEF NoZombies
  <2>3. ASSUME NEW u \in Known
        PROVE  /\ threads'[u].stopped => ks'[u] \in {"stop", "free"} /\ ~report'[u]
               /\ \/ ks'[u] \in {"run", "stop", "free"}
                  \/ u = Main /\ ks'[u] \in {"zombie", "gone"}
               /\ u # Main /\ ks'[u] = "stop" /\ why'[u] = "exit" => report'[u]
    BY <1>1, <1>2, <1>4, <1>5, <2>1, <2>2 DEF NoZombies
  <2>4. ASSUME NEW u \in Threads \ Known
        PROVE  ks'[u] \in {"none", "born", "stop"} /\ (report'[u] => why'[u] = "start")
    BY <1>1, <1>2, <1>4, <2>1 DEF NoZombies
  <2> QED BY <1>5, <2>1, <2>3, <2>4 DEF NoZombies
<1>10. ClonesAreNew'
  <2> SUFFICES ASSUME ~ending' PROVE ClonesAreNew'
    BY DEF ClonesAreNew
  <2>1. ~ending /\ ClonesAreNew
    BY <1>2 DEF EndInv
  <2>2. \A u \in Threads : TellsOfClone(u)' => TellsOfClone(u)
    BY <1>2, <1>4, <1>7 DEF TellsOfClone
  <2>3. \A u \in Threads : ks[u] # "none" => ks'[u] # "none"
    BY <1>2, <1>4
  <2>4. \A u \in Threads : msg[u] \in Threads
    BY DEF IInv, TypeOK, PtraceTypeOK
  <2> QED BY <1>4, <1>5, <2>1, <2>2, <2>3, <2>4 DEF ClonesAreNew
<1> QED BY <1>3, <1>6, <1>8, <1>9, <1>10 DEF EndInv

-----------------------------------------------------------------------------
(* One lemma for each action                                               *)

LEMMA InitEnd == Init => EndInv
<1> SUFFICES ASSUME Init PROVE EndInv
  OBVIOUS
<1> USE PtraceAssumption
<1>1. /\ Main \in Known /\ ending = FALSE /\ attached = TRUE /\ ctl = <<>>
      /\ \A t \in Threads : /\ ks[t] = IF t \in Known THEN "stop" ELSE "none"
                            /\ why[t] = "exec" /\ report[t] = FALSE
  BY DEF Init
<1>2. Known \subseteq Threads
  BY InitInv DEF IInv, TypeOK
<1> QED BY <1>1, <1>2 DEF EndInv, Doomed, BornStopped, StopsComing, StopLasts, NoZombies,
                          ClonesAreNew, EndIsEnd, TellsOfClone, Dispatching

LEMMA EnvironmentEnd == IInv /\ EndInv /\ Environment => EndInv'
<1> SUFFICES ASSUME IInv, EndInv, Environment PROVE EndInv'
  OBVIOUS
<1>1. UNCHANGED <<threads, attached, ctl>> /\ Target
  BY DEF Environment
<1>2. Known' = Known /\ Known \subseteq Threads /\ Top' = Top
  BY <1>1 DEF Known, IInv, TypeOK, Top
<1>3. \A u, e : Dispatching(u, e)' <=> Dispatching(u, e)
  BY <1>1, <1>2 DEF Dispatching
<1>4. Doomed' /\ BornStopped' /\ (Halting => Halting')
  BY <1>1, TargetHalts DEF IInv, TypeOK, EndInv
<1>5. StopsComing'
  BY <1>1, <1>2, <1>4 DEF EndInv, StopsComing
<1>6. CASE ending'
  BY <1>4, <1>5, <1>6 DEF EndInv, StopLasts, NoZombies, ClonesAreNew, EndIsEnd
<1>7. CASE ~ending'
  <2>1. ~ending
    BY <1>1, <1>7, TargetEffect DEF IInv, TypeOK
  <2>2. PICK t \in Threads :
           /\ \A u \in Threads \ {t} :
                /\ report'[u] = report[u] /\ why'[u] = why[u] /\ msg'[u] = msg[u]
                /\ ks'[u] = ks[u] \/ (ks[u] = "none" /\ ks'[u] = "born")
           /\ \/ /\ ks'[t] = ks[t] /\ report'[t] = report[t]
                 /\ why'[t] = why[t] /\ msg'[t] = msg[t]
              \/ /\ ks[t] \in {"run", "born"} /\ ks'[t] = "stop" /\ report'[t] = TRUE
                 /\ ks[t] = "born" => why'[t] = "start"
                 /\ why'[t] = "clone" => ks[msg'[t]] = "none" /\ ks'[msg'[t]] = "born"
    BY <1>1, <1>7, TargetStep DEF IInv, TypeOK
  <2>3. \A u \in Threads : msg[u] \in Threads /\ msg'[u] \in Threads
    BY <1>1, TargetEffect DEF IInv, TypeOK, PtraceTypeOK
  <2>4. ASSUME NEW u \in Threads, ks[u] \notin {"none", "run", "born"}
        PROVE  ks'[u] = ks[u] /\ report'[u] = report[u] /\ why'[u] = why[u] /\ msg'[u] = msg[u]
    BY <2>2, <2>4
  <2>5. StopLasts'
    BY <1>2, <1>3, <2>1, <2>4, PtraceAssumption DEF EndInv, StopLasts
  <2>6. EndIsEnd'
    BY <1>1, <2>1, <2>4, PtraceAssumption DEF EndInv, EndIsEnd
  <2>7. NoZombies'
    <3> USE DEF EndInv, NoZombies
    <3>1. ASSUME NEW u \in Known
          PROVE  /\ threads'[u].stopped => ks'[u] \in {"stop", "free"} /\ ~report'[u]
                 /\ \/ ks'[u] \in {"run", "stop", "free"}
                    \/ u = Main /\ ks'[u] \in {"zombie", "gone"}
                 /\ u # Main /\ ks'[u] = "stop" /\ why'[u] = "exit" =>
                      report'[u] \/ Dispatching(u, "exit")'
      <4>1. CASE ks[u] = "run"
        <5>1. threads'[u].stopped = FALSE
          BY <1>1, <2>1, <4>1 DEF IInv, TypeOK, Entries
        <5>2. ks'[u] = "run" \/ (ks'[u] = "stop" /\ report'[u] = TRUE)
          BY <1>2, <2>2, <4>1
        <5> QED BY <5>1, <5>2
      <4>2. CASE ks[u] # "run"
        BY <1>1, <1>2, <1>3, <2>1, <2>4, <4>2
      <4> QED BY <4>1, <4>2
    <3>2. ASSUME NEW u \in Threads \ Known
          PROVE  ks'[u] \in {"none", "born", "stop"} /\ (report'[u] => why'[u] = "start")
      <4>1. ks[u] \in {"none", "born", "stop"} /\ (report[u] => why[u] = "start")
        BY <2>1
      <4>2. CASE ks[u] = "born" /\ ks'[u] = "stop"
        BY <2>2, <4>2
      <4>3. CASE ~(ks[u] = "born" /\ ks'[u] = "stop")
        BY <2>2, <4>1, <4>3
      <4> QED BY <4>2, <4>3
    <3> QED BY <1>2, <2>1, <3>1, <3>2
  <2>8. ClonesAreNew'
    <3>1. \A u \in Threads \ {t} : TellsOfClone(u)' => TellsOfClone(u) /\ msg'[u] = msg[u]
      BY <1>3, <2>2 DEF TellsOfClone
    <3>2. \A u \in Threads : ks[u] # "none" => ks'[u] # "none"
      BY <2>2
    <3>3. \A u \in Threads : TellsOfClone(u) => msg[u] \notin Known /\ ks[msg[u]] # "none"
      BY <2>1 DEF EndInv, ClonesAreNew
    <3>4. CASE ks'[t] = ks[t] /\ report'[t] = report[t] /\ why'[t] = why[t] /\ msg'[t] = msg[t]
      <4>1. TellsOfClone(t)' => TellsOfClone(t)
        BY <1>3, <3>4 DEF TellsOfClone
      <4> QED BY <1>2, <2>1, <2>3, <3>1, <3>2, <3>4, <4>1 DEF EndInv, ClonesAreNew
    <3>5. CASE why'[t] = "clone" /\ ks[msg'[t]] = "none" /\ ks'[msg'[t]] = "born"
      <4>1. msg'[t] \notin Known
        BY <2>1, <2>3, <3>5 DEF EndInv, NoZombies
      <4>2. \A u \in Threads \ {t} : TellsOfClone(u)' => msg'[u] # msg'[t]
        BY <3>1, <3>3, <3>5
      <4> QED BY <1>2, <2>1, <2>3, <3>1, <3>2, <3>3, <3>5, <4>1, <4>2 DEF EndInv, ClonesAreNew
    <3>6. CASE why'[t] # "clone"
      <4>1. ~TellsOfClone(t)'
        BY <3>6 DEF TellsOfClone
      <4> QED BY <1>2, <2>1, <2>3, <3>1, <3>2, <4>1 DEF EndInv, ClonesAreNew
    <3> QED BY <2>2, <3>4, <3>5, <3>6
  <2> QED BY <1>4, <1>5, <2>5, <2>6, <2>7, <2>8 DEF EndInv
<1> QED BY <1>6, <1>7

\* What a call leaves when it returns handles no event.
LEMMA ReturnedEnd ==
  ASSUME IInv, EndInv, ctl # <<>>, NEW still \in BOOLEAN, Return(still), Halting,
         UNCHANGED <<kernel, threads>>, ~ending => \A t \in Known \ {Main} : ~Dispatching(t, "exit"),
         EndIsEnd'
  PROVE  EndInv'
<1>1. ctl' # <<>> => Top'.at = "restore" \/ Top'.at = "cont"
  BY ReturnShape DEF IInv, TypeOK
<1>2. UNCHANGED <<ks, why, report, pend, msg, ending, dying>>
  BY DEF kernel
<1>3. NoDispatch' /\ StopsComing'
  BY <1>1, <1>2 DEF NoDispatch, StopsComing, Halting
<1>4. StopLasts' /\ NoZombies' /\ ClonesAreNew'
  BY <1>2, <1>3, QuietEnd DEF IInv, EndInv
<1>5. Doomed' /\ BornStopped'
  BY <1>2 DEF EndInv, Doomed, BornStopped
<1> QED BY <1>3, <1>4, <1>5 DEF EndInv

\* A call begins, or run() goes on to wait.
LEMMA StartedEnd ==
  ASSUME IInv, EndInv, ctl' # <<>>, Top'.at \in {"cont", "wait"}, NoDispatch,
         UNCHANGED <<ks, why, report, msg, ending, dying, threads, attached>>,
         \A u \in Threads : pend[u] \subseteq pend'[u]
  PROVE  EndInv'
<1>1. NoDispatch' /\ StopsComing' /\ \A t \in Known : ~Dispatching(t, "exit")
  BY DEF NoDispatch, StopsComing, Dispatching
<1>2. StopLasts' /\ NoZombies' /\ ClonesAreNew'
  BY <1>1, QuietEnd DEF IInv, EndInv
<1>3. Doomed' /\ BornStopped' /\ EndIsEnd'
  BY MoreSignals DEF EndInv, EndIsEnd
<1> QED BY <1>1, <1>2, <1>3 DEF EndInv

LEMMA RunEnd == IInv /\ EndInv /\ Run => EndInv'
<1> SUFFICES ASSUME IInv, EndInv, Run PROVE EndInv'
  OBVIOUS
<1>1. ctl' # <<>> /\ Top'.at = "cont"
  BY PushShape, PtraceAssumption DEF Run, Idle, IInv, TypeOK
<1>2. NoDispatch /\ UNCHANGED <<ks, why, report, pend, msg, ending, dying, threads, attached>>
  BY DEF NoDispatch, Run, Idle, kernel
<1> QED BY <1>1, <1>2, StartedEnd

LEMMA PauseEnd == IInv /\ EndInv /\ Pause => EndInv'
<1> SUFFICES ASSUME IInv, EndInv, Pause PROVE EndInv'
  OBVIOUS
<1>1. ctl' # <<>> /\ Top'.at = "wait"
  BY PushShape, PtraceAssumption DEF Pause, Idle, IInv, TypeOK
<1>2. NoDispatch /\ UNCHANGED <<ks, why, report, msg, ending, dying, threads, attached>>
  BY DEF NoDispatch, Pause, Idle
<1>3. \A u \in Threads : pend[u] \subseteq pend'[u]
  <2>1. CASE \E t \in Living : pend' = [pend EXCEPT ![t] = @ \cup {"STOP"}]
    <3>1. PICK t \in Living : pend' = [pend EXCEPT ![t] = pend[t] \cup {"STOP"}]
      BY <2>1
    <3>2. pend \in [Threads -> SUBSET {"STOP", "SEGV", "group stop"}]
      BY DEF IInv, TypeOK, PtraceTypeOK
    <3> QED BY <3>1, <3>2
  <2>2. CASE pend' = pend
    BY <2>2
  <2> QED BY <2>1, <2>2 DEF Pause
<1> QED BY <1>1, <1>2, <1>3, StartedEnd

LEMMA ContDoneEnd == IInv /\ EndInv /\ ContDone => EndInv'
<1> SUFFICES ASSUME IInv, EndInv, ContDone PROVE EndInv'
  OBVIOUS
<1>1. ctl' # <<>> /\ Top' = [Top EXCEPT !.at = "wait"] /\ Top \in Calls
  BY GotoShape DEF ContDone, At, IInv, TypeOK, Top
<1>2. Top'.at = "wait"
  BY <1>1 DEF Calls
<1>3. NoDispatch /\ UNCHANGED <<ks, why, report, pend, msg, ending, dying, threads, attached>>
  BY DEF NoDispatch, ContDone, At, kernel
<1> QED BY <1>1, <1>2, <1>3, StartedEnd

\* A step of one thread, by the client or over a breakpoint
LEMMA StepThreadEnd ==
  ASSUME IInv, EndInv, attached, NEW t \in Threads, NEW op \in {"step", "bp"}, StepThread(t, op),
         op = "bp" <=> ctl # <<>>, \A u \in Threads : ~Dispatching(u, "exit")
  PROVE  EndInv'
<1>1. CASE ks[t] = "stop" /\ Restart(t, TRUE) /\ Push(op, "wait", t)
  <2>1. Top'.at = "wait"
    BY <1>1, PushShape DEF IInv, TypeOK
  <2> QED BY <1>1, <2>1, RestartEnd DEF StepThread
<1>2. CASE ks[t] # "stop" /\ Throw("ESRCH") /\ UNCHANGED <<kernel, threads>>
  BY <1>2, ThrownEnd DEF StepThread, IInv, TypeOK
<1> QED BY <1>1, <1>2 DEF StepThread

LEMMA SinglestepEnd == ASSUME IInv, EndInv, NEW t \in Threads, Singlestep(t) PROVE EndInv'
<1>1. \A u \in Threads : ~Dispatching(u, "exit")
  BY DEF Singlestep, Idle, Dispatching
<1> QED BY <1>1, StepThreadEnd DEF Singlestep, Idle

LEMMA HandleHitEnd == IInv /\ EndInv /\ HandleHit => EndInv'
<1> SUFFICES ASSUME IInv, EndInv, HandleHit PROVE EndInv'
  OBVIOUS
<1>1. ctl # <<>> /\ attached /\ StepThread(Top.thr, "bp") /\ Top.evt # "exit"
  BY DEF HandleHit, HandlingSignal, At, IInv, CallsNested, SignalStops, TrapStops
<1>2. Top.thr \in Threads
  <2>1. Top \in Calls
    BY <1>1 DEF IInv, TypeOK, Top
  <2> QED BY <2>1 DEF Calls
<1>3. \A u \in Threads : ~Dispatching(u, "exit")
  BY <1>1 DEF Dispatching
<1> QED BY <1>1, <1>2, <1>3, StepThreadEnd

LEMMA ContThreadEnd == ASSUME IInv, EndInv, NEW t \in Threads, ContThread(t) PROVE EndInv'
<1>1. /\ At("cont") /\ t \in Known /\ threads[t].stopped /\ attached
      /\ UNCHANGED attached
  BY DEF ContThread, At, IInv, CallsNested
<1>2. \A u \in Threads : ~Dispatching(u, "exit")
  BY <1>1 DEF At, Dispatching
<1>3. CASE ks[t] = "stop" /\ Restart(t, FALSE) /\ UNCHANGED ctl
  <2>1. Top'.at = "cont"
    BY <1>1, <1>3 DEF Top, At
  <2> QED BY <1>1, <1>2, <1>3, <2>1, RestartEnd
<1>4. CASE Throw("ESRCH") /\ UNCHANGED <<kernel, threads>>
  BY <1>1, <1>2, <1>4, ThrownEnd DEF IInv, TypeOK
<1> QED BY <1>3, <1>4 DEF ContThread

LEMMA WaitFailsEnd == ASSUME IInv, EndInv, NEW t \in Threads, WaitFails(t) PROVE EndInv'
<1>1. \A u \in Known : ~Dispatching(u, "exit")
  BY DEF WaitFails, At, Dispatching
<1> QED BY <1>1, ThrownEnd DEF WaitFails

\* The status of a stop is fetched, or a zombie reaped: the leader, when nobody
\* is left to run, unless SIGKILL is on its way to whoever is.
LEMMA WaitEventEnd == ASSUME IInv, EndInv, NEW t \in Threads, WaitEvent(t) PROVE EndInv'
<1> DEFINE c == [op |-> Top.op, at |-> "stop", thr |-> t,
                 evt |-> IF report[t] THEN why[t] ELSE "end"]
<1>1. /\ At("wait") /\ t \in Known /\ Fetch(t) /\ attached /\ Waitable(t) /\ ctl # <<>>
      /\ ctl' = [ctl EXCEPT ![Len(ctl)] = c] /\ threads' = [threads EXCEPT ![t].stopped = report[t]]
      /\ UNCHANGED <<why, pend, stepping, msg, attached, ending, dying>>
  BY DEF WaitEvent, At, IInv, CallsNested
<1>2. Top \in Calls /\ c \in Calls /\ report[t] \in BOOLEAN /\ why[t] \in Whys
  <2>1. Top \in Calls
    BY <1>1 DEF At, IInv, TypeOK, Top
  <2>2. why[t] \in Whys /\ report[t] \in BOOLEAN
    BY DEF IInv, TypeOK, PtraceTypeOK
  <2> QED BY <2>1, <2>2 DEF Calls
<1>3. ctl' # <<>> /\ Top' = c
  <2>1. c.op = Top.op
    OBVIOUS
  <2> HIDE DEF c
  <2> QED BY <1>1, <1>2, <2>1, TopReplaced DEF IInv, TypeOK
<1>4. /\ \A u \in Threads \ {t} : ks'[u] = ks[u] /\ report'[u] = report[u]
      /\ report'[t] = FALSE
      /\ report[t] => ks[t] = "stop" /\ ks'[t] = "stop"
      /\ ~report[t] => ks[t] = "zombie" /\ ks'[t] = "gone"
  BY <1>1, FetchStops DEF IInv, TypeOK
<1>5. Doomed' /\ BornStopped' /\ (Halting => Halting')
  BY <1>1, FetchHalts DEF IInv, TypeOK, EndInv
<1>6. /\ Known' = Known /\ threads'[t].stopped = report[t]
      /\ \A u \in Known \ {t} : threads'[u].stopped = threads[u].stopped
  BY <1>1 DEF Known, IInv, TypeOK, Entries
<1>7. \A u, e : Dispatching(u, e)' <=> u = t /\ e = c.evt
  BY <1>3 DEF Dispatching
<1>8. \A u, e : ~Dispatching(u, e)
  BY <1>1 DEF At, Dispatching
<1>9. EndIsEnd'
  BY <1>1 DEF EndIsEnd
<1>10. ~ending /\ ~report[t] => t = Main /\ \A u \in Threads \ {Main} : ks[u] \in {"none", "gone"}
  BY <1>1, <1>4 DEF EndInv, NoZombies, Waitable
<1>11. StopsComing'
  <2>1. CASE report[t]
    <3>1. c.evt # "end"
      BY <1>2, <2>1 DEF Whys, SignalStops, TrapStops
    <3> QED BY <1>3, <3>1 DEF StopsComing
  <2>2. CASE ~report[t] /\ ending
    BY <1>1, <1>5, <2>2 DEF StopsComing, Doomed, Halting
  <2>3. CASE ~report[t] /\ ~ending
    BY <1>4, <1>10, <2>3 DEF StopsComing, Halting
  <2> QED BY <1>2, <2>1, <2>2, <2>3
<1>12. StopLasts'
  <2> SUFFICES ASSUME ~ending
               PROVE  /\ c.evt = "end" => ks'[Main] = "gone"
                      /\ c.evt # "end" =>
                           t \in Known /\ ks'[t] = "stop" /\ ~report'[t] /\ why[t] = c.evt
    <3>1. \A e \in Whys : e # "end"
      BY DEF Whys, SignalStops, TrapStops
    <3> QED BY <1>1, <1>6, <1>7, <3>1 DEF StopLasts
  <2>1. CASE report[t]
    BY <1>1, <1>2, <1>4, <2>1 DEF Whys, SignalStops, TrapStops
  <2>2. CASE ~report[t]
    BY <1>4, <1>10, <2>2
  <2> QED BY <1>2, <2>1, <2>2
<1>13. NoZombies'
  <2> SUFFICES ASSUME ~ending PROVE NoZombies'
    BY <1>1 DEF NoZombies
  <2> USE DEF EndInv, NoZombies
  <2>1. Known \subseteq Threads
    BY DEF IInv, TypeOK
  <2>2. ASSUME NEW u \in Known
        PROVE  /\ threads'[u].stopped => ks'[u] \in {"stop", "free"} /\ ~report'[u]
               /\ \/ ks'[u] \in {"run", "stop", "free"}
                  \/ u = Main /\ ks'[u] \in {"zombie", "gone"}
               /\ u # Main /\ ks'[u] = "stop" /\ why'[u] = "exit" =>
                    report'[u] \/ Dispatching(u, "exit")'
    <3>1. CASE u # t
      BY <1>1, <1>4, <1>6, <1>8, <2>1, <3>1
    <3>2. CASE u = t /\ report[t]
      BY <1>1, <1>4, <1>6, <1>7, <3>2
    <3>3. CASE u = t /\ ~report[t]
      BY <1>4, <1>6, <1>10, <3>3
    <3> QED BY <1>2, <3>1, <3>2, <3>3
  <2>3. ASSUME NEW u \in Threads \ Known
        PROVE  ks'[u] \in {"none", "born", "stop"} /\ (report'[u] => why'[u] = "start")
    BY <1>1, <1>4
  <2> QED BY <1>6, <2>2, <2>3
<1>14. ClonesAreNew'
  <2>1. \A u \in Threads : TellsOfClone(u)' => TellsOfClone(u)
    <3>1. \A u \in Threads \ {t} : TellsOfClone(u)' => TellsOfClone(u)
      BY <1>1, <1>4, <1>7 DEF TellsOfClone
    <3>2. TellsOfClone(t)' => TellsOfClone(t)
      BY <1>1, <1>2, <1>4, <1>7 DEF TellsOfClone
    <3> QED BY <3>1, <3>2
  <2>2. \A u \in Threads : msg[u] \in Threads /\ (ks[u] # "none" => ks'[u] # "none")
    BY <1>2, <1>4 DEF IInv, TypeOK, PtraceTypeOK
  <2> QED BY <1>1, <1>6, <2>1, <2>2 DEF EndInv, ClonesAreNew
<1> QED BY <1>5, <1>9, <1>11, <1>12, <1>13, <1>14 DEF EndInv

\* SIGSTOP goes to every thread of the map that runs; no other thread does,
\* but new ones, each with a SIGSTOP of its own.
LEMMA StopAllThreadsEnd == IInv /\ EndInv /\ StopAllThreads => EndInv'
<1> SUFFICES ASSUME IInv, EndInv, StopAllThreads PROVE EndInv'
  OBVIOUS
<1>1. /\ ctl # <<>> /\ Top.at = "stop" /\ Goto("handle")
      /\ UNCHANGED <<ks, why, report, stepping, msg, ending, dying, threads, attached>>
      /\ pend' = pend \/ Top.evt # "end"
      /\ Top.evt # "end" => SignalAll({t \in Known : ~threads[t].stopped})
  BY DEF StopAllThreads, At
<1>2. Top \in Calls /\ ctl' # <<>> /\ Top' = [Top EXCEPT !.at = "handle"]
  BY <1>1, GotoShape DEF IInv, TypeOK, Top
<1>3. Top'.at = "handle" /\ Top'.thr = Top.thr /\ Top'.evt = Top.evt
  BY <1>2 DEF Calls
<1>4. Known' = Known /\ \A u, e : Dispatching(u, e)' <=> Dispatching(u, e)
  BY <1>1, <1>2, <1>3 DEF Dispatching, Known
<1>5. \A u \in Threads : pend[u] \subseteq pend'[u]
  BY <1>1 DEF SignalAll
<1>6. Doomed' /\ BornStopped' /\ (Halting => Halting')
  BY <1>1, <1>5, MoreSignals DEF EndInv
<1>7. Halting'
  <2>1. CASE Top.evt = "end"
    BY <1>1, <1>6, <2>1 DEF EndInv, StopsComing
  <2>2. CASE ending
    BY <1>1, <1>6, <2>2 DEF Doomed, Halting
  <2>3. CASE ~ending /\ Top.evt # "end"
    <3>1. ASSUME NEW u \in Known, ks[u] = "run" PROVE "STOP" \in pend'[u]
      <4>1. ~threads[u].stopped /\ u \in Threads
        BY <2>3, <3>1 DEF EndInv, NoZombies, IInv, TypeOK
      <4> QED BY <1>1, <2>3, <4>1 DEF SignalAll
    <3>2. \A u \in Threads \ Known : ks[u] # "run"
      BY <2>3 DEF EndInv, NoZombies
    <3> QED BY <1>1, <1>6, <3>1, <3>2 DEF Halting, BornStopped
  <2> QED BY <2>1, <2>2, <2>3
<1>8. StopsComing' /\ EndIsEnd'
  BY <1>1, <1>7 DEF StopsComing, EndInv, EndIsEnd
<1>9. StopLasts' /\ NoZombies'
  BY <1>1, <1>4 DEF EndInv, StopLasts, NoZombies
<1>10. ClonesAreNew'
  <2>1. \A u : TellsOfClone(u)' <=> TellsOfClone(u)
    BY <1>1, <1>4 DEF TellsOfClone
  <2> QED BY <1>1, <1>4, <2>1 DEF EndInv, ClonesAreNew
<1> QED BY <1>6, <1>8, <1>9, <1>10 DEF EndInv

\* A detached leader is no longer traced.
LEMMA DetachEnd == IInv /\ EndInv /\ Detach => EndInv'
<1> SUFFICES ASSUME IInv, EndInv, Detach PROVE EndInv'
  OBVIOUS
<1>1. PICK S \in SUBSET {t \in Known : ks[t] = "stop"} :
        /\ Release(S)
        /\ ctl' = <<>> /\ ((attached' = FALSE /\ S = Known) \/ UNCHANGED attached)
  BY DEF Detach, Throw, Idle
<1>2. UNCHANGED <<threads, why, msg, ending>> /\ attached /\ ctl = <<>> /\ Known \subseteq Threads
  BY <1>1 DEF Detach, Idle, Release, IInv, TypeOK
<1>3. /\ Known' = Known /\ (\A u, e : ~Dispatching(u, e)') /\ \A u, e : ~Dispatching(u, e)
  BY <1>1, <1>2 DEF Known, Dispatching
<1>4. /\ \A t \in Threads : t \in S => ks[t] = "stop" /\ ks'[t] = "free" /\ report'[t] = FALSE
      /\ \A t \in Threads : t \notin S => ks'[t] = ks[t] /\ report'[t] = report[t]
  BY <1>1 DEF Release, IInv, TypeOK, PtraceTypeOK
<1>5. Doomed' /\ BornStopped'
  BY <1>1, ReleaseDooms DEF IInv, TypeOK, EndInv
<1>6. StopsComing' /\ StopLasts'
  BY <1>1, <1>3 DEF StopsComing, StopLasts
<1>7. EndIsEnd'
  <2>1. ~ending => Main \in Known
    BY DEF EndInv, NoZombies
  <2> QED BY <1>1, <1>2, <1>4, <2>1, PtraceAssumption DEF EndIsEnd
<1>8. NoZombies'
  <2> SUFFICES ASSUME ~ending PROVE NoZombies'
    BY <1>2 DEF NoZombies
  <2> USE DEF EndInv, NoZombies
  <2>1. ASSUME NEW u \in Known
        PROVE  /\ threads'[u].stopped => ks'[u] \in {"stop", "free"} /\ ~report'[u]
               /\ \/ ks'[u] \in {"run", "stop", "free"}
                  \/ u = Main /\ ks'[u] \in {"zombie", "gone"}
               /\ u # Main /\ ks'[u] = "stop" /\ why'[u] = "exit" => report'[u]
    <3>1. CASE u \in S
      BY <1>2, <1>4, <3>1
    <3>2. CASE u \notin S
      BY <1>2, <1>3, <1>4, <3>2
    <3> QED BY <3>1, <3>2
  <2>2. ASSUME NEW u \in Threads \ Known
        PROVE  ks'[u] \in {"none", "born", "stop"} /\ (report'[u] => why'[u] = "start")
    BY <1>1, <1>2, <1>4
  <2> QED BY <1>3, <2>1, <2>2
<1>9. ClonesAreNew'
  <2>1. \A u \in Threads : TellsOfClone(u)' => TellsOfClone(u)
    BY <1>2, <1>3, <1>4 DEF TellsOfClone
  <2>2. \A u \in Threads : msg[u] \in Threads /\ (ks[u] # "none" => ks'[u] # "none")
    BY <1>4 DEF IInv, TypeOK, PtraceTypeOK
  <2> QED BY <1>2, <1>3, <2>1, <2>2 DEF EndInv, ClonesAreNew
<1> QED BY <1>5, <1>6, <1>7, <1>8, <1>9 DEF EndInv

LEMMA KillEnd == IInv /\ EndInv /\ Kill => EndInv'
<1> SUFFICES ASSUME IInv, EndInv, Kill PROVE EndInv'
  OBVIOUS
<1>1. ending' = TRUE /\ dying' = Living /\ ctl' = <<>> /\ UNCHANGED <<ks, why, pend>>
  BY DEF Kill, KillAll, Idle
<1>2. Doomed' /\ BornStopped'
  BY <1>1 DEF Doomed, BornStopped, EndInv, Living
<1> QED BY <1>1, <1>2 DEF EndInv, StopsComing, StopLasts, NoZombies, ClonesAreNew, EndIsEnd

LEMMA HandleEndEnd == IInv /\ EndInv /\ HandleEnd => EndInv'
<1> SUFFICES ASSUME IInv, EndInv, HandleEnd PROVE EndInv'
  OBVIOUS
<1>1. /\ ctl # <<>> /\ Top.at = "handle" /\ Top.evt = "end" /\ attached' = FALSE
      /\ Return(FALSE) /\ UNCHANGED <<kernel, threads>>
  BY DEF HandleEnd, At
<1>2. Top.thr \in Threads
  <2>1. Top \in Calls
    BY <1>1 DEF IInv, TypeOK, Top
  <2> QED BY <2>1 DEF Calls
<1>3. Halting
  BY <1>1 DEF EndInv, StopsComing
<1>4. EndIsEnd'
  BY <1>1, <1>2 DEF kernel, EndInv, StopLasts, Dispatching, EndIsEnd
<1>5. \A t : ~Dispatching(t, "exit")
  BY <1>1 DEF Dispatching
<1> QED BY <1>1, <1>3, <1>4, <1>5, ReturnedEnd

\* The new thread is in its first stop, whose status is fetched now.
LEMMA HandleCloneEnd == IInv /\ EndInv /\ HandleClone => EndInv'
<1> SUFFICES ASSUME IInv, EndInv, HandleClone PROVE EndInv'
  OBVIOUS
<1> DEFINE t == Top.thr
           new == msg[t]
<1>1. /\ ctl # <<>> /\ Top.at = "handle" /\ Top.evt = "clone" /\ Return(attached)
      /\ Waitable(new) /\ Fetch(new)
      /\ threads' = [u \in Known \cup {new} |->
                       IF u \in Known THEN threads[u] ELSE [stopped |-> TRUE, sig |-> "none"]]
      /\ UNCHANGED <<why, pend, stepping, msg, ending, dying, attached>>
  BY DEF HandleClone, At
<1>2. t \in Threads /\ new \in Threads /\ Known \subseteq Threads
  <2>1. Top \in Calls
    BY <1>1 DEF IInv, TypeOK, Top
  <2> QED BY <2>1 DEF Calls, IInv, TypeOK, PtraceTypeOK
<1> HIDE DEF new, t
<1>3. Doomed' /\ BornStopped' /\ (Halting => Halting')
  BY <1>1, <1>2, FetchHalts DEF IInv, TypeOK, EndInv
<1>4. attached = TRUE
  BY <1>1 DEF IInv, CallsNested, TypeOK
<1>5. ctl' # <<>> => Top'.at = "restore" \/ Top'.at = "cont"
  BY <1>1, <1>4, ReturnShape DEF IInv, TypeOK
<1>6. StopsComing' /\ EndIsEnd'
  BY <1>1, <1>3, <1>4 DEF EndInv, StopsComing, EndIsEnd
<1>7. \A u, e : ~Dispatching(u, e)'
  BY <1>5 DEF Dispatching
<1>8. StopLasts'
  BY <1>7 DEF StopLasts
<1>9. CASE ending
  BY <1>1, <1>3, <1>6, <1>8, <1>9 DEF EndInv, NoZombies, ClonesAreNew
<1>10. CASE ~ending
  <2>1. TellsOfClone(t)
    <3>1. Dispatching(t, "clone") /\ "clone" \in Whys
      BY <1>1 DEF Dispatching, t, Whys
    <3> QED BY <1>2, <1>10, <3>1 DEF EndInv, StopLasts, TellsOfClone
  <2>2. new \notin Known /\ \A u \in Threads : TellsOfClone(u) /\ msg[u] = new => u = t
    BY <1>2, <1>10, <2>1 DEF EndInv, ClonesAreNew, new
  <2>3. /\ ks[new] \in {"none", "born", "stop"}
        /\ report[new] => why[new] = "start"
    BY <1>2, <1>10, <2>2 DEF EndInv, NoZombies
  <2>4. report[new] /\ why[new] = "start" /\ ks[new] = "stop"
    BY <1>1, <1>2, <2>3 DEF Waitable, IInv, StatusOfStop
  <2>5. ks' = ks /\ report'[new] = FALSE /\ \A u \in Threads \ {new} : report'[u] = report[u]
    BY <1>1, <1>2, <2>4 DEF Fetch, IInv, TypeOK, PtraceTypeOK
  <2>6. Known' = Known \cup {new} /\ \A u \in Known : threads'[u] = threads[u]
    BY <1>1 DEF Known
  <2>7. \A u : ~Dispatching(u, "exit")
    BY <1>1 DEF Dispatching
  <2>8. NoZombies'
    <3> USE <1>10 DEF EndInv, NoZombies
    <3>1. ASSUME NEW u \in Known'
          PROVE  /\ threads'[u].stopped => ks'[u] \in {"stop", "free"} /\ ~report'[u]
                 /\ \/ ks'[u] \in {"run", "stop", "free"}
                    \/ u = Main /\ ks'[u] \in {"zombie", "gone"}
                 /\ u # Main /\ ks'[u] = "stop" /\ why'[u] = "exit" => report'[u]
      <4>1. CASE u = new
        BY <1>1, <2>4, <2>5, <4>1
      <4>2. CASE u # new
        <5>1. u \in Known /\ u \in Threads
          BY <1>2, <2>6, <4>2
        <5> QED BY <1>1, <2>5, <2>6, <2>7, <4>2, <5>1
      <4> QED BY <4>1, <4>2
    <3>2. ASSUME NEW u \in Threads \ Known'
          PROVE  ks'[u] \in {"none", "born", "stop"} /\ (report'[u] => why'[u] = "start")
      BY <1>1, <2>5, <2>6
    <3> QED BY <1>2, <2>6, <3>1, <3>2
  <2>9. ClonesAreNew'
    <3>1. \A u \in Threads : TellsOfClone(u)' => TellsOfClone(u) /\ u # t
      <4>1. "clone" # "start"
        OBVIOUS
      <4>2. ~report[t]
        <5>1. Dispatching(t, "clone") /\ "clone" \in Whys
          BY <1>1 DEF Dispatching, t, Whys
        <5> QED BY <1>2, <1>10, <5>1 DEF EndInv, StopLasts
      <4>3. ASSUME NEW u \in Threads, TellsOfClone(u)' PROVE TellsOfClone(u) /\ u # t
        <5>1. ks[u] = "stop" /\ why[u] = "clone" /\ report'[u]
          BY <1>1, <1>7, <2>5, <4>3 DEF TellsOfClone
        <5>2. u # new
          BY <2>5, <5>1
        <5>3. report[u]
          BY <2>5, <5>1, <5>2
        <5> QED BY <4>2, <5>1, <5>3 DEF TellsOfClone
      <4> QED BY <4>3
    <3>2. ASSUME NEW u \in Threads, TellsOfClone(u)'
          PROVE  /\ msg'[u] \notin Known' /\ ks'[msg'[u]] # "none"
                 /\ \A v \in Threads : TellsOfClone(v)' /\ msg'[v] = msg'[u] => v = u
      <4>1. TellsOfClone(u) /\ u # t
        BY <3>1, <3>2
      <4>2. msg[u] \notin Known /\ ks[msg[u]] # "none" /\ msg[u] # new
        BY <1>10, <2>2, <4>1 DEF EndInv, ClonesAreNew
      <4>3. \A v \in Threads : TellsOfClone(v) /\ msg[v] = msg[u] => v = u
        BY <1>10, <4>1 DEF EndInv, ClonesAreNew
      <4> QED BY <1>1, <2>5, <2>6, <3>1, <4>2, <4>3
    <3> QED BY <3>2 DEF ClonesAreNew
  <2> QED BY <1>3, <1>6, <1>8, <2>8, <2>9 DEF EndInv
<1> QED BY <1>9, <1>10

\* The thread that is erased is in its exit stop, and stays there.
LEMMA HandleExitEnd == IInv /\ EndInv /\ HandleExit => EndInv'
<1> SUFFICES ASSUME IInv, EndInv, HandleExit PROVE EndInv'
  OBVIOUS
<1>1. /\ ctl # <<>> /\ Top.at = "handle" /\ Top.evt = "exit" /\ Return(attached)
      /\ UNCHANGED <<ks, why, report, pend, msg, ending, dying, attached>>
      /\ threads' = [u \in Known \ ({Top.thr} \ {Main}) |-> threads[u]]
  BY DEF HandleExit, At, kernel
<1>2. attached = TRUE
  BY <1>1 DEF IInv, CallsNested, TypeOK
<1>3. ctl' # <<>> => Top'.at = "restore" \/ Top'.at = "cont"
  BY <1>1, <1>2, ReturnShape DEF IInv, TypeOK
<1>4. NoDispatch' /\ StopsComing' /\ EndIsEnd'
  BY <1>1, <1>2, <1>3 DEF NoDispatch, EndInv, StopsComing, Halting, EndIsEnd
<1>5. Known' = Known \ ({Top.thr} \ {Main}) /\ \A u \in Known' : threads'[u] = threads[u]
  BY <1>1 DEF Known
<1>6. ~ending => ks[Top.thr] = "stop" /\ ~report[Top.thr]
  <2>1. Top \in Calls
    BY <1>1 DEF IInv, TypeOK, Top
  <2>2. Top.thr \in Threads /\ "exit" \in Whys
    BY <2>1 DEF Calls, Whys
  <2> QED BY <1>1, <2>2 DEF EndInv, StopLasts, Dispatching
<1>7. \A u \in Known' \ {Main} : ~Dispatching(u, "exit")
  BY <1>5 DEF Dispatching
<1>8. Known \subseteq Threads
  BY DEF IInv, TypeOK
<1>9. StopLasts' /\ NoZombies' /\ ClonesAreNew'
  BY <1>1, <1>4, <1>5, <1>6, <1>7, <1>8, SettledEnd DEF EndInv
<1>10. Doomed' /\ BornStopped'
  BY <1>1 DEF EndInv, Doomed, BornStopped
<1> QED BY <1>4, <1>9, <1>10 DEF EndInv

\* Signals noted in the map change nothing of the rest.
LEMMA NotedEnd ==
  ASSUME IInv, EndInv, ctl # <<>>, Top.at \in {"handle", "restore"},
         Top.at = "handle" => Top.evt # "exit",
         Return(attached), UNCHANGED <<kernel, attached>>, Known' = Known,
         \A t \in Known : threads'[t].stopped = threads[t].stopped
  PROVE  EndInv'
<1>1. ctl' # <<>> => Top'.at = "restore" \/ Top'.at = "cont"
  <2>1. attached \in BOOLEAN
    BY DEF IInv, TypeOK
  <2> QED BY <2>1, ReturnShape DEF IInv, TypeOK
<1>2. UNCHANGED <<ks, why, report, pend, msg, ending, dying>>
  BY DEF kernel
<1>3. NoDispatch' /\ StopsComing' /\ EndIsEnd'
  BY <1>1, <1>2 DEF NoDispatch, EndInv, StopsComing, Halting, EndIsEnd
<1>4. \A u : ~Dispatching(u, "exit")
  BY DEF Dispatching
<1>5. StopLasts' /\ NoZombies' /\ ClonesAreNew'
  BY <1>2, <1>3, <1>4, SettledEnd DEF IInv, TypeOK, EndInv
<1>6. Doomed' /\ BornStopped'
  BY <1>2 DEF EndInv, Doomed, BornStopped
<1> QED BY <1>3, <1>5, <1>6 DEF EndInv

LEMMA HandleSignalEnd == IInv /\ EndInv /\ HandleSignal => EndInv'
<1> SUFFICES ASSUME IInv, EndInv, HandleSignal PROVE EndInv'
  OBVIOUS
<1>1. /\ ctl # <<>> /\ Top.at = "handle" /\ Top.evt \notin {"exit", "end"} /\ Return(attached)
      /\ UNCHANGED <<kernel, attached>> /\ Top.thr \in Known
  BY DEF HandleSignal, HandlingSignal, SignalStops, TrapStops, At, IInv, HandlingStopped
<1>2. PICK stop \in Told : IF stop = "BRKPT" THEN UNCHANGED <<evt_ign, threads>>
                           ELSE NotifyAndDeliver(stop)
  BY DEF HandleSignal
<1>3. stop \in SignalStops
  BY DEF Told, SignalStops, TrapStops
<1>4. Known' = Known /\ \A t \in Known : threads'[t].stopped = threads[t].stopped
  <2>1. CASE UNCHANGED threads
    BY <2>1 DEF Known
  <2>2. CASE NotifyAndDeliver(stop)
    BY <1>1, <1>3, <2>2, Delivered DEF IInv
  <2> QED BY <1>2, <2>1, <2>2
<1> QED BY <1>1, <1>4, NotedEnd

LEMMA RestoreEnd == IInv /\ EndInv /\ Restore => EndInv'
<1> SUFFICES ASSUME IInv, EndInv, Restore PROVE EndInv'
  OBVIOUS
<1>1. ctl # <<>> /\ Top.at = "restore" /\ UNCHANGED <<kernel, attached>>
  BY DEF Restore, At
<1>2. CASE Return(attached) /\ UNCHANGED threads
  BY <1>1, <1>2, NotedEnd DEF Known
<1>3. CASE Top.thr \in Known /\ NotifyAndDeliver("BRKPT") /\ Return(attached)
  <2>1. "BRKPT" \in SignalStops
    BY DEF SignalStops, TrapStops
  <2>2. Known' = Known /\ \A t \in Known : threads'[t].stopped = threads[t].stopped
    BY <1>3, <2>1, Delivered DEF IInv
  <2> QED BY <1>1, <1>3, <2>2, NotedEnd
<1>4. CASE UNCHANGED <<ctl, threads>>
  <2>1. UNCHANGED <<ks, why, report, pend, msg, ending, dying, threads, attached, ctl>>
    BY <1>1, <1>4 DEF kernel
  <2>2. Known' = Known /\ Top' = Top
    BY <2>1 DEF Known, Top
  <2>3. NoDispatch' /\ \A u : ~Dispatching(u, "exit")
    BY <1>1, <1>4, <2>2 DEF NoDispatch, Dispatching
  <2>4. StopLasts' /\ NoZombies' /\ ClonesAreNew'
    BY <2>1, <2>3, QuietEnd DEF IInv, EndInv
  <2>5. Doomed' /\ BornStopped' /\ StopsComing' /\ EndIsEnd'
    BY <2>1, <2>2 DEF EndInv, Doomed, BornStopped, StopsComing, Halting, EndIsEnd
  <2> QED BY <2>4, <2>5 DEF EndInv
<1> QED BY <1>2, <1>3, <1>4 DEF Restore

\* While the process lives, only the message of a group stop cannot be had.
LEMMA HandleFailsEnd == IInv /\ EndInv /\ HandleFails => EndInv'
<1> SUFFICES ASSUME IInv, EndInv, HandleFails PROVE EndInv'
  OBVIOUS
<1>1. /\ ctl # <<>> /\ Top.at = "handle" /\ Top.evt # "end"
      /\ \/ ks[Top.thr] # "stop"
         \/ Top.evt = "group stop"
         \/ Top.evt = "clone"
      /\ UNCHANGED <<kernel, threads, attached>>
  BY DEF HandleFails, At
<1>2. PICK e : Throw(e)
  BY DEF HandleFails
<1>3. ~ending => \A t \in Known \ {Main} : ~Dispatching(t, "exit")
  <2> SUFFICES ASSUME ~ending, NEW t \in Known, Dispatching(t, "exit") PROVE FALSE
    OBVIOUS
  <2>1. Top.thr = t /\ Top.evt = "exit" /\ t \in Threads /\ "exit" \in Whys
    BY DEF Dispatching, IInv, TypeOK, Whys
  <2>2. ks[t] = "stop"
    BY <2>1 DEF EndInv, StopLasts
  <2> QED BY <1>1, <2>1, <2>2
<1> QED BY <1>1, <1>2, <1>3, ThrownEnd

\* One case for each action
LEMMA NextEnd == IInv /\ EndInv /\ [Next]_vars => EndInv'
<1> SUFFICES ASSUME IInv, EndInv, [Next]_vars PROVE EndInv'
  OBVIOUS
<1>1. CASE Loop
  BY <1>1, ContThreadEnd, WaitEventEnd, WaitFailsEnd, ContDoneEnd, StopAllThreadsEnd,
     HandleEndEnd, HandleCloneEnd, HandleExitEnd, HandleHitEnd, HandleSignalEnd,
     HandleFailsEnd, RestoreEnd DEF Loop
<1>2. CASE Client
  BY <1>2, RunEnd, PauseEnd, SinglestepEnd, DetachEnd, KillEnd DEF Client
<1>3. CASE UNCHANGED vars
  <2>1. UNCHANGED <<ks, why, report, pend, msg, ending, dying, threads, attached, ctl>>
    BY <1>3 DEF vars, kernel
  <2>2. Known' = Known /\ Top' = Top
    BY <2>1 DEF Known, Top
  <2>3. Doomed' /\ BornStopped' /\ StopsComing' /\ EndIsEnd'
    BY <2>1, <2>2 DEF EndInv, Doomed, BornStopped, StopsComing, Halting, EndIsEnd
  <2>4. \A u, e : Dispatching(u, e)' <=> Dispatching(u, e)
    BY <2>1, <2>2 DEF Dispatching
  <2>5. \A u : TellsOfClone(u)' <=> TellsOfClone(u)
    BY <2>1, <2>4 DEF TellsOfClone
  <2>6. StopLasts' /\ NoZombies'
    BY <2>1, <2>2, <2>4 DEF EndInv, StopLasts, NoZombies
  <2>7. ClonesAreNew'
    BY <2>1, <2>2, <2>5 DEF EndInv, ClonesAreNew
  <2> QED BY <2>3, <2>6, <2>7 DEF EndInv
<1> QED BY <1>1, <1>2, <1>3, EnvironmentEnd DEF Next

-----------------------------------------------------------------------------
(* The theorems                                                            *)

\* The second invariant holds on top of the first.
THEOREM EndInductive == Spec => []EndInv
<1>1. Spec => [](IInv /\ EndInv)
  <2>1. Init => IInv /\ EndInv
    BY InitInv, InitEnd
  <2>2. IInv /\ EndInv /\ [Next]_vars => (IInv /\ EndInv)'
    BY NextInv, NextEnd
  <2> QED BY <2>1, <2>2, PTL DEF Spec
<1> QED BY <1>1, PTL

\* stop_all_threads leaves nobody out: while a listener or a breakpoint handler
\* is called, and while breakpoints are put back, every thread of the target is
\* stopped or about to, those whose clone event nobody has read yet included.
THEOREM EveryoneStops == Spec => []StopRequested
<1>1. EndInv => StopRequested
  BY DEF EndInv, StopsComing, StopRequested, At
<1> QED BY <1>1, EndInductive, PTL

\* No exit of a single thread, status that was missed or failed call makes the
\* debuggee take the process for gone: attached_ is reset for the leader's end,
\* which is everybody's, by detach or by kill.
THEOREM OnlyTheEndEnds == Spec => []EndIsEnd
<1>1. EndInv => EndIsEnd
  BY DEF EndInv
<1> QED BY <1>1, EndInductive, PTL

-----------------------------------------------------------------------------
(* Signals                                                                 *)

\* A step of the target gives a thread a new stop, from which it ran or for
\* which it was born, or leaves it the one it has, if it is not killed.
LEMMA TargetStops ==
  ASSUME PtraceTypeOK, StatusOfStop, Doomed, Target, NEW u \in Threads
  PROVE  \/ /\ why'[u] = why[u] /\ (report'[u] => report[u])
            /\ \/ ks'[u] = ks[u]
               \/ ks[u] = "none" /\ ks'[u] = "born"
               \/ ks[u] = "stop" /\ why[u] # "exit" /\ ks'[u] = "run"
               \/ ks[u] = "stop" /\ why[u] = "exit" /\ ks'[u] = "zombie"
         \/ /\ ks[u] \in {"run", "born"} /\ ks'[u] = "stop"
            /\ ending => why'[u] = "exit"
            /\ ks[u] = "born" => why'[u] \in {"start", "exit"}
<1> DEFINE Stays == /\ why'[u] = why[u] /\ (report'[u] => report[u])
                    /\ \/ ks'[u] = ks[u]
                       \/ ks[u] = "none" /\ ks'[u] = "born"
                       \/ ks[u] = "stop" /\ why[u] # "exit" /\ ks'[u] = "run"
                       \/ ks[u] = "stop" /\ why[u] = "exit" /\ ks'[u] = "zombie"
           Stops == /\ ks[u] \in {"run", "born"} /\ ks'[u] = "stop"
                    /\ ending => why'[u] = "exit"
                    /\ ks[u] = "born" => why'[u] \in {"start", "exit"}
<1>1. CASE ~ending'
  <2>1. ~ending
    BY <1>1, TargetEffect
  <2>2. PICK t \in Threads :
           /\ \A v \in Threads \ {t} :
                /\ report'[v] = report[v] /\ why'[v] = why[v] /\ msg'[v] = msg[v]
                /\ ks'[v] = ks[v] \/ (ks[v] = "none" /\ ks'[v] = "born")
           /\ \/ /\ ks'[t] = ks[t] /\ report'[t] = report[t]
                 /\ why'[t] = why[t] /\ msg'[t] = msg[t]
              \/ /\ ks[t] \in {"run", "born"} /\ ks'[t] = "stop" /\ report'[t] = TRUE
                 /\ ks[t] = "born" => why'[t] = "start"
                 /\ why'[t] = "clone" => ks[msg'[t]] = "none" /\ ks'[msg'[t]] = "born"
    BY <1>1, TargetStep
  <2>3. CASE u # t
    BY <2>2, <2>3
  <2>4. CASE u = t
    BY <2>1, <2>2, <2>4
  <2> QED BY <2>3, <2>4
<1>2. CASE ending'
  <2> DEFINE Goal == Stays \/ Stops
  <2>1. ASSUME NEW t \in Threads, StopFor(t, "exit"), ks[t] \in {"run", "born"} PROVE Goal
    <3>1. CASE u = t
      BY <2>1, <3>1 DEF StopFor, PtraceTypeOK
    <3>2. CASE u # t
      BY <2>1, <3>2 DEF StopFor, PtraceTypeOK
    <3> QED BY <3>1, <3>2
  <2>2. ASSUME NEW t \in Threads, Killed(t) PROVE Goal
    <3>1. CASE /\ ks[t] = "stop" /\ why[t] # "exit" /\ ks' = [ks EXCEPT ![t] = "run"]
               /\ report' = [report EXCEPT ![t] = FALSE] /\ why' = why
      BY <3>1 DEF PtraceTypeOK
    <3>2. CASE /\ ks[t] = "stop" /\ why[t] = "exit" /\ ks' = [ks EXCEPT ![t] = "zombie"]
               /\ report' = [report EXCEPT ![t] = FALSE] /\ why' = why
      BY <3>2 DEF PtraceTypeOK
    <3> HIDE DEF Goal
    <3> QED BY <2>1, <2>2, <3>1, <3>2 DEF Killed
  <2>3. CASE \E t \in Threads : ExitGroup(t)
    BY <2>1, <2>3 DEF ExitGroup, Running
  <2>4. CASE \E t \in Threads : Killed(t)
    BY <2>2, <2>4
  <2>5. ASSUME ending, NEW t \in Threads PROVE ~(ks[t] \in {"run", "born"} /\ t \notin dying)
    BY <2>5 DEF Doomed
  <2>6. CASE \E t \in Threads, s \in Signals : Raise(t, s)
    BY <2>6 DEF Raise
  <2>7. ASSUME NEW t \in Threads
        PROVE  ~TakeSignal(t) /\ ~Start(t) /\ ~Execute(t) /\ ~Clone(t) /\ ~ExitThread(t)
    BY <1>2, <2>5 DEF TakeSignal, Start, Execute, Clone, ExitThread, Running
  <2> HIDE DEF Goal
  <2>8. Goal
    <3>1. PICK t \in Threads :
            \/ \E s \in Signals : Raise(t, s)
            \/ TakeSignal(t) \/ Start(t) \/ Execute(t) \/ Clone(t)
            \/ ExitThread(t) \/ ExitGroup(t) \/ Killed(t)
      BY DEF Target
    <3> QED BY <2>3, <2>4, <2>6, <2>7, <3>1 DEF Goal
  <2> QED BY <2>8 DEF Goal
<1> QED BY <1>1, <1>2 DEF PtraceTypeOK

\* What is known of the kernel when a thread is resumed
LEMMA ResumeStops ==
  ASSUME PtraceTypeOK, NEW t \in Threads, NEW sig, NEW step, Resume(t, sig, step)
  PROVE  /\ why' = why /\ report'[t] = FALSE
         /\ \A u \in Threads \ {t} : ks'[u] = ks[u] /\ report'[u] = report[u]
         /\ \/ ks'[t] = "zombie" /\ why[t] = "exit"
            \/ ks'[t] = "run" /\ why[t] # "exit"
BY DEF Resume, PtraceTypeOK, SignalStops, TrapStops

\* A call that returns was about the thread its caller is about.
LEMMA ReturnThread ==
  ASSUME ctl \in Seq(Calls), CallsNested, OneThread, ctl # <<>>, NEW still \in BOOLEAN, Return(still)
  PROVE  OneThread' /\ (ctl' # <<>> => Top'.thr = Top.thr)
<1> DEFINE n == Len(ctl)
           outer == SubSeq(ctl, 1, n - 1)
<1>1. n \in Nat \ {0} /\ Top \in Calls /\ (Top.op = "bp" <=> n > 1)
  BY DEF CallsNested, Top
<1>2. /\ outer \in Seq(Calls) /\ Len(outer) = n - 1
      /\ \A i \in 1..n-1 : outer[i] = ctl[i]
  BY FrontOf
<1>3. \A i \in 1..n : ctl[i].thr = Top.thr
  BY DEF OneThread
<1>4. ctl' \in Seq(Calls)
  BY ReturnShape
<1>5. \A i \in DOMAIN ctl' : ctl'[i].thr = Top.thr
  <2>1. CASE Top.op = "bp"
    <3> DEFINE c == [outer[n-1] EXCEPT !.at = "restore"]
    <3>1. ctl' = [outer EXCEPT ![n-1] = c]
      BY <1>1, <1>2, <2>1 DEF Return
    <3>2. outer[n-1] \in Calls /\ outer[n-1].thr = Top.thr
      BY <1>1, <1>2, <1>3, <2>1
    <3>3. c.thr = Top.thr
      BY <3>2 DEF Calls
    <3> HIDE DEF c, outer
    <3>4. DOMAIN ctl' = 1..n-1
      BY <1>2, <3>1
    <3>5. \A i \in 1..n-1 : ctl'[i] = IF i = n - 1 THEN c ELSE outer[i]
      BY <1>1, <1>2, <3>1
    <3>6. \A i \in 1..n-1 : outer[i].thr = Top.thr
      BY <1>1, <1>2, <1>3
    <3> HIDE DEF n
    <3> QED BY <3>3, <3>4, <3>5, <3>6
  <2>2. CASE Top.op = "run" /\ still
    <3> DEFINE c == [Top EXCEPT !.at = "cont"]
    <3>1. ctl' = [ctl EXCEPT ![n] = c]
      BY <2>2 DEF Return, Top
    <3>2. c.thr = Top.thr
      BY <1>1 DEF Calls
    <3> HIDE DEF c
    <3> QED BY <1>1, <1>3, <3>1, <3>2
  <2>3. CASE Top.op \in {"step", "pause"} \/ (Top.op = "run" /\ ~still)
    <3>1. ctl' = outer
      BY <2>3 DEF Return
    <3> HIDE DEF outer
    <3> QED BY <1>2, <1>3, <3>1
  <2> QED BY <1>1, <2>1, <2>2, <2>3 DEF Calls
<1>6. ctl' # <<>> => Len(ctl') \in DOMAIN ctl'
  BY <1>4
<1> QED BY <1>5, <1>6 DEF OneThread, Top

\* The members of late that no step but Restore adds to
KeepsLate == \A t \in Threads : t \in late' <=> t \in late /\ ~Restarted(t)

\* A step that leaves the map alone, gives no thread another stop, and handles
\* no signal to the end leaves the signals noted.
LEMMA KeepsSignals ==
  ASSUME TypeOK, SignalsNoted, KeepsLate, UNCHANGED threads,
         \A t \in Threads : why'[t] = why[t] /\ (report'[t] => report[t])
                             /\ (ks'[t] = "stop" => ks[t] = "stop"),
         \A t \in Known : Handling(t) =>
           Handling(t)' \/ why[t] \notin DeliveredStops \/ ks[t] # "stop"
  PROVE  SignalsNoted'
<1>1. Known' = Known /\ Known \subseteq Threads
  BY DEF Known, TypeOK
<1>2. \A t \in Known : t \in late' <=> t \in late
  BY <1>1 DEF KeepsLate, Restarted
<1>3. ASSUME NEW t \in Known, SignalNoted(t) PROVE SignalNoted(t)'
  BY <1>1, <1>2, <1>3 DEF SignalNoted
<1> QED BY <1>1, <1>3 DEF SignalsNoted

LEMMA InitSignal == MCInit => SignalInv
<1> SUFFICES ASSUME MCInit PROVE SignalInv
  OBVIOUS
<1>1. /\ ctl = <<>> /\ late = {}
      /\ \A t \in Threads : /\ ks[t] \in {"stop", "none"} /\ why[t] = "exec" /\ report[t] = FALSE
      /\ \A t \in Known : threads[t].sig = "none"
  <2>1. PICK S \in SUBSET Threads : threads \in [S -> {[stopped |-> TRUE, sig |-> "none"]}]
    BY DEF MCInit, Init
  <2>2. \A t \in Known : threads[t].sig = "none"
    BY <2>1 DEF Known
  <2> QED BY <2>2 DEF MCInit, Init
<1>2. Known \subseteq Threads
  BY InitInv DEF MCInit, IInv, TypeOK
<1> QED BY <1>1, <1>2 DEF SignalInv, ExitIsLast, StrangersNew, OneThread, EventsTold, SteppedBack,
                          SignalsNoted, SignalNoted, DeliveredStops, SignalStops, TrapStops

\* A new stop finds the entry of its thread reset, for it has been resumed.
LEMMA EnvironmentSignal == IInv /\ EndInv /\ SignalInv /\ KeepsLate /\ Environment => SignalInv'
<1> SUFFICES ASSUME IInv, EndInv, SignalInv, KeepsLate, Environment PROVE SignalInv'
  OBVIOUS
<1> DEFINE Stays(u) == /\ why'[u] = why[u] /\ (report'[u] => report[u])
                       /\ \/ ks'[u] = ks[u]
                          \/ ks[u] = "none" /\ ks'[u] = "born"
                          \/ ks[u] = "stop" /\ why[u] # "exit" /\ ks'[u] = "run"
                          \/ ks[u] = "stop" /\ why[u] = "exit" /\ ks'[u] = "zombie"
           Stops(u) == /\ ks[u] \in {"run", "born"} /\ ks'[u] = "stop"
                       /\ ending => why'[u] = "exit"
                       /\ ks[u] = "born" => why'[u] \in {"start", "exit"}
<1>1. /\ UNCHANGED <<threads, evt_ign, ctl>> /\ Known' = Known /\ Top' = Top
      /\ Known \subseteq Threads
  BY DEF Environment, Known, Top, IInv, TypeOK
<1>2. \A u \in Threads : Stays(u) \/ Stops(u)
  BY TargetStops DEF Environment, IInv, TypeOK, EndInv
<1>3. \A u \in Known : (u \in late' <=> u \in late) /\ (Handling(u)' <=> Handling(u))
  BY <1>1 DEF KeepsLate, Restarted, Handling
<1>4. ExitIsLast /\ ExitIsLast'
  BY <1>2 DEF SignalInv, ExitIsLast
<1>5. StrangersNew'
  <2> SUFFICES ASSUME NEW u \in Threads \ Known PROVE why'[u] \in {"exec", "start", "exit"}
    BY <1>1 DEF StrangersNew
  <2>1. CASE Stays(u)
    BY <2>1 DEF SignalInv, StrangersNew
  <2>2. CASE Stops(u) /\ ~ending
    <3>1. ks[u] \in {"none", "born", "stop"}
      BY <2>2 DEF EndInv, NoZombies
    <3> QED BY <2>2, <3>1
  <2>3. CASE Stops(u) /\ ending
    BY <2>3
  <2> QED BY <1>2, <2>1, <2>2, <2>3
<1>6. OneThread'
  BY <1>1 DEF SignalInv, OneThread
<1>7. Top \in Calls \/ ctl = <<>>
  BY DEF IInv, TypeOK, Top
<1>8. EventsTold'
  <2> SUFFICES ASSUME ctl # <<>>, Top.at \in {"stop", "handle"}
               PROVE  /\ why'[Top.thr] \in {Top.evt, "exit"}
                      /\ Top.thr \in late' => why'[Top.thr] = "exit"
                      /\ Top.at = "handle" => evt_ign = FALSE
                      /\ Top.thr \in Known /\ why'[Top.thr] # "exit" => threads[Top.thr].sig = "none"
    BY <1>1 DEF EventsTold
  <2>1. Top.thr \in Threads /\ why[Top.thr] \in Whys
    BY <1>7 DEF Calls, IInv, TypeOK, PtraceTypeOK
  <2>2. /\ why[Top.thr] \in {Top.evt, "exit"}
        /\ Top.thr \in late => why[Top.thr] = "exit"
        /\ Top.at = "handle" => evt_ign = FALSE
        /\ Top.thr \in Known /\ why[Top.thr] # "exit" => threads[Top.thr].sig = "none"
    BY DEF SignalInv, EventsTold
  <2>3. Top.thr \in late' => Top.thr \in late
    BY <2>1 DEF KeepsLate
  <2>4. CASE Stays(Top.thr)
    BY <2>2, <2>3, <2>4
  <2>5. CASE Stops(Top.thr)
    <3>1. why[Top.thr] = Top.evt
      BY <1>4, <2>1, <2>2, <2>5 DEF ExitIsLast
    <3>2. ending
      BY <2>1, <2>5, <3>1 DEF EndInv, StopLasts, Dispatching
    <3> QED BY <2>2, <2>5, <3>2
  <2> QED BY <1>2, <2>1, <2>4, <2>5
<1>9. SteppedBack'
  <2> SUFFICES ASSUME ctl # <<>>, Top.at = "restore", Top.thr \in Known
               PROVE  threads[Top.thr].stopped \/ why'[Top.thr] = "exit"
    BY <1>1 DEF SteppedBack
  <2>1. threads[Top.thr].stopped \/ why[Top.thr] = "exit"
    BY DEF SignalInv, SteppedBack
  <2> QED BY <1>1, <1>2, <1>4, <2>1 DEF ExitIsLast
<1>10. SignalsNoted'
  <2> SUFFICES ASSUME NEW u \in Known PROVE why'[u] = "exit" \/ SignalNoted(u)'
    BY <1>1 DEF SignalsNoted
  <2>1. why[u] = "exit" \/ SignalNoted(u)
    BY DEF SignalInv, SignalsNoted
  <2>2. CASE Stays(u)
    BY <1>1, <1>3, <2>1, <2>2 DEF SignalNoted
  <2>3. CASE Stops(u) /\ ~ending
    <3>1. why[u] # "exit"
      BY <1>1, <1>4, <2>3 DEF ExitIsLast
    <3>2. threads[u] \in Entries /\ ~threads[u].stopped
      BY <2>3 DEF EndInv, NoZombies, IInv, TypeOK
    <3> QED BY <1>1, <1>3, <2>1, <3>1, <3>2 DEF SignalNoted
  <2>4. CASE Stops(u) /\ ending
    BY <2>4
  <2> QED BY <1>1, <1>2, <2>2, <2>3, <2>4
<1> QED BY <1>4, <1>5, <1>6, <1>8, <1>9, <1>10 DEF SignalInv

\* A thread that is resumed leaves its signal behind.
LEMMA RestartSignal ==
  ASSUME IInv, SignalInv, KeepsLate, NEW t \in Known, NEW step \in BOOLEAN, Restart(t, step),
         threads[t].stopped, ctl' = <<>> \/ Top'.at \in {"cont", "wait"}, OneThread',
         \A u \in Known \ {t} : ~Handling(u)
  PROVE  SignalInv'
<1>1. t \in Threads /\ Known \subseteq Threads /\ PtraceTypeOK
  BY DEF IInv, TypeOK
<1>2. /\ why' = why /\ report'[t] = FALSE
      /\ \A u \in Threads \ {t} : ks'[u] = ks[u] /\ report'[u] = report[u]
      /\ \/ ks'[t] = "zombie" /\ why[t] = "exit"
         \/ ks'[t] = "run" /\ why[t] # "exit"
  BY <1>1, ResumeStops DEF Restart
<1>3. /\ Known' = Known /\ threads'[t].stopped = FALSE /\ threads'[t].sig = "none"
      /\ \A u \in Known \ {t} : threads'[u] = threads[u]
  BY DEF Restart, Known, IInv, TypeOK
<1>4. t \notin late' /\ \A u \in Known \ {t} : u \in late' <=> u \in late
  BY <1>1, <1>3 DEF KeepsLate, Restarted, Known
<1>5. ExitIsLast' /\ StrangersNew'
  BY <1>1, <1>2, <1>3 DEF SignalInv, ExitIsLast, StrangersNew
<1>6. EventsTold' /\ SteppedBack'
  BY DEF EventsTold, SteppedBack
<1>7. SignalsNoted'
  <2>1. SignalNoted(t)'
    BY <1>3, <1>4 DEF SignalNoted
  <2>2. ASSUME NEW u \in Known \ {t} PROVE why'[u] = "exit" \/ SignalNoted(u)'
    <3>1. why[u] = "exit" \/ SignalNoted(u)
      BY DEF SignalInv, SignalsNoted
    <3> QED BY <1>1, <1>2, <1>3, <1>4, <3>1 DEF SignalNoted
  <2> QED BY <1>3, <2>1, <2>2 DEF SignalsNoted
<1> QED BY <1>5, <1>6, <1>7 DEF SignalInv

\* A step without an event in hand before or after
LEMMA IdleSignal ==
  ASSUME IInv, SignalInv, KeepsLate, UNCHANGED <<ks, why, report, threads>>,
         \A t \in Known : Handling(t) => why[t] \notin DeliveredStops \/ ks[t] # "stop",
         ctl' = <<>> \/ Top'.at \in {"cont", "wait"}, OneThread'
  PROVE  SignalInv'
<1>1. Known' = Known
  BY DEF Known
<1>2. SignalsNoted'
  BY KeepsSignals DEF IInv, SignalInv
<1> QED BY <1>1, <1>2 DEF SignalInv, ExitIsLast, StrangersNew, EventsTold, SteppedBack

LEMMA ThrownSignal ==
  ASSUME IInv, SignalInv, KeepsLate, UNCHANGED <<kernel, threads>>, NEW e, Throw(e),
         \A t \in Known : Handling(t) => why[t] \notin DeliveredStops \/ ks[t] # "stop"
  PROVE  SignalInv'
<1>1. ctl' = <<>> /\ UNCHANGED <<ks, why, report>>
  BY DEF Throw, kernel
<1>2. OneThread'
  BY <1>1 DEF OneThread
<1> QED BY <1>1, <1>2, IdleSignal

\* A new call is about the thread of the call it is nested in.
LEMMA PushThread ==
  ASSUME ctl \in Seq(Calls), OneThread, NEW op \in {"run", "pause", "step", "bp"},
         NEW at \in {"cont", "wait"}, NEW t \in Threads, Push(op, at, t), ctl # <<>> => t = Top.thr
  PROVE  OneThread'
<1> DEFINE c == [op |-> op, at |-> at, thr |-> t, evt |-> "none"]
<1>1. c \in Calls /\ c.thr = t
  BY DEF Calls
<1>2. ctl' = Append(ctl, c)
  BY DEF Push
<1> HIDE DEF c
<1>3. Len(ctl') = Len(ctl) + 1 /\ ctl'[Len(ctl) + 1] = c /\ DOMAIN ctl' = 1..Len(ctl) + 1
  BY <1>1, <1>2
<1>4. \A i \in 1..Len(ctl) : ctl'[i] = ctl[i] /\ ctl[i].thr = Top.thr
  BY <1>1, <1>2 DEF OneThread
<1>5. Len(ctl) \in Nat /\ (Len(ctl) # 0 => ctl # <<>>)
  OBVIOUS
<1> QED BY <1>1, <1>3, <1>4, <1>5 DEF OneThread, Top

LEMMA RunSignal == IInv /\ SignalInv /\ KeepsLate /\ Run => SignalInv'
<1> SUFFICES ASSUME IInv, SignalInv, KeepsLate, Run PROVE SignalInv'
  OBVIOUS
<1>1. Top'.at = "cont" /\ OneThread'
  BY PushShape, PushThread, PtraceAssumption DEF Run, Idle, IInv, TypeOK, SignalInv
<1> QED BY <1>1, IdleSignal DEF Run, Idle, kernel, Handling

LEMMA PauseSignal == IInv /\ SignalInv /\ KeepsLate /\ Pause => SignalInv'
<1> SUFFICES ASSUME IInv, SignalInv, KeepsLate, Pause PROVE SignalInv'
  OBVIOUS
<1>1. Top'.at = "wait" /\ OneThread'
  BY PushShape, PushThread, PtraceAssumption DEF Pause, Idle, IInv, TypeOK, SignalInv
<1> QED BY <1>1, IdleSignal DEF Pause, Idle, Handling

\* Moving the innermost call on keeps it about its thread and its event.
LEMMA GotoThread ==
  ASSUME IInv, OneThread, ctl # <<>>, NEW p \in {"wait", "handle"}, Goto(p)
  PROVE  OneThread' /\ ctl' # <<>> /\ Top'.at = p /\ Top'.thr = Top.thr /\ Top'.evt = Top.evt
<1> DEFINE c == [Top EXCEPT !.at = p]
<1>1. Top \in Calls /\ Len(ctl) \in Nat \ {0}
  BY DEF IInv, TypeOK, Top
<1>2. c.thr = Top.thr /\ c.evt = Top.evt /\ c.at = p
  BY <1>1 DEF Calls
<1>3. ctl' = [ctl EXCEPT ![Len(ctl)] = c]
  BY DEF Goto, Top
<1>4. ctl' # <<>> /\ Top' = c
  BY GotoShape DEF IInv, TypeOK
<1> HIDE DEF c
<1>5. \A i \in DOMAIN ctl' : i \in DOMAIN ctl /\ (ctl'[i] = ctl[i] \/ ctl'[i] = c)
  BY <1>1, <1>3 DEF IInv, TypeOK
<1> QED BY <1>2, <1>4, <1>5 DEF OneThread

LEMMA ContDoneSignal == IInv /\ SignalInv /\ KeepsLate /\ ContDone => SignalInv'
<1> SUFFICES ASSUME IInv, SignalInv, KeepsLate, ContDone PROVE SignalInv'
  OBVIOUS
<1>1. Top'.at = "wait" /\ OneThread'
  BY GotoThread DEF ContDone, At, SignalInv
<1>2. \A t : ~Handling(t)
  BY DEF ContDone, At, Handling
<1> QED BY <1>1, <1>2, IdleSignal DEF ContDone, kernel

LEMMA StepThreadSignal ==
  ASSUME IInv, SignalInv, KeepsLate, NEW t \in Threads, NEW op \in {"step", "bp"},
         StepThread(t, op), op = "bp" <=> ctl # <<>>, ctl # <<>> => t = Top.thr
  PROVE  SignalInv'
<1>1. \A u \in Known \ {t} : ~Handling(u)
  BY DEF Handling
<1>2. CASE ks[t] = "stop" /\ Restart(t, TRUE) /\ Push(op, "wait", t)
  <2>1. Top'.at = "wait"
    BY <1>2, PushShape DEF IInv, TypeOK
  <2>2. OneThread'
    BY <1>2, PushThread DEF IInv, TypeOK, SignalInv
  <2> QED BY <1>1, <1>2, <2>1, <2>2, RestartSignal DEF StepThread
<1>3. CASE ks[t] # "stop" /\ Throw("ESRCH") /\ UNCHANGED <<kernel, threads>>
  BY <1>1, <1>3, ThrownSignal
<1> QED BY <1>2, <1>3 DEF StepThread

LEMMA SinglestepSignal ==
  ASSUME IInv, SignalInv, KeepsLate, NEW t \in Threads, Singlestep(t) PROVE SignalInv'
BY StepThreadSignal DEF Singlestep, Idle

LEMMA HandleHitSignal == IInv /\ SignalInv /\ KeepsLate /\ HandleHit => SignalInv'
<1> SUFFICES ASSUME IInv, SignalInv, KeepsLate, HandleHit PROVE SignalInv'
  OBVIOUS
<1>1. ctl # <<>> /\ StepThread(Top.thr, "bp")
  BY DEF HandleHit, HandlingSignal, At
<1>2. Top.thr \in Threads
  <2>1. Top \in Calls
    BY <1>1 DEF IInv, TypeOK, Top
  <2> QED BY <2>1 DEF Calls
<1> QED BY <1>1, <1>2, StepThreadSignal

LEMMA ContThreadSignal ==
  ASSUME IInv, SignalInv, KeepsLate, NEW t \in Threads, ContThread(t) PROVE SignalInv'
<1>1. t \in Known /\ threads[t].stopped /\ \A u : ~Handling(u)
  BY DEF ContThread, At, Handling
<1>2. CASE Restart(t, FALSE) /\ UNCHANGED ctl
  <2>1. Top'.at = "cont" /\ OneThread'
    BY <1>2 DEF ContThread, At, Top, SignalInv, OneThread
  <2> QED BY <1>1, <1>2, <2>1, RestartSignal
<1>3. CASE Throw("ESRCH") /\ UNCHANGED <<kernel, threads>>
  BY <1>1, <1>3, ThrownSignal
<1> QED BY <1>2, <1>3 DEF ContThread

LEMMA WaitFailsSignal ==
  ASSUME IInv, SignalInv, KeepsLate, NEW t \in Threads, WaitFails(t) PROVE SignalInv'
<1>1. \A u : ~Handling(u)
  BY DEF WaitFails, At, Handling
<1> QED BY <1>1, ThrownSignal DEF WaitFails

\* Detached threads have no stop left whose signal could be delivered.
LEMMA DetachSignal == IInv /\ SignalInv /\ KeepsLate /\ Detach => SignalInv'
<1> SUFFICES ASSUME IInv, SignalInv, KeepsLate, Detach PROVE SignalInv'
  OBVIOUS
<1>1. PICK S \in SUBSET {t \in Known : ks[t] = "stop"} : Release(S) /\ ctl' = <<>>
  BY DEF Detach, Throw, Idle
<1>2. UNCHANGED <<threads, why>> /\ ctl = <<>> /\ Known' = Known
  BY <1>1 DEF Detach, Idle, Release, Known
<1>3. \A t \in Threads : \/ ks'[t] = "free" /\ ks[t] = "stop" /\ report'[t] = FALSE
                         \/ ks'[t] = ks[t] /\ report'[t] = report[t]
  BY <1>1 DEF Release, IInv, TypeOK, PtraceTypeOK
<1>4. SignalsNoted'
  <2>1. \A t : ~Handling(t)
    BY <1>2 DEF Handling
  <2> QED BY <1>2, <1>3, <2>1, KeepsSignals DEF IInv, SignalInv
<1>5. ExitIsLast' /\ StrangersNew'
  BY <1>2, <1>3 DEF SignalInv, ExitIsLast, StrangersNew
<1> QED BY <1>1, <1>4, <1>5 DEF SignalInv, OneThread, EventsTold, SteppedBack

LEMMA KillSignal == IInv /\ SignalInv /\ KeepsLate /\ Kill => SignalInv'
<1> SUFFICES ASSUME IInv, SignalInv, KeepsLate, Kill PROVE SignalInv'
  OBVIOUS
<1>1. ctl = <<>> /\ ctl' = <<>> /\ UNCHANGED <<ks, why, report, threads>>
  BY DEF Kill, KillAll, Idle
<1>2. OneThread' /\ \A t : ~Handling(t)
  BY <1>1 DEF OneThread, Handling
<1> QED BY <1>1, <1>2, IdleSignal

\* The status fetched is that of a stop whose signal is not noted yet.
LEMMA WaitEventSignal ==
  ASSUME IInv, SignalInv, KeepsLate, NEW t \in Threads, WaitEvent(t) PROVE SignalInv'
<1> DEFINE c == [op |-> Top.op, at |-> "stop", thr |-> t,
                 evt |-> IF report[t] THEN why[t] ELSE "end"]
<1>1. /\ At("wait") /\ t \in Known /\ Fetch(t) /\ Waitable(t) /\ ctl # <<>>
      /\ Top.op = "bp" => t = Top.thr
      /\ ctl' = [ctl EXCEPT ![Len(ctl)] = c] /\ threads' = [threads EXCEPT ![t].stopped = report[t]]
      /\ UNCHANGED <<why, evt_ign>> /\ Known \subseteq Threads
  BY DEF WaitEvent, At, IInv, TypeOK
<1>2. Top \in Calls /\ c \in Calls /\ report[t] \in BOOLEAN /\ Len(ctl) \in Nat \ {0}
  <2>1. Top \in Calls /\ Len(ctl) \in Nat \ {0}
    BY <1>1 DEF IInv, TypeOK, Top
  <2>2. why[t] \in Whys /\ report[t] \in BOOLEAN
    BY DEF IInv, TypeOK, PtraceTypeOK
  <2> QED BY <2>1, <2>2 DEF Calls
<1>3. ctl' # <<>> /\ Top' = c
  <2>1. c.op = Top.op
    OBVIOUS
  <2> HIDE DEF c
  <2> QED BY <1>1, <1>2, <2>1, TopReplaced DEF IInv, TypeOK
<1>4. /\ \A u \in Threads \ {t} : ks'[u] = ks[u] /\ report'[u] = report[u]
      /\ report'[t] = FALSE
      /\ report[t] => ks[t] = "stop" /\ ks'[t] = "stop"
      /\ ~report[t] => ks[t] = "zombie" /\ ks'[t] = "gone"
  BY <1>1, FetchStops DEF IInv, TypeOK
<1>5. ~report[t] => why[t] = "exit"
  <2>1. \A u \in Threads : ks[u] = "zombie" => why[u] = "exit"
    BY DEF SignalInv, ExitIsLast
  <2> QED BY <1>4, <2>1
<1>6. /\ Known' = Known /\ threads'[t].stopped = report[t] /\ threads'[t].sig = threads[t].sig
      /\ \A u \in Known \ {t} : threads'[u] = threads[u]
  BY <1>1 DEF Known, IInv, TypeOK, Entries
<1>7. why[t] # "exit" => ~threads[t].stopped /\ threads[t].sig = "none" /\ t \notin late
  BY <1>1, <1>5 DEF SignalInv, SignalsNoted, SignalNoted
<1>8. \A u \in Known \ {t} : u \in late' <=> u \in late
  BY <1>1, <1>6 DEF KeepsLate, Restarted
<1>9. ExitIsLast' /\ StrangersNew'
  BY <1>1, <1>4, <1>5, <1>6 DEF SignalInv, ExitIsLast, StrangersNew
<1>10. OneThread'
  <2>1. c.thr = t
    OBVIOUS
  <2> HIDE DEF c
  <2>2. Len(ctl) # 1 => t = Top.thr
    <3>1. Len(ctl) \in DOMAIN ctl /\ Top = ctl[Len(ctl)]
      BY <1>2 DEF Top, IInv, TypeOK
    <3>2. ctl[Len(ctl)].op = "bp" <=> Len(ctl) > 1
      BY <3>1 DEF IInv, CallsNested
    <3>3. \A n \in Nat \ {0} : n # 1 => n > 1
      OBVIOUS
    <3>4. Len(ctl) # 1 => Len(ctl) > 1
      BY <1>2, <3>3, Zenon
    <3> QED BY <1>1, <3>1, <3>2, <3>4, Zenon
  <2>3. /\ DOMAIN ctl' = DOMAIN ctl /\ DOMAIN ctl = 1..Len(ctl)
        /\ \A i \in DOMAIN ctl : ctl'[i] = IF i = Len(ctl) THEN c ELSE ctl[i]
    BY <1>1, <1>2 DEF IInv, TypeOK
  <2>4. ASSUME NEW i \in DOMAIN ctl' PROVE ctl'[i].thr = t
    <3>1. CASE i = Len(ctl)
      BY <2>1, <2>3, <3>1
    <3>2. CASE i # Len(ctl)
      <4>1. Len(ctl) # 1
        BY <1>2, <2>3, <2>4, <3>2
      <4> QED BY <2>2, <2>3, <2>4, <3>2, <4>1 DEF SignalInv, OneThread
    <3> QED BY <3>1, <3>2
  <2> QED BY <1>3, <2>1, <2>4 DEF OneThread
<1>11. EventsTold' /\ SteppedBack'
  <2>1. why[t] \in {c.evt, "exit"}
    BY <1>2, <1>5
  <2>2. t \in late' => why[t] = "exit"
    BY <1>7 DEF KeepsLate
  <2>3. why[t] # "exit" => threads'[t].sig = "none"
    BY <1>6, <1>7
  <2>4. Top'.thr = t /\ Top'.evt = c.evt /\ Top'.at = "stop"
    BY <1>3
  <2> HIDE DEF c
  <2> QED BY <1>1, <2>1, <2>2, <2>3, <2>4 DEF EventsTold, SteppedBack
<1>12. SignalsNoted'
  <2>1. why[t] # "exit" => SignalNoted(t)'
    <3>1. Handling(t)'
      BY <1>3 DEF Handling
    <3>2. t \in late' => t \in late
      BY DEF KeepsLate
    <3> QED BY <1>4, <1>6, <1>7, <3>1, <3>2 DEF SignalNoted
  <2>2. ASSUME NEW u \in Known \ {t} PROVE why'[u] = "exit" \/ SignalNoted(u)'
    <3>1. why[u] = "exit" \/ SignalNoted(u)
      BY DEF SignalInv, SignalsNoted
    <3>2. ~Handling(u)
      BY <1>1 DEF At, Handling
    <3> QED BY <1>1, <1>4, <1>6, <1>8, <3>1, <3>2 DEF SignalNoted
  <2> QED BY <1>1, <1>6, <2>1, <2>2 DEF SignalsNoted
<1> QED BY <1>9, <1>10, <1>11, <1>12 DEF SignalInv

\* Each dispatch begins with a listener that has discarded nothing.
LEMMA StopAllThreadsSignal == IInv /\ SignalInv /\ KeepsLate /\ StopAllThreads => SignalInv'
<1> SUFFICES ASSUME IInv, SignalInv, KeepsLate, StopAllThreads PROVE SignalInv'
  OBVIOUS
<1>1. /\ ctl # <<>> /\ Top.at = "stop" /\ Goto("handle") /\ evt_ign' = FALSE
      /\ UNCHANGED <<ks, why, report, threads>> /\ Known' = Known
  BY DEF StopAllThreads, At, Known
<1>2. OneThread' /\ ctl' # <<>> /\ Top'.at = "handle" /\ Top'.thr = Top.thr /\ Top'.evt = Top.evt
  BY <1>1, GotoThread DEF SignalInv
<1>3. SignalsNoted'
  <2>1. \A t : Handling(t) => Handling(t)'
    BY <1>1, <1>2 DEF Handling
  <2> QED BY <1>1, <2>1, KeepsSignals DEF IInv, SignalInv
<1>4. EventsTold'
  <2>1. Top \in Calls
    BY <1>1 DEF IInv, TypeOK, Top
  <2>2. Top.thr \in late' => Top.thr \in late
    BY <2>1 DEF Calls, KeepsLate
  <2> QED BY <1>1, <1>2, <2>2 DEF SignalInv, EventsTold
<1>5. ExitIsLast' /\ StrangersNew' /\ SteppedBack'
  BY <1>1, <1>2 DEF SignalInv, ExitIsLast, StrangersNew, SteppedBack
<1> QED BY <1>2, <1>3, <1>4, <1>5 DEF SignalInv

\* A call that returns handles no event any more, and its thread has stopped.
LEMMA ReturnedSignal ==
  ASSUME IInv, SignalInv, ctl # <<>>, NEW still \in BOOLEAN, Return(still), UNCHANGED why,
         Top.thr \in Known' => threads'[Top.thr].stopped \/ why[Top.thr] = "exit"
  PROVE  OneThread' /\ EventsTold' /\ SteppedBack' /\ \A t : ~Handling(t)'
<1>1. ctl' # <<>> => Top'.at = "restore" \/ Top'.at = "cont"
  BY ReturnShape DEF IInv, TypeOK
<1>2. OneThread' /\ (ctl' # <<>> => Top'.thr = Top.thr)
  BY ReturnThread DEF IInv, TypeOK, SignalInv
<1> QED BY <1>1, <1>2 DEF EventsTold, SteppedBack, Handling

\* The thread of an event in hand, and what it stopped for
LEMMA EventThread ==
  ASSUME IInv, SignalInv, At("handle")
  PROVE  /\ ctl # <<>> /\ Top.thr \in Threads /\ attached \in BOOLEAN /\ attached
         /\ why[Top.thr] \in {Top.evt, "exit"}
         /\ Top.thr \in late => why[Top.thr] = "exit"
         /\ evt_ign = FALSE
         /\ Top.evt # "end" => Top.thr \in Known /\ threads[Top.thr].stopped
         /\ Top.evt = "end" => why[Top.thr] = "exit"
         /\ Top.thr \in Known /\ why[Top.thr] # "exit" => threads[Top.thr].sig = "none"
<1>1. ctl # <<>> /\ Top \in Calls
  BY DEF At, IInv, TypeOK, Top
<1>2. Top.thr \in Threads /\ why[Top.thr] \in Whys
  BY <1>1 DEF Calls, IInv, TypeOK, PtraceTypeOK
<1>3. "end" \notin Whys
  BY DEF Whys, SignalStops, TrapStops
<1>4. EventsTold /\ Top.at = "handle"
  BY DEF SignalInv, At
<1> QED BY <1>1, <1>2, <1>3, <1>4 DEF EventsTold, At, IInv, TypeOK, CallsNested, HandlingStopped

LEMMA HandleEndSignal == IInv /\ SignalInv /\ KeepsLate /\ HandleEnd => SignalInv'
<1> SUFFICES ASSUME IInv, SignalInv, KeepsLate, HandleEnd PROVE SignalInv'
  OBVIOUS
<1>1. /\ Return(FALSE) /\ UNCHANGED <<ks, why, report, threads>> /\ Known' = Known
      /\ ctl # <<>> /\ why[Top.thr] = "exit"
  BY EventThread DEF HandleEnd, kernel, Known
<1>2. OneThread' /\ EventsTold' /\ SteppedBack' /\ \A t : ~Handling(t)'
  BY <1>1, ReturnedSignal
<1>3. SignalsNoted'
  <2>1. "exit" \notin DeliveredStops
    BY DEF DeliveredStops, SignalStops, TrapStops
  <2> QED BY <1>1, <2>1, KeepsSignals DEF IInv, SignalInv, Handling
<1> QED BY <1>1, <1>2, <1>3 DEF SignalInv, ExitIsLast, StrangersNew

LEMMA HandleCloneSignal == IInv /\ SignalInv /\ KeepsLate /\ HandleClone => SignalInv'
<1> SUFFICES ASSUME IInv, SignalInv, KeepsLate, HandleClone PROVE SignalInv'
  OBVIOUS
<1>0. PICK new : new = msg[Top.thr]
  OBVIOUS
<1>1. /\ Return(attached) /\ attached \in BOOLEAN /\ ctl # <<>> /\ Waitable(new) /\ Fetch(new)
      /\ threads' = [u \in Known \cup {new} |->
                       IF u \in Known THEN threads[u] ELSE [stopped |-> TRUE, sig |-> "none"]]
      /\ why' = why /\ Top.thr \in Threads /\ new \in Threads /\ Known \subseteq Threads
      /\ Top.thr \in Known /\ threads[Top.thr].stopped /\ why[Top.thr] \in {"clone", "exit"}
  BY <1>0, EventThread DEF HandleClone, IInv, TypeOK, PtraceTypeOK
<1>2. /\ Known' = Known \cup {new} /\ \A u \in Known : threads'[u] = threads[u]
      /\ new \notin Known => threads'[new] = [stopped |-> TRUE, sig |-> "none"]
  BY <1>1 DEF Known
<1>3. /\ report'[new] = FALSE /\ \A u \in Threads \ {new} : report'[u] = report[u]
      /\ \A u \in Threads : ks'[u] = ks[u] \/ (ks'[u] = "gone" /\ ks[u] = "zombie")
  <2>1. CASE report' = [report EXCEPT ![new] = FALSE] /\ ks' = ks
    BY <1>1, <2>1 DEF IInv, TypeOK, PtraceTypeOK
  <2>2. CASE ~report[new] /\ report' = report /\ ks' = [ks EXCEPT ![new] = "gone"]
    BY <1>1, <2>2 DEF Waitable, IInv, TypeOK, PtraceTypeOK
  <2> QED BY <1>1, <2>1, <2>2 DEF Fetch
<1>4. OneThread' /\ EventsTold' /\ SteppedBack' /\ \A t : ~Handling(t)'
  BY <1>1, <1>2, ReturnedSignal
<1>5. ExitIsLast' /\ StrangersNew'
  BY <1>1, <1>2, <1>3 DEF SignalInv, ExitIsLast, StrangersNew
<1>6. SignalsNoted'
  <2>1. ASSUME NEW u \in Known PROVE why'[u] = "exit" \/ SignalNoted(u)'
    <3>1. why[u] = "exit" \/ SignalNoted(u)
      BY DEF SignalInv, SignalsNoted
    <3>2. u \in late' <=> u \in late
      BY <1>1, <1>2 DEF KeepsLate, Restarted
    <3>3. Handling(u) => why[u] \in {"clone", "exit"}
      BY <1>1 DEF Handling
    <3>4. "clone" \notin DeliveredStops
      BY DEF DeliveredStops, SignalStops, TrapStops
    <3> QED BY <1>1, <1>2, <1>3, <3>1, <3>2, <3>3, <3>4 DEF SignalNoted
  <2>2. ASSUME new \notin Known PROVE why'[new] = "exit" \/ SignalNoted(new)'
    <3>1. why[new] \in {"exec", "start", "exit"}
      BY <1>1, <2>2 DEF SignalInv, StrangersNew
    <3>2. threads'[new].stopped = TRUE /\ threads'[new].sig = "none"
      BY <1>2, <2>2
    <3>3. DeliveredStops \cap {"exec", "start", "exit"} = {}
      BY DEF DeliveredStops, SignalStops, TrapStops
    <3> QED BY <1>1, <1>3, <3>1, <3>2, <3>3 DEF SignalNoted
  <2> QED BY <1>2, <2>1, <2>2 DEF SignalsNoted
<1> QED BY <1>4, <1>5, <1>6 DEF SignalInv

LEMMA HandleExitSignal == IInv /\ SignalInv /\ KeepsLate /\ HandleExit => SignalInv'
<1> SUFFICES ASSUME IInv, SignalInv, KeepsLate, HandleExit PROVE SignalInv'
  OBVIOUS
<1>1. /\ Return(attached) /\ attached \in BOOLEAN /\ ctl # <<>> /\ why[Top.thr] = "exit"
      /\ UNCHANGED <<ks, why, report>>
      /\ threads' = [u \in Known \ ({Top.thr} \ {Main}) |-> threads[u]]
  BY EventThread DEF HandleExit, kernel
<1>2. Known' = Known \ ({Top.thr} \ {Main}) /\ \A u \in Known' : threads'[u] = threads[u]
  BY <1>1 DEF Known
<1>3. OneThread' /\ EventsTold' /\ SteppedBack' /\ \A t : ~Handling(t)'
  BY <1>1, ReturnedSignal
<1>4. ExitIsLast' /\ StrangersNew'
  BY <1>1, <1>2 DEF SignalInv, ExitIsLast, StrangersNew
<1>5. SignalsNoted'
  <2> SUFFICES ASSUME NEW u \in Known', why[u] # "exit" PROVE SignalNoted(u)'
    BY <1>1 DEF SignalsNoted
  <2>1. SignalNoted(u) /\ u \in Known /\ ~Handling(u)
    BY <1>1, <1>2 DEF SignalInv, SignalsNoted, Handling
  <2>2. u \in late' <=> u \in late
    BY <1>2, <2>1 DEF KeepsLate, Restarted, IInv, TypeOK
  <2> QED BY <1>1, <1>2, <2>1, <2>2 DEF SignalNoted
<1> QED BY <1>3, <1>4, <1>5 DEF SignalInv

\* The signal noted is that of the stop that was announced to the listener.
LEMMA HandleSignalSignal == IInv /\ SignalInv /\ KeepsLate /\ HandleSignal => SignalInv'
<1> SUFFICES ASSUME IInv, SignalInv, KeepsLate, HandleSignal PROVE SignalInv'
  OBVIOUS
<1>0. PICK t : t = Top.thr
  OBVIOUS
<1>1. /\ Return(attached) /\ attached \in BOOLEAN /\ ctl # <<>>
      /\ why[t] \in {Top.evt, "exit"} /\ (t \in late => why[t] = "exit") /\ evt_ign = FALSE
      /\ t \in Known /\ threads[t].stopped /\ (why[t] # "exit" => threads[t].sig = "none")
      /\ UNCHANGED <<ks, why, report>>
  <2>1. Top.evt # "end"
    BY DEF HandleSignal, HandlingSignal, SignalStops, TrapStops
  <2> QED BY <1>0, <2>1, EventThread DEF HandleSignal, HandlingSignal, kernel
<1>2. PICK stop \in Told : IF stop = "BRKPT" THEN UNCHANGED <<evt_ign, threads>>
                           ELSE NotifyAndDeliver(stop)
  BY DEF HandleSignal
<1>3. stop \in SignalStops /\ (why[t] # "exit" => stop = why[t])
  BY <1>0, <1>1 DEF Told, SignalStops, TrapStops
<1>4. /\ Known' = Known /\ threads'[t].stopped = threads[t].stopped
      /\ \A u \in Known \ {t} : threads'[u] = threads[u]
      /\ \/ stop = "BRKPT" /\ threads'[t].sig = threads[t].sig
         \/ stop # "BRKPT" /\ threads'[t].sig = IF stop \in Discards THEN "none" ELSE SignalOf(stop)
  <2>1. CASE UNCHANGED threads /\ stop = "BRKPT"
    BY <2>1 DEF Known
  <2>2. CASE NotifyAndDeliver(stop) /\ stop # "BRKPT"
    <3> DEFINE s == IF stop \in Discards THEN "none" ELSE SignalOf(stop)
    <3>1. threads' = [threads EXCEPT ![t] = [threads[t] EXCEPT !.sig = s]]
      BY <1>0, <1>1, <2>2 DEF NotifyAndDeliver
    <3>2. threads[t] \in Entries
      BY <1>1 DEF IInv, TypeOK
    <3>3. /\ [threads[t] EXCEPT !.sig = s].sig = s
          /\ [threads[t] EXCEPT !.sig = s].stopped = threads[t].stopped
      BY <3>2 DEF Entries
    <3> HIDE DEF s
    <3>4. Known' = Known /\ \A u \in Known \ {t} : threads'[u] = threads[u]
      BY <3>1 DEF Known
    <3>5. threads'[t] = [threads[t] EXCEPT !.sig = s]
      BY <1>1, <3>1 DEF Known
    <3> QED BY <2>2, <3>3, <3>4, <3>5 DEF s
  <2> QED BY <1>2, <2>1, <2>2
<1>5. OneThread' /\ EventsTold' /\ SteppedBack' /\ \A u : ~Handling(u)'
  BY <1>0, <1>1, <1>4, ReturnedSignal
<1>6. ExitIsLast' /\ StrangersNew'
  BY <1>1, <1>4 DEF SignalInv, ExitIsLast, StrangersNew
<1>7. SignalsNoted'
  <2>1. \A u \in Known : u \in late' <=> u \in late
    BY <1>4 DEF KeepsLate, Restarted, IInv, TypeOK
  <2>2. ASSUME why[t] # "exit" PROVE SignalNoted(t)'
    <3>1. SignalNoted(t) /\ stop = why[t] /\ t \notin late
      BY <1>1, <1>3, <2>2 DEF SignalInv, SignalsNoted
    <3>2. /\ SignalOf(stop) # "none" /\ "BRKPT" \notin DeliveredStops
          /\ stop \in DeliveredStops => stop \notin Discards
          /\ stop \notin Discards /\ stop # "BRKPT" => stop \in DeliveredStops
      BY <1>3 DEF SignalOf, SignalStops, TrapStops, DeliveredStops
    <3>3. CASE stop = "BRKPT" /\ threads'[t].sig = threads[t].sig
      BY <1>1, <1>4, <1>5, <2>1, <2>2, <3>1, <3>2, <3>3 DEF SignalNoted
    <3>4. CASE stop # "BRKPT" /\ threads'[t].sig = IF stop \in Discards THEN "none" ELSE SignalOf(stop)
      BY <1>1, <1>3, <1>4, <2>1, <3>1, <3>2, <3>4 DEF SignalNoted
    <3> QED BY <1>4, <3>3, <3>4
  <2>3. ASSUME NEW u \in Known \ {t}, why[u] # "exit" PROVE SignalNoted(u)'
    <3>1. SignalNoted(u) /\ ~Handling(u)
      BY <1>0, <2>3 DEF SignalInv, SignalsNoted, Handling
    <3> QED BY <1>1, <1>4, <2>1, <3>1 DEF SignalNoted
  <2> QED BY <1>1, <1>4, <2>2, <2>3 DEF SignalsNoted
<1> QED BY <1>5, <1>6, <1>7 DEF SignalInv

\* A dispatch that fails has no signal to note, or a thread that is killed.
LEMMA HandleFailsSignal == IInv /\ SignalInv /\ KeepsLate /\ HandleFails => SignalInv'
<1> SUFFICES ASSUME IInv, SignalInv, KeepsLate, HandleFails PROVE SignalInv'
  OBVIOUS
<1>1. why[Top.thr] \in {Top.evt, "exit"}
  BY EventThread DEF HandleFails
<1>2. PICK e : Throw(e)
  BY DEF HandleFails
<1>3. ks[Top.thr] # "stop" \/ why[Top.thr] \in {"group stop", "clone", "exit"}
  BY <1>1 DEF HandleFails
<1>4. \A t \in Known : Handling(t) => why[t] \notin DeliveredStops \/ ks[t] # "stop"
  BY <1>3 DEF Handling, DeliveredStops, SignalStops, TrapStops
<1> QED BY <1>2, <1>4, ThrownSignal DEF HandleFails

\* After the step the signal of the hit is noted, too late for its stop.
LEMMA RestoreSignal == IInv /\ SignalInv /\ MCNext /\ Restore => SignalInv'
<1> SUFFICES ASSUME IInv, SignalInv, MCNext, Restore PROVE SignalInv'
  OBVIOUS
<1>0. PICK t : t = Top.thr
  OBVIOUS
<1>1. /\ ctl # <<>> /\ Top.at = "restore" /\ UNCHANGED <<ks, why, report>> /\ attached \in BOOLEAN
      /\ t \in Known => threads[t].stopped \/ why[t] = "exit"
      /\ Known \subseteq Threads /\ \A u : ~Handling(u)
  BY <1>0 DEF Restore, At, kernel, IInv, TypeOK, SignalInv, SteppedBack, Handling
<1>2. \A u \in Threads : u \in late' <=>
        (Top.evt = "BRKPT" /\ u = t /\ t \in Known) \/ (u \in late /\ ~Restarted(u))
  BY <1>0 DEF MCNext, Overwritten
<1>3. CASE Top.evt # "BRKPT" \/ t \notin Known
  <2>1. UNCHANGED threads /\ Known' = Known
    BY <1>0, <1>3 DEF Restore, Known
  <2>2. KeepsLate
    BY <1>2, <1>3 DEF KeepsLate
  <2>3. SignalsNoted'
    BY <1>1, <2>1, <2>2, KeepsSignals DEF IInv, SignalInv
  <2>4. ExitIsLast' /\ StrangersNew'
    BY <1>1, <2>1 DEF SignalInv, ExitIsLast, StrangersNew
  <2>5. CASE Return(attached)
    <3>1. OneThread' /\ EventsTold' /\ SteppedBack'
      BY <1>0, <1>1, <2>1, <2>5, ReturnedSignal
    <3> QED BY <2>3, <2>4, <3>1 DEF SignalInv
  <2>6. CASE UNCHANGED ctl
    <3>1. Top' = Top
      BY <2>6 DEF Top
    <3>2. OneThread' /\ EventsTold' /\ SteppedBack'
      BY <1>0, <1>1, <2>1, <2>6, <3>1 DEF OneThread, EventsTold, SteppedBack, SignalInv
    <3> QED BY <2>3, <2>4, <3>2 DEF SignalInv
  <2> QED BY <2>5, <2>6 DEF Restore
<1>4. CASE Top.evt = "BRKPT" /\ t \in Known
  <2>1. NotifyAndDeliver("BRKPT") /\ Return(attached)
    BY <1>0, <1>4 DEF Restore
  <2>2. /\ Known' = Known /\ threads'[t].stopped = threads[t].stopped
        /\ threads'[t].sig \in {"none", "TRAP"}
        /\ \A u \in Known \ {t} : threads'[u] = threads[u]
    <3>1. PICK s \in {"none", "TRAP"} : threads' = [threads EXCEPT ![t] = [threads[t] EXCEPT !.sig = s]]
      BY <1>0, <2>1 DEF NotifyAndDeliver, SignalOf, TrapStops
    <3>2. threads[t] \in Entries
      BY <1>4 DEF IInv, TypeOK
    <3>3. /\ [threads[t] EXCEPT !.sig = s].sig = s
          /\ [threads[t] EXCEPT !.sig = s].stopped = threads[t].stopped
      BY <3>2 DEF Entries
    <3> QED BY <1>4, <3>1, <3>3 DEF Known
  <2>3. OneThread' /\ EventsTold' /\ SteppedBack' /\ \A u : ~Handling(u)'
    BY <1>0, <1>1, <1>4, <2>1, <2>2, ReturnedSignal
  <2>4. ExitIsLast' /\ StrangersNew'
    BY <1>1, <2>2 DEF SignalInv, ExitIsLast, StrangersNew
  <2>5. SignalsNoted'
    <3>1. t \in late' /\ \A u \in Known \ {t} : u \in late' <=> u \in late
      BY <1>1, <1>2, <1>4, <2>2 DEF Restarted
    <3>2. ASSUME why[t] # "exit" PROVE SignalNoted(t)'
      <4>1. SignalNoted(t)
        BY <1>4, <3>2 DEF SignalInv, SignalsNoted
      <4> QED BY <1>1, <1>4, <2>2, <3>1, <3>2, <4>1 DEF SignalNoted
    <3>3. ASSUME NEW u \in Known \ {t}, why[u] # "exit" PROVE SignalNoted(u)'
      <4>1. SignalNoted(u)
        BY <3>3 DEF SignalInv, SignalsNoted
      <4> QED BY <1>1, <2>2, <3>1, <4>1 DEF SignalNoted
    <3> QED BY <1>1, <1>4, <2>2, <3>2, <3>3 DEF SignalsNoted
  <2> QED BY <2>3, <2>4, <2>5 DEF SignalInv
<1> QED BY <1>3, <1>4

LEMMA NextSignal == IInv /\ EndInv /\ SignalInv /\ [MCNext]_<<vars, late>> => SignalInv'
<1> SUFFICES ASSUME IInv, EndInv, SignalInv, [MCNext]_<<vars, late>> PROVE SignalInv'
  OBVIOUS
<1>1. CASE MCNext /\ Restore
  BY <1>1, RestoreSignal
<1>2. CASE MCNext /\ ~Restore
  <2>1. KeepsLate
    BY <1>2 DEF MCNext, KeepsLate, Overwritten
  <2>2. CASE Loop
    BY <1>2, <2>1, <2>2, ContThreadSignal, WaitEventSignal, WaitFailsSignal, ContDoneSignal,
       StopAllThreadsSignal, HandleEndSignal, HandleCloneSignal, HandleExitSignal, HandleHitSignal,
       HandleSignalSignal, HandleFailsSignal DEF Loop
  <2>3. CASE Client
    BY <2>1, <2>3, RunSignal, PauseSignal, SinglestepSignal, DetachSignal, KillSignal DEF Client
  <2> QED BY <1>2, <2>1, <2>2, <2>3, EnvironmentSignal DEF MCNext, Next
<1>3. CASE UNCHANGED <<vars, late>>
  <2>1. UNCHANGED <<ks, why, report, threads, evt_ign, ctl, late>> /\ Known' = Known /\ Top' = Top
    BY <1>3 DEF vars, kernel, Known, Top
  <2>2. ExitIsLast' /\ StrangersNew' /\ OneThread' /\ EventsTold' /\ SteppedBack'
    BY <2>1 DEF SignalInv, ExitIsLast, StrangersNew, OneThread, EventsTold, SteppedBack
  <2>3. SignalsNoted'
    BY <2>1 DEF SignalInv, SignalsNoted, SignalNoted, Handling
  <2> QED BY <2>2, <2>3 DEF SignalInv
<1> QED BY <1>1, <1>2, <1>3

\* What a resume delivers is what is noted; and a zombie that is reaped has no
\* more signals coming.
LEMMA DeliversNoted ==
  ASSUME IInv, SignalInv, Next, NEW t \in Threads, Restarted(t), why[t] # "exit"
  PROVE  /\ t \in Known /\ SignalNoted(t) /\ threads[t].stopped /\ ks[t] = "stop"
         /\ Handling(t) <=> At("handle")
         /\ At("handle") => threads[t].sig = "none" /\ t \notin late
<1>1. t \in Known /\ threads[t].stopped /\ t \in DOMAIN threads' /\ ~threads'[t].stopped
  BY DEF Restarted
<1>2. SignalNoted(t)
  BY <1>1 DEF SignalInv, SignalsNoted
<1>3. ks[t] = "stop" /\ (Handling(t) <=> At("handle"))
  <2>1. threads' # threads
    BY <1>1
  <2>2. ASSUME NEW u \in Threads, NEW step \in BOOLEAN, Restart(u, step), ks[u] = "stop",
               Handling(u) <=> At("handle")
        PROVE  ks[t] = "stop" /\ (Handling(t) <=> At("handle"))
    <3>1. t = u
      BY <1>1, <2>2 DEF Restart, IInv, TypeOK
    <3> QED BY <2>2, <3>1
  <2>3. ASSUME NEW u \in Threads, ContThread(u) PROVE ks[t] = "stop" /\ (Handling(t) <=> At("handle"))
    <3>1. ~Handling(u) /\ ~At("handle")
      BY <2>3 DEF ContThread, At, Handling
    <3> QED BY <2>1, <2>2, <2>3, <3>1 DEF ContThread
  <2>4. ASSUME NEW u \in Threads, Singlestep(u) PROVE ks[t] = "stop" /\ (Handling(t) <=> At("handle"))
    <3>1. ~Handling(u) /\ ~At("handle")
      BY <2>4 DEF Singlestep, Idle, Handling, At
    <3> QED BY <2>1, <2>2, <2>4, <3>1 DEF Singlestep, StepThread
  <2>5. CASE HandleHit
    <3>1. At("handle") /\ StepThread(Top.thr, "bp")
      BY <2>5 DEF HandleHit, HandlingSignal
    <3>2. Top.thr \in Threads
      <4>1. Top \in Calls
        BY <3>1 DEF At, IInv, TypeOK, Top
      <4> QED BY <4>1 DEF Calls
    <3>3. Handling(Top.thr)
      BY <3>1 DEF At, Handling
    <3> QED BY <2>1, <2>2, <3>1, <3>2, <3>3 DEF StepThread
  <2>6. ASSUME NEW u \in Threads, WaitEvent(u) PROVE FALSE
    <3>1. threads' = [threads EXCEPT ![u].stopped = report[u]] /\ Waitable(u)
      BY <2>6 DEF WaitEvent
    <3>2. t = u /\ ~report[u]
      BY <1>1, <3>1 DEF IInv, TypeOK, Entries
    <3> QED BY <3>1, <3>2 DEF Waitable, SignalInv, ExitIsLast
  <2>7. ~HandleClone /\ ~HandleExit
    BY <1>1 DEF HandleClone, HandleExit
  <2>8. ASSUME NEW stop \in SignalStops, NotifyAndDeliver(stop), Top.thr \in Known PROVE FALSE
    BY <1>1, <2>8, Delivered DEF IInv
  <2>9. ~HandleSignal
    <3> SUFFICES ASSUME HandleSignal PROVE FALSE
      OBVIOUS
    <3>1. Told \subseteq SignalStops /\ Top.thr \in Known
      BY EventThread DEF Told, SignalStops, TrapStops, HandleSignal, HandlingSignal
    <3> QED BY <2>1, <2>8, <3>1 DEF HandleSignal
  <2>10. ~Restore
    <3>1. "BRKPT" \in SignalStops
      BY DEF SignalStops, TrapStops
    <3> QED BY <2>1, <2>8, <3>1 DEF Restore
  <2>11. ~Environment /\ ~(\E u \in Threads : WaitFails(u)) /\ ~ContDone /\ ~StopAllThreads
         /\ ~HandleEnd /\ ~HandleFails /\ ~Run /\ ~Pause /\ ~Detach /\ ~Kill
    BY <2>1 DEF Environment, WaitFails, ContDone, StopAllThreads, HandleEnd, HandleFails, Run, Pause,
                Detach, Kill
  <2> QED BY <2>3, <2>4, <2>5, <2>6, <2>7, <2>9, <2>10, <2>11 DEF Next, Loop, Client
<1>4. Handling(t) => threads[t].sig = "none" /\ t \notin late
  BY <1>1 DEF Handling, SignalInv, EventsTold
<1> QED BY <1>1, <1>2, <1>3, <1>4

-----------------------------------------------------------------------------
(* The theorem                                                             *)

\* For any client, any number of threads and nested steps over breakpoints, a
\* thread is resumed with exactly the signal of the stop it is in, or without one
\* if the listener discarded that stop, if it was taken for a breakpoint hit, or
\* if it is a TRAP_BRKPT that was none; however many events of other threads,
\* steps and errors came between the stop and the resume.
THEOREM SignalsDelivered == MCSpec => SignalsFaithful
<1>1. MCInit => IInv /\ EndInv /\ SignalInv
  BY InitInv, InitEnd, InitSignal DEF MCInit
<1>2. IInv /\ EndInv /\ SignalInv /\ [MCNext]_<<vars, late>> => (IInv /\ EndInv /\ SignalInv)'
  <2>1. [MCNext]_<<vars, late>> => [Next]_vars
    BY DEF MCNext
  <2> QED BY <2>1, NextInv, NextEnd, NextSignal
<1>3. IInv /\ SignalInv /\ [MCNext]_<<vars, late>> =>
        [\A t \in Threads : Restarted(t) /\ why[t] # "exit" =>
          IF t \in late THEN threads[t].sig \in {"none", "TRAP"}
          ELSE threads[t].sig = IF why[t] \in DeliveredStops /\ ~At("handle")
                                THEN SignalOf(why[t]) ELSE "none"]_vars
  <2> SUFFICES ASSUME IInv, SignalInv, Next, NEW t \in Threads, Restarted(t), why[t] # "exit"
               PROVE  IF t \in late THEN threads[t].sig \in {"none", "TRAP"}
                      ELSE threads[t].sig = IF why[t] \in DeliveredStops /\ ~At("handle")
                                            THEN SignalOf(why[t]) ELSE "none"
    BY DEF MCNext
  <2> QED BY DeliversNoted DEF SignalNoted
<1> QED BY <1>1, <1>2, <1>3, PTL DEF MCSpec, SignalsFaithful
=============================================================================
