---------------------------- MODULE OriginProofs ----------------------------
(***************************************************************************)
(* Theorems about the three ways to a LocalDebuggee: exec (Launch), attach *)
(* (Attach), for any number of threads and any of them that exit or are    *)
(* created meanwhile, and attach_child (Forks), for any number of          *)
(* children, of a client that calls it in its listener only, fork events   *)
(* not being nested.                                                       *)
(***************************************************************************)
EXTENDS Launch, Attach, Forks, TLAPS

-----------------------------------------------------------------------------
(* Launch                                                                  *)

LEMMA LaunchInitInv == LaunchInit => LaunchInv
BY DEF LaunchInit, LaunchInv, LaunchTypeOK, ReturnedStopped, LeftBehind, Stops

LEMMA ChildStep ==
  ASSUME LaunchInv, Child
  PROVE  LaunchInv'
<1> USE LaunchAssumption DEF LaunchInv, LaunchTypeOK, ReturnedStopped, LeftBehind, Stops, parent
<1>1. CASE Chdir
  BY <1>1 DEF Child, Chdir, Goes
<1>2. CASE TraceMe
  <2>1. CASE Goes("raise") /\ tracee' = TRUE
    BY <1>2, <2>1 DEF Child, TraceMe, Goes
  <2>2. CASE Goes("quit") /\ tracee' = tracee
    BY <1>2, <2>2 DEF Child, TraceMe, Goes
  <2> QED BY <1>2, <2>1, <2>2 DEF TraceMe
<1>3. CASE RaiseSigstop
  BY <1>3 DEF Child, RaiseSigstop, StopFor
<1>4. CASE Execve
  <2>1. CASE StopFor("EXEC") /\ at' = "program"
    BY <1>4, <2>1 DEF Child, Execve, StopFor
  <2>2. CASE Goes("quit")
    BY <1>4, <2>2 DEF Child, Execve, Goes
  <2> QED BY <1>4, <2>1, <2>2 DEF Execve
<1>5. CASE Quit
  <2>1. /\ st = "run" /\ at = "quit"
        /\ UNCHANGED <<point, status, at, tracee, options, signals, sent>>
    BY <1>5 DEF Child, Quit
  <2>2. CASE tracee /\ StopFor("ABRT")
    BY <2>1, <2>2 DEF StopFor
  <2>3. CASE ~tracee /\ ChildDies
    BY <2>1, <2>3 DEF ChildDies
  <2> QED BY <1>5, <2>2, <2>3 DEF Quit
<1>6. CASE TakeSignal
  <2>1. PICK s \in signals \ {"KILL"} :
          /\ IF tracee \/ s = "STOP" THEN StopFor(s) ELSE ChildDies
          /\ signals' = signals \ {s}
    BY <1>6 DEF TakeSignal
  <2>2. /\ st = "run" /\ s \in sent /\ s \in {"TERM", "STOP"}
        /\ UNCHANGED <<point, status, at, tracee, options, sent>>
    BY <1>6 DEF Child, TakeSignal
  <2>3. CASE (tracee \/ s = "STOP") /\ StopFor(s)
    BY <2>1, <2>2, <2>3 DEF StopFor
  <2>4. CASE ~tracee /\ ChildDies
    BY <2>1, <2>2, <2>4 DEF ChildDies
  <2> QED BY <2>1, <2>3, <2>4
<1>7. CASE Killed
  <2>1. /\ st \in {"run", "stop"} /\ "KILL" \in sent
        /\ UNCHANGED <<point, status, at, tracee, options, signals, sent>>
    BY <1>7 DEF Child, Killed
  <2>2. CASE options /\ why # "exit" /\ StopFor("exit")
    BY <2>1, <2>2 DEF StopFor
  <2>3. CASE ChildDies
    BY <2>1, <2>3, ZenonT(60) DEF ChildDies
  <2> QED BY <1>7, <2>2, <2>3 DEF Killed
<1> QED BY <1>1, <1>2, <1>3, <1>4, <1>5, <1>6, <1>7 DEF Child

LEMMA ExecStep ==
  ASSUME LaunchInv, Exec
  PROVE  LaunchInv'
<1> USE DEF LaunchInv, LaunchTypeOK, ReturnedStopped, LeftBehind, Stops
<1>1. CASE ForkChild
  BY <1>1 DEF ForkChild
<1>2. CASE WaitStop
  BY <1>2, ZenonT(60) DEF WaitStop, Wait
<1>3. CASE SetChildOptions
  <2>1. CASE tracee /\ st = "stop"
    BY <1>3, <2>1 DEF SetChildOptions
  <2>2. CASE ~(tracee /\ st = "stop")
    BY <1>3, <2>2 DEF SetChildOptions
  <2> QED BY <2>1, <2>2
<1>4. CASE Cont
  BY <1>4, ZenonT(60) DEF Cont
<1>5. CASE WaitTrap
  <2>1. point = "wait2" /\ UNCHANGED <<at, tracee, options, why, signals, sent>>
    BY <1>5 DEF WaitTrap, Wait
  <2>2. CASE /\ unread /\ status' = "stopped" /\ st' = st
             /\ unread' = FALSE /\ point' = "open"
    BY <2>1, <2>2
  <2>3. CASE /\ st = "zombie" /\ status' = "killed" /\ st' = "gone"
             /\ unread' = FALSE /\ point' = "open"
    BY <2>1, <2>3
  <2> QED BY <1>5, <2>2, <2>3 DEF WaitTrap, Wait
<1>6. CASE Open
  BY <1>6 DEF Open, child
<1> QED BY <1>1, <1>2, <1>3, <1>4, <1>5, <1>6 DEF Exec

LEMMA LaunchNextInv == LaunchInv /\ [LaunchNext]_launch_vars => LaunchInv'
<1> SUFFICES ASSUME LaunchInv, [LaunchNext]_launch_vars PROVE LaunchInv'
  OBVIOUS
<1>1. ASSUME NEW s \in Outside, Send(s) PROVE LaunchInv'
  BY <1>1 DEF Send, parent, LaunchInv, LaunchTypeOK, ReturnedStopped, LeftBehind
<1>2. CASE UNCHANGED launch_vars
  BY <1>2 DEF launch_vars, parent, child, LaunchInv, LaunchTypeOK, ReturnedStopped, LeftBehind
<1> QED BY <1>1, <1>2, ChildStep, ExecStep DEF LaunchNext

THEOREM LaunchInvariant == LaunchSpec => []LaunchInv
BY LaunchInitInv, LaunchNextInv, PTL DEF LaunchSpec

\* The debuggee exec returns has a stopped thread, as add_new_thread records
\* (debuggee.cc:90), whatever signals come from outside, SIGKILL apart.
THEOREM DebuggeeStartsStopped == LaunchSpec => []ReturnedStopped
BY LaunchInvariant, PTL DEF LaunchInv

\* An exec that throws (debuggee.cc:477-496) leaves a live child only if somebody
\* stopped it before it asked to be traced, or if it could not be opened; that
\* one stays traced and stopped.  It never leaves a running one.
THEOREM FailureLeavesStopped == LaunchSpec => []LeftBehind
BY LaunchInvariant, PTL DEF LaunchInv

-----------------------------------------------------------------------------
(* Attach                                                                  *)

LEMMA AttachInitInv == AttachInit => AttachInv
BY AttachAssumption DEF AttachInit, AttachInv, AttachTypeOK, KnownHeld, Points, Listed, NoneCreated,
   OnlyNewcomersRun, GroupStopCompletes, Alive

LEMMA SignalsStep ==
  ASSUME AttachInv, Signals
  PROVE  AttachInv'
<1> USE DEF AttachInv, AttachTypeOK, KnownHeld, Points, Listed, NoneCreated,
            OnlyNewcomersRun, GroupStopCompletes, Alive
<1>1. PICK t \in Threads : TakeStop(t) \/ TakeGroup(t) \/ TakeShared(t)
  BY DEF Signals
<1>2. UNCHANGED <<traced, opts, pc, cur, todo, old, known>>
  BY DEF Signals
<1>3. CASE TakeStop(t)
  BY <1>2, <1>3 DEF TakeStop, Stop
<1>4. CASE TakeGroup(t)
  BY <1>2, <1>4 DEF TakeGroup, Take, Stop, Hold
<1>5. CASE TakeShared(t)
  <2>1. ks[t] = "run" /\ shared /\ shared' = FALSE
    BY <1>5 DEF TakeShared
  <2>2. CASE t \in traced
    <3>1. /\ ks' = [ks EXCEPT ![t] = "stop"] /\ report' = report \cup {t}
          /\ pend' = pend /\ grouped' = FALSE
      BY <1>5, <2>2 DEF TakeShared, Take, Stop
    <3>2. AttachTypeOK'
      BY <1>2, <2>1, <3>1
    <3>3. KnownHeld'
      BY <1>2, <2>1, <3>1
    <3>4. Points'
      BY <1>2, <2>1, <3>1
    <3>5. Listed' /\ NoneCreated' /\ OnlyNewcomersRun'
      BY <1>2, <2>1, <3>1
    <3> QED BY <1>2, <2>1, <3>1, <3>2, <3>3, <3>4, <3>5
  <2>3. CASE t \notin traced
    <3>1. /\ ks' = [ks EXCEPT ![t] = "held"] /\ report' = report
          /\ pend' = [u \in Threads |-> IF u \in Alive \ {t}
                                        THEN pend[u] \cup {"group"} ELSE pend[u]]
          /\ grouped' = TRUE
      BY <1>5, <2>3 DEF TakeShared, Take, Hold
    <3>2. AttachTypeOK'
      BY <1>2, <2>1, <3>1
    <3>3. KnownHeld'
      BY <1>2, <2>1, <3>1
    <3>4. Points'
      BY <1>2, <2>1, <3>1
    <3>5. Listed' /\ NoneCreated' /\ OnlyNewcomersRun'
      BY <1>2, <2>1, <3>1
    <3> QED BY <1>2, <2>1, <3>1, <3>2, <3>3, <3>4, <3>5
  <2> QED BY <2>2, <2>3
<1> QED BY <1>1, <1>3, <1>4, <1>5

LEMMA ProgramStep ==
  ASSUME AttachInv, Program
  PROVE  AttachInv'
<1> USE DEF AttachInv, AttachTypeOK, KnownHeld, Points, Listed, NoneCreated,
            OnlyNewcomersRun, GroupStopCompletes, Alive
<1>1. PICK t \in Threads : Clone(t) \/ Exit(t)
  BY DEF Program
<1>2. UNCHANGED <<traced, opts, pc, cur, todo, old, known>>
  BY DEF Program
<1>3. CASE Clone(t)
  <2>1. PICK u \in Threads : ks[u] = "none" /\ ks' = [ks EXCEPT ![u] = "run"]
    BY <1>3 DEF Clone
  <2>2. ~grouped /\ ~shared
    BY <1>3 DEF Clone
  <2>3. u \notin known /\ u \notin report /\ (u # cur \/ pc # "options")
    BY <2>1
  <2>4. UNCHANGED <<pend, shared, grouped, report>>
    BY <1>3 DEF Clone
  <2>5. AttachTypeOK' /\ KnownHeld' /\ Points'
    BY <1>2, <2>1, <2>2, <2>3, <2>4
  <2>6. Listed' /\ NoneCreated' /\ OnlyNewcomersRun'
    BY <1>2, <2>1, <2>2, <2>3, <2>4
  <2> QED BY <1>2, <2>1, <2>2, <2>4, <2>5, <2>6
<1>4. CASE Exit(t)
  BY <1>2, <1>4 DEF Exit
<1> QED BY <1>1, <1>3, <1>4

LEMMA AttachingStep ==
  ASSUME AttachInv, Attaching
  PROVE  AttachInv'
<1> USE AttachAssumption DEF AttachInv, AttachTypeOK, KnownHeld, Points, Listed, NoneCreated,
            OnlyNewcomersRun, GroupStopCompletes, Alive, target
<1>1. CASE KillStop
  BY <1>1 DEF KillStop
<1>2. CASE AttachThread
  BY <1>2 DEF AttachThread, Stop
<1>3. CASE AttachFails
  BY <1>3 DEF AttachFails, Fail
<1>4. CASE WaitStopped
  BY <1>4 DEF WaitStopped
<1>5. CASE SetOptions
  BY <1>5 DEF SetOptions
<1>6. CASE OptionsFail
  BY <1>6 DEF OptionsFail, Fail
<1>7. CASE Enumerate
  BY <1>7 DEF Enumerate
<1>8. CASE NextThread
  BY <1>8 DEF NextThread
<1> QED BY <1>1, <1>2, <1>3, <1>4, <1>5, <1>6, <1>7, <1>8 DEF Attaching

\* Whatever the target does, attach leads only to states of IInv.
THEOREM AttachInvariant == AttachSpec => []AttachInv
<1>1. AttachInv /\ [AttachNext]_attach_vars => AttachInv'
  <2> SUFFICES ASSUME AttachInv, [AttachNext]_attach_vars PROVE AttachInv'
    OBVIOUS
  <2>1. CASE UNCHANGED attach_vars
    BY <2>1 DEF attach_vars, target, AttachInv, AttachTypeOK, KnownHeld, Points, Listed, NoneCreated,
                OnlyNewcomersRun, GroupStopCompletes, Alive
  <2> QED BY <2>1, SignalsStep, ProgramStep, AttachingStep DEF AttachNext
<1> QED BY AttachInitInv, <1>1, PTL DEF AttachSpec

\* The flags of the threads that attach hands to the event loop are true.
THEOREM AttachedStopped == AttachSpec => []KnownHeld
BY AttachInvariant, PTL DEF AttachInv

\* A thread that was there when attach listed them is attached or dead.
THEOREM NoneEscapes == AttachSpec => []OnlyNewcomersRun
BY AttachInvariant, PTL DEF AttachInv

\* If the SIGSTOP began a group stop, attach has every thread of the target.
THEOREM StoppedTargetIsComplete == AttachSpec => []GroupStopCompletes
BY AttachInvariant, PTL DEF AttachInv

-----------------------------------------------------------------------------
(* Forks                                                                   *)

\* A notification entered is one more, and its child the innermost.
LEMMA Entered ==
  ASSUME frames \in Seq(Kids), NEW c \in Kids, frames' = Append(frames, c), c \notin Told,
         \A i, j \in DOMAIN frames : frames[i] = frames[j] => i = j
  PROVE  /\ frames' \in Seq(Kids) /\ Told' = Told \cup {c}
         /\ \A i, j \in DOMAIN frames' : frames'[i] = frames'[j] => i = j
<1> DEFINE n == Len(frames)
<1>1. n \in Nat /\ DOMAIN frames = 1 .. n
  OBVIOUS
<1>2. /\ frames' \in Seq(Kids) /\ DOMAIN frames' = 1 .. n + 1 /\ frames'[n + 1] = c
      /\ \A i \in 1 .. n : frames'[i] = frames[i]
  BY <1>1
<1>3. \A i \in 1 .. n + 1 : i \in 1 .. n \/ i = n + 1
  BY <1>1
<1>4. \A i \in 1 .. n : frames'[i] \in Told /\ frames'[i] # c
  BY <1>1, <1>2 DEF Told
<1>5. ASSUME NEW i \in DOMAIN frames', NEW j \in DOMAIN frames', frames'[i] = frames'[j]
      PROVE  i = j
  BY <1>1, <1>2, <1>3, <1>4, <1>5
<1>6. Told' = Told \cup {c}
  <2>1. ASSUME NEW d \in Told' PROVE d \in Told \cup {c}
    BY <1>2, <1>3, <1>4, <2>1 DEF Told
  <2>2. ASSUME NEW d \in Told \cup {c} PROVE d \in Told'
    BY <1>1, <1>2, <1>3, <2>2 DEF Told
  <2> QED BY <2>1, <2>2
<1> QED BY <1>2, <1>5, <1>6

\* The innermost notification that ends takes its child along, and no other.
LEMMA Left ==
  ASSUME frames \in Seq(Kids), frames # <<>>, frames' = Front(frames),
         \A i, j \in DOMAIN frames : frames[i] = frames[j] => i = j
  PROVE  /\ Last(frames) \in Told
         /\ frames' \in Seq(Kids) /\ Told' = Told \ {Last(frames)}
         /\ \A i, j \in DOMAIN frames' : frames'[i] = frames'[j] => i = j
<1>1. PICK n \in Nat : n = Len(frames)
  OBVIOUS
<1>2. n # 0 /\ DOMAIN frames = 1 .. n /\ Last(frames) = frames[n] /\ n \in 1 .. n
  BY <1>1 DEF Last
<1>3. frames' = SubSeq(frames, 1, n - 1)
  BY <1>1 DEF Front
<1>4. /\ frames' \in Seq(Kids) /\ DOMAIN frames' = 1 .. n - 1
      /\ \A i \in 1 .. n - 1 : frames'[i] = frames[i]
  BY <1>1, <1>2, <1>3
<1>5. \A i \in 1 .. n - 1 : i \in 1 .. n /\ i # n
  BY <1>2
<1>6. \A i \in 1 .. n : i \in 1 .. n - 1 \/ i = n
  BY <1>2
<1>7. \A i \in 1 .. n - 1 : frames[i] # frames[n]
  BY <1>2, <1>5
<1>8. Told' = Told \ {Last(frames)}
  <2>1. ASSUME NEW d \in Told' PROVE d \in Told \ {Last(frames)}
    BY <1>2, <1>4, <1>5, <1>7, <2>1 DEF Told
  <2>2. ASSUME NEW d \in Told \ {Last(frames)} PROVE d \in Told'
    BY <1>2, <1>4, <1>6, <2>2 DEF Told
  <2> QED BY <2>1, <2>2
<1>9. Last(frames) \in Told
  BY <1>2 DEF Told
<1>10. ASSUME NEW i \in DOMAIN frames', NEW j \in DOMAIN frames', frames'[i] = frames'[j]
       PROVE  i = j
  BY <1>2, <1>4, <1>5, <1>10
<1> QED BY <1>4, <1>8, <1>9, <1>10

\* None is told of once all are left.
LEMMA NoneTold == ASSUME frames = <<>> PROVE Told = {}
BY DEF Told

LEMMA ToldAreKids == ASSUME frames \in Seq(Kids) PROVE Told \subseteq Kids
BY DEF Told

LEMMA ForksInitInv == ForksInit => ForksInv
<1> SUFFICES ASSUME ForksInit PROVE ForksInv
  OBVIOUS
<1>1. frames = <<>> /\ frames \in Seq(Kids) /\ DOMAIN frames = {} /\ Told = {}
  BY NoneTold DEF ForksInit
<1>2. ForksTypeOK
  BY <1>1 DEF ForksInit, ForksTypeOK
<1>3. \A c \in Kids : kid[c] = "none" /\ c \notin own /\ c \notin events /\ inner[c] = "none"
  BY DEF ForksInit
<1>4. OwnTraced /\ DetachFor /\ own \subseteq owned /\ events = {}
  BY <1>1 DEF ForksInit, OwnTraced, DetachFor
<1> QED BY <1>1, <1>2, <1>3, <1>4 DEF ForksInv, Traced

LEMMA KernelStep ==
  ASSUME ForksInv, Kernel
  PROVE  ForksInv'
<1> USE DEF ForksInv, ForksTypeOK, OwnTraced, DetachFor, Traced, history
<1>1. PICK c \in Kids : Fork(c) \/ FirstStop(c) \/ Die(c)
  BY DEF Kernel
<1>2. UNCHANGED <<new_child, child_detach, frames, owned, thrown, own, inner>> /\ Told' = Told
  BY DEF Kernel, Told
<1>3. Told \subseteq Kids
  BY ToldAreKids
<1>4. CASE Fork(c)
  BY <1>2, <1>3, <1>4 DEF Fork
<1>5. CASE FirstStop(c)
  BY <1>2, <1>3, <1>5 DEF FirstStop
<1>6. CASE Die(c)
  BY <1>2, <1>3, <1>6 DEF Die
<1> QED BY <1>1, <1>4, <1>5, <1>6

LEMMA ThrowStep ==
  ASSUME ForksInv, Throw, UNCHANGED <<kid, owned, history>>,
         events' \subseteq events,
         new_child' \in Kids \cup {NoChild}, child_detach' \in BOOLEAN
  PROVE  ForksInv'
<1>1. frames' \in Seq(Kids) /\ DOMAIN frames' = {} /\ Told' = {} /\ thrown' = TRUE
  BY DEF Throw, Told
<1> QED BY <1>1 DEF ForksInv, ForksTypeOK, OwnTraced, DetachFor, Traced, history

LEMMA DispatchStep ==
  ASSUME ForksInv, NEW c \in Kids, DispatchFork(c)
  PROVE  ForksInv'
<1> USE DEF ForksInv, ForksTypeOK, OwnTraced, DetachFor, Traced, history
<1>1. /\ c \in events /\ events' = events \ {c} /\ UNCHANGED <<kid, owned, own>>
      /\ c \notin Told /\ c \notin own /\ inner[c] = "none" /\ kid[c] \notin {"none", "free"}
  BY DEF DispatchFork
<1>2. Told \subseteq Kids
  BY ToldAreKids
<1>3. CASE /\ new_child' = c /\ child_detach' = TRUE
           /\ frames' = Append(frames, c) /\ UNCHANGED thrown
           /\ Within(Told, "told")
  <2>1. /\ frames' \in Seq(Kids) /\ Told' = Told \cup {c}
        /\ \A i, j \in DOMAIN frames' : frames'[i] = frames'[j] => i = j
    BY <1>1, <1>3, Entered
  <2>2. \A d \in Kids : inner'[d] = IF d \in Told THEN "told" ELSE inner[d]
    BY <1>3 DEF Within
  <2>3. ForksTypeOK'
    BY <1>1, <1>3, <2>1, <2>2 DEF Within
  <2>4. OwnTraced' /\ own' \subseteq owned'
    BY <1>1, <1>2, <2>2
  <2>5. DetachFor'
    BY <1>1, <1>2, <1>3, <2>1, <2>2
  <2>6. \A d \in Kids : (kid[d] = "none" \/ d \in events)' => (d \notin own /\ inner[d] = "none")'
    BY <1>1, <2>2
  <2>7. \A d \in events' : kid'[d] \notin {"none", "free"}
    BY <1>1
  <2>8. thrown' \/ \A d \in Kids \ Told' :
          Traced(d)' => d \in events' \cup owned' \/ inner'[d] = "attached"
    BY <1>1, <1>3, <2>1, <2>2
  <2> QED BY <2>1, <2>3, <2>4, <2>5, <2>6, <2>7, <2>8
<1>4. CASE new_child' = NoChild /\ Throw /\ UNCHANGED <<child_detach, inner>>
  BY <1>1, <1>4, ThrowStep
<1> QED BY <1>3, <1>4 DEF DispatchFork

LEMMA AttachStep ==
  ASSUME ForksInv, NEW c \in Kids, AttachChild(c)
  PROVE  ForksInv'
<1> USE DEF ForksInv, ForksTypeOK, OwnTraced, DetachFor, Traced
<1>1. /\ c = new_child /\ kid[c] # "none" /\ owned' = owned \cup {c} /\ child_detach' = FALSE
      /\ new_child' = NoChild /\ own' = own \cup ({c} \cap Told)
      /\ UNCHANGED <<kid, events, frames, thrown>> /\ Told' = Told
  BY DEF AttachChild, Told
<1>2. Told \subseteq Kids
  BY ToldAreKids
<1>3. \A d \in Kids : inner'[d] = IF d \in Told \ {c} THEN "attached" ELSE inner[d]
  BY DEF AttachChild, Within
<1>4. ForksTypeOK'
  BY <1>1, <1>3 DEF AttachChild, Within
<1>5. OwnTraced' /\ own' \subseteq owned'
  BY <1>1, <1>2, <1>3
<1>6. ASSUME NEW d \in Told'
      PROVE  /\ kid'[d] \notin {"none", "free"} /\ d \notin events'
             /\ child_detach' <=> inner'[d] = "told" \/ (inner'[d] = "none" /\ d \notin own')
             /\ d # new_child'
  <2>1. CASE d = c
    <3>1. inner'[c] = "none" /\ c \in own'
      BY <1>1, <1>2, <1>3, <2>1
    <3> QED BY <1>1, <1>2, <2>1, <3>1, ForksAssumption
  <2>2. CASE d # c
    BY <1>1, <1>2, <1>3, <2>2, ForksAssumption
  <2> QED BY <1>1, <1>2, <2>1, <2>2, ForksAssumption
<1>7. DetachFor'
  BY <1>6
<1>8. \A d \in Kids : (kid[d] = "none" \/ d \in events)' => (d \notin own /\ inner[d] = "none")'
  BY <1>1, <1>3
<1>9. thrown' \/ \A d \in Kids \ Told' :
        Traced(d)' => d \in events' \cup owned' \/ inner'[d] = "attached"
  BY <1>1, <1>3
<1> QED BY <1>1, <1>4, <1>5, <1>7, <1>8, <1>9

LEMMA NotifiedStep ==
  ASSUME ForksInv, Notified
  PROVE  ForksInv'
<1> USE DEF ForksInv, ForksTypeOK, OwnTraced, DetachFor, Traced, history
<1> DEFINE c == Last(frames)
<1>1. frames # <<>> /\ UNCHANGED <<events, new_child, child_detach, owned, own, inner>>
  BY DEF Notified
<1>2. Told \subseteq Kids
  BY ToldAreKids
<1>3. CASE /\ child_detach /\ kid[c] = "stop" /\ kid' = [kid EXCEPT ![c] = "free"]
           /\ frames' = Front(frames) /\ UNCHANGED thrown
  <2>1. /\ c \in Told /\ frames' \in Seq(Kids) /\ Told' = Told \ {c}
        /\ \A i, j \in DOMAIN frames' : frames'[i] = frames'[j] => i = j
    BY <1>1, <1>3, Left
  <2>2. c \in own => inner[c] = "told"
    BY <1>3, <2>1
  <2> QED BY <1>1, <1>2, <1>3, <2>1, <2>2
<1>4. CASE Throw /\ UNCHANGED kid
  BY <1>1, <1>4, ThrowStep
<1>5. CASE ~child_detach /\ frames' = Front(frames) /\ UNCHANGED <<kid, thrown>>
  <2>1. /\ c \in Told /\ frames' \in Seq(Kids) /\ Told' = Told \ {c}
        /\ \A i, j \in DOMAIN frames' : frames'[i] = frames'[j] => i = j
    BY <1>1, <1>5, Left
  <2>2. inner[c] = "attached" \/ c \in own
    BY <1>2, <1>5, <2>1
  <2> QED BY <1>1, <1>2, <1>5, <2>1, <2>2
<1> QED BY <1>3, <1>4, <1>5 DEF Notified

\* Whatever is dispatched inside what, and whenever attach_child is called.
THEOREM ForksInvariant == ForksSpec => []ForksInv
<1>1. ForksInv /\ [ForksNext]_forks_vars => ForksInv'
  <2> SUFFICES ASSUME ForksInv, [ForksNext]_forks_vars PROVE ForksInv'
    OBVIOUS
  <2>1. CASE UNCHANGED forks_vars
    BY <2>1 DEF forks_vars, history, ForksInv, ForksTypeOK, OwnTraced, DetachFor, Traced, Told
  <2>2. CASE DispatchOther
    BY <2>2, ForksAssumption, ToldAreKids DEF DispatchOther, history, ForksInv, ForksTypeOK, OwnTraced, DetachFor, Traced, Told
  <2>3. CASE ListenerThrows
    BY <2>3, ThrowStep DEF ListenerThrows, ForksInv, ForksTypeOK
  <2> QED BY <2>1, <2>2, <2>3, KernelStep, DispatchStep, AttachStep, NotifiedStep
          DEF ForksNext, Debugger
<1> QED BY ForksInitInv, <1>1, PTL DEF ForksSpec

\* Who attaches to a child while being told of it keeps it (debuggee.cc:377-382),
\* unless another child is told of and left inside that notification.
THEOREM AttachedIsKept == ForksSpec => []OwnTraced
BY ForksInvariant, PTL DEF ForksInv

\* Without exceptions, every child told of ends up with a debuggee or free, unless
\* another was attached inside its notification.
THEOREM NoChildForgotten == ForksSpec => []NoneForgotten
<1>1. ForksInv => NoneForgotten
  BY NoneTold DEF ForksInv, NoneForgotten
<1> QED BY <1>1, ForksInvariant, PTL
=============================================================================
