----------------------------- MODULE UtilsProofs -----------------------------
(***************************************************************************)
(* Theorems about what utils/ provides: Runner, for any set of callers,    *)
(* and EventEmitter, for any set of listeners, which may expire and may    *)
(* emit in turn.                                                           *)
(***************************************************************************)
EXTENDS Runner, MCEventEmitter, SelectionProofs

-----------------------------------------------------------------------------
(* Runner: types and the slot                                              *)

\* Every reachable state of the runner is well typed (runner.cc:14-27).
LEMMA Typing == Spec => []TypeOK
<1>1. Init => TypeOK
  BY DEF Init, TypeOK, Threads, WorkerPoints, CallerPoints
<1>2. TypeOK /\ [Next]_vars => TypeOK'
  <2> SUFFICES ASSUME TypeOK, [Next]_vars PROVE TypeOK'
    OBVIOUS
  <2> USE DEF TypeOK, Threads, Outcomes, WorkerPoints, CallerPoints
  <2>1. CASE WorkerStep
    <3>1. CASE WorkerLock \/ SwitchExecFn \/ SwitchRet
      BY <3>1 DEF WorkerLock, SwitchExecFn, SwitchRet, Acquire
    <3>2. CASE Execute
      BY <3>2 DEF Execute
    <3>3. CASE Publish
      BY <3>3 DEF Publish, NotifyOne
    <3> QED BY <2>1, <3>1, <3>2, <3>3 DEF WorkerStep
  <2>2. ASSUME NEW c \in Callers, Call(c) \/ CallerStep(c) PROVE TypeOK'
    BY <2>2 DEF Call, CallerStep, Enter, Submit, Finish, Acquire, NotifyOne
  <2>3. ASSUME NEW t \in Threads, CvStep(t) \/ SpuriousWakeup(t) PROVE TypeOK'
    BY <2>3 DEF CvStep, TestPredicate, Block, Wake, SpuriousWakeup, Acquire, Proceed
  <2>4. CASE Destructor
    BY <2>4 DEF Destructor, DestructorSetsRet, DestructorNotifyAll, DestructorJoin
  <2>5. CASE UNCHANGED vars
    BY <2>5 DEF vars
  <2> QED BY <2>1, <2>2, <2>3, <2>4, <2>5 DEF Next
<1> QED BY <1>1, <1>2, PTL DEF Spec

\* SlotInv is inductive, whether or not the callers overlap.
LEMMA SlotInvStep == TypeOK /\ SlotInv /\ [Next]_vars => SlotInv'
<1> SUFFICES ASSUME TypeOK, SlotInv, [Next]_vars PROVE SlotInv'
  OBVIOUS
<1> USE ThreadsAssumption
    DEF TypeOK, SlotInv, Threads, WorkerPoints, CallerPoints, InWait, Holding
<1>1. CASE WorkerLock
  BY <1>1 DEF WorkerLock, Acquire
<1>2. CASE SwitchExecFn
  BY <1>2 DEF SwitchExecFn
<1>3. CASE SwitchRet
  BY <1>3 DEF SwitchRet
<1>4. CASE Execute
  BY <1>4 DEF Execute
<1>5. CASE Publish
  BY <1>5 DEF Publish
<1>6. ASSUME NEW c \in Callers, Call(c) PROVE SlotInv'
  BY <1>6 DEF Call
<1>7. ASSUME NEW c \in Callers, Enter(c) PROVE SlotInv'
  BY <1>7 DEF Enter, Acquire
<1>8. ASSUME NEW c \in Callers, Submit(c) PROVE SlotInv'
  BY <1>8 DEF Submit
<1>9. ASSUME NEW c \in Callers, Finish(c) PROVE SlotInv'
  BY <1>9 DEF Finish
<1>10. ASSUME NEW t \in Threads, TestPredicate(t) PROVE SlotInv'
  BY <1>10 DEF TestPredicate, Wanted, Proceed
<1>11. ASSUME NEW t \in Threads, Block(t) PROVE SlotInv'
  BY <1>11 DEF Block
<1>12. ASSUME NEW t \in Threads, Wake(t) PROVE SlotInv'
  BY <1>12 DEF Wake, Acquire
<1>13. ASSUME NEW t \in Threads, SpuriousWakeup(t) PROVE SlotInv'
  BY <1>13 DEF SpuriousWakeup
<1>14. CASE DestructorSetsRet
  BY <1>14 DEF DestructorSetsRet
<1>15. CASE DestructorNotifyAll
  BY <1>15 DEF DestructorNotifyAll
<1>16. CASE DestructorJoin
  BY <1>16 DEF DestructorJoin
<1>17. CASE UNCHANGED vars
  BY <1>17 DEF vars
<1> QED
  BY <1>1, <1>2, <1>3, <1>4, <1>5, <1>6, <1>7, <1>8, <1>9, <1>10, <1>11, <1>12,
     <1>13, <1>14, <1>15, <1>16, <1>17
  DEF Next, WorkerStep, CallerStep, CvStep, Destructor

\* The mutex, the slot fn_ and cmd_ stay consistent for any number of callers.
THEOREM SlotInvariant == Spec => []SlotInv
<1>1. Init => SlotInv
  BY ThreadsAssumption
  DEF Init, SlotInv, Threads, WorkerPoints, CallerPoints, InWait, Holding
<1> QED BY <1>1, SlotInvStep, Typing, PTL DEF Spec

\* The worker never executes a closure whose caller has left do_run, for any
\* number of threads calling run at the same time.
THEOREM ClosuresStayAlive == Spec => []ClosureAlive
<1>1. SlotInv => ClosureAlive
  BY DEF SlotInv, ClosureAlive
<1> QED BY <1>1, SlotInvariant, PTL

\* The default branch of the worker's switch is unreachable.
THEOREM SwitchNeverAsserts == Spec => []SwitchAssert
<1>1. SlotInv => SwitchAssert
  BY DEF SlotInv, SwitchAssert
<1> QED BY <1>1, SlotInvariant, PTL

-----------------------------------------------------------------------------

\* With callers that do not overlap, MailboxInv is inductive too.
LEMMA MailboxInvStep ==
  ASSUME Exclusive
  PROVE TypeOK /\ SlotInv /\ MailboxInv /\ [Next]_vars => MailboxInv'
<1> SUFFICES ASSUME TypeOK, SlotInv, MailboxInv, [Next]_vars PROVE MailboxInv'
  OBVIOUS
<1> USE ThreadsAssumption, Exclusive
    DEF TypeOK, SlotInv, MailboxInv, Told, Threads, Outcomes, WorkerPoints,
        CallerPoints, InWait, Holding
<1>1. CASE WorkerLock
  BY <1>1 DEF WorkerLock, Acquire
<1>2. CASE SwitchExecFn
  BY <1>2 DEF SwitchExecFn
<1>3. CASE SwitchRet
  BY <1>3 DEF SwitchRet
<1>4. CASE Execute
  <2>1. fn \in Callers /\ pc[fn] \in InWait /\ cmd = "ExecFn"
    BY <1>4 DEF Execute
  <2>2. Told'
    <3>1. PICK o \in Outcomes : out' = [out EXCEPT ![fn] = o] /\ eptr' = (o = "throw")
      BY <1>4 DEF Execute
    <3>2. fn' = fn /\ out'[fn] = o
      BY <1>4, <2>1, <3>1 DEF Execute
    <3>3. (eptr' <=> o = "throw") /\ o \in {"value", "throw"}
      BY <3>1
    <3> QED BY <2>1, <3>2, <3>3
  <2>3. \A c \in Callers : c # fn => pc[c] = "idle"
    BY <2>1
  <2> QED BY <1>4, <2>1, <2>2, <2>3 DEF Execute
<1>5. CASE Publish
  BY <1>5 DEF Publish
<1>6. ASSUME NEW c \in Callers, Call(c) PROVE MailboxInv'
  BY <1>6 DEF Call
<1>7. ASSUME NEW c \in Callers, Enter(c) PROVE MailboxInv'
  BY <1>7 DEF Enter, Acquire
<1>8. ASSUME NEW c \in Callers, Submit(c) PROVE MailboxInv'
  BY <1>8 DEF Submit
<1>9. ASSUME NEW c \in Callers, Finish(c) PROVE MailboxInv'
  BY <1>9 DEF Finish
<1>10. ASSUME NEW t \in Threads, TestPredicate(t) PROVE MailboxInv'
  BY <1>10 DEF TestPredicate, Wanted, Proceed
<1>11. ASSUME NEW t \in Threads, Block(t) PROVE MailboxInv'
  BY <1>11 DEF Block
<1>12. ASSUME NEW t \in Threads, Wake(t) PROVE MailboxInv'
  BY <1>12 DEF Wake, Acquire
<1>13. ASSUME NEW t \in Threads, SpuriousWakeup(t) PROVE MailboxInv'
  BY <1>13 DEF SpuriousWakeup
<1>14. CASE DestructorSetsRet
  BY <1>14 DEF DestructorSetsRet
<1>15. CASE DestructorNotifyAll
  BY <1>15 DEF DestructorNotifyAll
<1>16. CASE DestructorJoin
  BY <1>16 DEF DestructorJoin
<1>17. CASE UNCHANGED vars
  BY <1>17 DEF vars
<1> QED
  BY <1>1, <1>2, <1>3, <1>4, <1>5, <1>6, <1>7, <1>8, <1>9, <1>10, <1>11, <1>12,
     <1>13, <1>14, <1>15, <1>16, <1>17
  DEF Next, WorkerStep, CallerStep, CvStep, Destructor

\* The mailbox is in step with the call in progress.
THEOREM MailboxInvariant == ASSUME Exclusive PROVE Spec => []MailboxInv
<1>1. Init => MailboxInv
  BY ThreadsAssumption DEF Init, MailboxInv, Told, Threads, InWait
<1> QED BY <1>1, MailboxInvStep, SlotInvariant, Typing, PTL DEF Spec

\* A call of run ends the way its own closure ended.
THEOREM CallsReturnOwnOutcome == ASSUME Exclusive PROVE Spec => []OwnOutcome
<1>1. MailboxInv => OwnOutcome
  BY DEF MailboxInv, Told, OwnOutcome
<1> QED BY <1>1, MailboxInvariant, PTL

-----------------------------------------------------------------------------

\* One step of the runner is one step of the synchronous call, or none: the
\* worker's Execute is the abstract execution, Finish the abstract return.
LEMMA RefinementStep ==
  ASSUME Exclusive
  PROVE TypeOK /\ SlotInv /\ MailboxInv /\ [Next]_vars
        => [Abstract!Next]_(Abstract!vars)
<1> SUFFICES ASSUME TypeOK, SlotInv, MailboxInv, [Next]_vars
             PROVE [Abstract!Next]_(Abstract!vars)
  OBVIOUS
<1> USE ThreadsAssumption, Exclusive DEF TypeOK, Threads
<1> DEFINE st == [c \in Callers |-> IF pc[c] = "idle" THEN "idle" ELSE out[c]]
<1>a. ASSUME UNCHANGED <<got, out, dtor>>,
             \A c \in Callers : pc'[c] = "idle" <=> pc[c] = "idle"
      PROVE UNCHANGED Abstract!vars
  <2>1. st' = st
    BY <1>a
  <2> QED BY <1>a, <2>1 DEF Abstract!vars
<1>1. CASE WorkerLock \/ SwitchExecFn \/ SwitchRet \/ Publish
  BY <1>1, <1>a DEF WorkerLock, SwitchExecFn, SwitchRet, Publish, Acquire
<1>2. CASE Execute
  <2>1. fn \in Callers /\ pc[fn] \in InWait /\ out[fn] = "called"
    BY <1>2 DEF Execute, SlotInv, MailboxInv
  <2>2. PICK o \in Outcomes : out' = [out EXCEPT ![fn] = o]
    BY <1>2 DEF Execute
  <2>3. \A c \in Callers : pc'[c] = pc[c]
    BY <1>2 DEF Execute
  <2>4. st[fn] = "called" /\ st' = [st EXCEPT ![fn] = o]
    BY <2>1, <2>2, <2>3 DEF InWait
  <2>5. PICK c \in Callers : c = fn
    BY <2>1
  <2>6. Abstract!Execute(c)
    BY <1>2, <2>2, <2>4, <2>5 DEF Execute, Abstract!Execute
  <2> QED BY <2>6 DEF Abstract!Next
<1>3. ASSUME NEW c \in Callers, Call(c) PROVE Abstract!Call(c)
  <2>1. \A d \in Callers : st[d] = "idle"
    BY <1>3 DEF Call
  <2>2. st' = [st EXCEPT ![c] = "called"]
    BY <1>3 DEF Call
  <2> QED BY <1>3, <2>1, <2>2 DEF Call, Abstract!Call
<1>4. ASSUME NEW c \in Callers, Enter(c) \/ Submit(c)
      PROVE UNCHANGED Abstract!vars
  BY <1>4, <1>a DEF Enter, Submit, Acquire
<1>5. ASSUME NEW c \in Callers, Finish(c) PROVE Abstract!Return(c)
  <2>1. out[c] = (IF eptr THEN "throw" ELSE "value") /\ out[c] \in Outcomes
    BY <1>5 DEF Finish, MailboxInv, Told, Outcomes
  <2>2. st[c] = out[c] /\ st' = [st EXCEPT ![c] = "idle"]
    BY <1>5 DEF Finish
  <2>3. got' = [got EXCEPT ![c] = st[c]] /\ dtor' = dtor
    BY <1>5, <2>1, <2>2 DEF Finish
  <2> QED BY <2>1, <2>2, <2>3 DEF Abstract!Return
<1>6. ASSUME NEW t \in Threads, CvStep(t) \/ SpuriousWakeup(t)
      PROVE UNCHANGED Abstract!vars
  BY <1>6, <1>a
  DEF CvStep, TestPredicate, Block, Wake, Acquire, SpuriousWakeup, Proceed
<1>7. CASE DestructorSetsRet
  <2>1. (\A c \in Callers : st[c] = "idle") /\ st' = st
    BY <1>7 DEF DestructorSetsRet
  <2>2. Abstract!Close
    BY <1>7, <2>1 DEF DestructorSetsRet, Abstract!Close
  <2> QED BY <2>2 DEF Abstract!Next
<1>8. CASE DestructorNotifyAll \/ DestructorJoin
  <2>1. st' = st
    BY <1>8 DEF DestructorNotifyAll, DestructorJoin
  <2> QED BY <1>8, <2>1 DEF DestructorNotifyAll, DestructorJoin, Abstract!vars
<1>9. CASE UNCHANGED vars
  BY <1>9, <1>a DEF vars
<1> QED
  BY <1>1, <1>2, <1>3, <1>4, <1>5, <1>6, <1>7, <1>8, <1>9
  DEF Next, WorkerStep, CallerStep, Destructor, Abstract!Next

\* Every behaviour of the runner is one of the synchronous call of SyncCall:
\* run executes its closure once and returns or rethrows its outcome.
THEOREM RunnerImplementsSyncCall == ASSUME Exclusive PROVE Spec => Abstract!Spec
<1>1. Init => Abstract!Init
  BY ThreadsAssumption DEF Init, Abstract!Init, Threads
<1> QED
  BY <1>1, RefinementStep, MailboxInvariant, SlotInvariant, Typing, PTL
  DEF Spec, Abstract!Spec

-----------------------------------------------------------------------------
(* EventEmitter: the walks of emit_event                                   *)

Walks == [first : Nat \ {0}, result : Nat \ {0}, last : Nat, calling : BOOLEAN]
Entries == Listeners \cup {Empty}

LEMMA FrontIs ==
  ASSUME NEW A, NEW s \in Seq(A), s # <<>>
  PROVE  /\ Len(s) \in Nat \ {0} /\ DOMAIN s = 1 .. Len(s) /\ Last(s) = s[Len(s)] /\ Last(s) \in A
         /\ Front(s) \in Seq(A) /\ Len(Front(s)) = Len(s) - 1
         /\ \A k \in 1 .. Len(s) - 1 : Front(s)[k] = s[k]
<1>1. Len(s) \in Nat \ {0} /\ DOMAIN s = 1 .. Len(s)
  BY EmptySeq
<1>2. /\ SubSeq(s, 1, Len(s) - 1) \in Seq(A)
      /\ Len(SubSeq(s, 1, Len(s) - 1)) = Len(s) - 1
      /\ \A k \in 1 .. Len(s) - 1 : SubSeq(s, 1, Len(s) - 1)[k] = s[k]
  BY <1>1
<1> QED
  BY <1>1, <1>2 DEF Front, Last

LEMMA Updated ==
  ASSUME walks \in Seq(Walks), walks # <<>>, NEW w \in Walks, Update(w)
  PROVE  /\ walks' \in Seq(Walks) /\ walks' # <<>> /\ Len(walks') = Len(walks)
         /\ DOMAIN walks' = 1 .. Len(walks)
         /\ \A k \in 1 .. Len(walks) : walks'[k] = IF k = Len(walks) THEN w ELSE walks[k]
<1>1. PICK u \in Seq(Walks) : u = Front(walks) /\ Len(u) = Len(walks) - 1
                              /\ \A k \in 1 .. Len(walks) - 1 : u[k] = walks[k]
  BY FrontIs
<1>2. walks' = Append(u, w) /\ Len(walks) \in Nat \ {0}
  BY <1>1, FrontIs DEF Update
<1>3. /\ walks' \in Seq(Walks) /\ walks' # <<>> /\ Len(walks') = Len(u) + 1
      /\ \A k \in 1 .. Len(u) : walks'[k] = u[k]
      /\ walks'[Len(u) + 1] = w
  BY <1>2, AppendProperties
<1>4. DOMAIN walks' = 1 .. Len(walks')
  BY <1>3
<1>5. ASSUME NEW k \in 1 .. Len(walks) PROVE walks'[k] = IF k = Len(walks) THEN w ELSE walks[k]
  <2>1. k = Len(u) + 1 \/ k \in 1 .. Len(u)
    BY <1>1, <1>2
  <2> QED
    BY <1>1, <1>2, <1>3, <2>1
<1> QED
  BY <1>1, <1>2, <1>3, <1>4, <1>5

LEMMA Assemble ==
  ASSUME list' \in Seq(Entries), live' \subseteq Listeners, wanted' \subseteq Listeners,
         walks' \in Seq(Walks), undefined' = FALSE,
         \A k \in DOMAIN walks' : InStep(k)',
         NestedSafely', KeptWhole', Reached'
  PROVE  EmitterInv'
<1>1. ASSUME NEW k \in DOMAIN walks'
      PROVE  walks'[k].result <= walks'[k].first /\ walks'[k].last <= Len(list')
  <2>1. InStep(k)'
    BY <1>1
  <2>2. Len(list') \in Nat
    OBVIOUS
  <2> QED
    BY <2>1, <2>2 DEF InStep
<1>2. EmitterTypeOK'
  BY <1>1 DEF EmitterTypeOK, Entries, Walks
<1> QED
  BY <1>2 DEF EmitterInv

LEMMA Known ==
  ASSUME EmitterInv
  PROVE  /\ list \in Seq(Entries) /\ live \subseteq Listeners /\ wanted \subseteq Listeners
         /\ walks \in Seq(Walks) /\ undefined = FALSE
         /\ Len(list) \in Nat /\ DOMAIN list = 1 .. Len(list)
         /\ Len(walks) \in Nat /\ DOMAIN walks = 1 .. Len(walks)
         /\ Empty \notin live /\ Nobody \notin live
BY EmitterAssumption DEF EmitterInv, EmitterTypeOK, Entries, Walks

LEMMA EmitterStart == EmitterInit => EmitterInv
<1> SUFFICES ASSUME EmitterInit PROVE EmitterInv
  OBVIOUS
<1>1. /\ list = <<>> /\ live = Listeners /\ walks = <<>> /\ wanted = {} /\ undefined = FALSE
      /\ DOMAIN <<>> = {} /\ Len(<<>>) = 0
  BY DEF EmitterInit
<1>2. EmitterTypeOK
  <2>1. \A A : <<>> \in Seq(A)
    OBVIOUS
  <2>2. list \in Seq(Listeners \cup {Empty})
    BY <1>1, <2>1
  <2>3. walks \in Seq([first : Nat \ {0}, result : Nat \ {0}, last : Nat, calling : BOOLEAN])
    BY <1>1, <2>1, Zenon
  <2> QED
    BY <1>1, <2>2, <2>3 DEF EmitterTypeOK
<1>3. ~undefined /\ NestedSafely /\ KeptWhole /\ Reached /\ \A k \in DOMAIN walks : InStep(k)
  BY <1>1 DEF NestedSafely, KeptWhole, Reached
<1> QED
  BY <1>2, <1>3 DEF EmitterInv

(* Between emissions, whatever the client does: a listener does no more than emit *)
LEMMA NoWalk ==
  ASSUME EmitterInv, Reenters \subseteq {"emit"}, NEW op \in {"add", "remove"}, May(op)
  PROVE  walks = <<>> /\ DOMAIN walks = {} /\ Len(walks) = 0
<1>1. walks = <<>>
  BY DEF May
<1> QED
  BY <1>1

LEMMA AddKeeps ==
  ASSUME EmitterInv, Reenters \subseteq {"emit"}, NEW l \in Listeners, AddListener(l)
  PROVE  EmitterInv'
<1>1. walks = <<>> /\ DOMAIN walks = {} /\ Len(walks) = 0
  BY NoWalk DEF AddListener
<1>2. /\ list' = Append(list, l) /\ wanted' = wanted \cup {l} /\ undefined' = FALSE
      /\ live' = live /\ walks' = walks /\ l \in live
  BY <1>1 DEF AddListener
<1>3. PICK s \in Seq(Entries) : s = list /\ DOMAIN s = 1 .. Len(s) /\ Len(s) \in Nat
  BY Known
<1>4. l \in Entries
  BY DEF Entries
<1>5. /\ list' \in Seq(Entries) /\ Len(list') = Len(s) + 1
      /\ (\A i \in 1 .. Len(s) : list'[i] = s[i]) /\ list'[Len(s) + 1] = l
  BY <1>2, <1>3, <1>4, AppendProperties
<1>6. DOMAIN list' = 1 .. Len(s) + 1
  BY <1>5
<1>7. KeptWhole'
  BY <1>1, <1>2 DEF KeptWhole
<1>8. Reached'
  <2> SUFFICES ASSUME NEW m \in wanted' \cap live' PROVE \E i \in 1 .. Len(s) + 1 : list'[i] = m
    BY <1>5 DEF Reached, Contains
  <2>1. CASE m = l
    BY <1>3, <1>5, <2>1
  <2>2. CASE m # l
    <3>1. m \in wanted \cap live
      BY <1>2, <2>2
    <3>2. PICK i \in 1 .. Len(s) : s[i] = m
      BY <1>3, <3>1 DEF EmitterInv, Reached, Contains
    <3> QED
      BY <1>3, <1>5, <3>2
  <2> QED
    BY <2>1, <2>2
<1>9. NestedSafely' /\ \A k \in DOMAIN walks' : InStep(k)'
  BY <1>1, <1>2 DEF NestedSafely
<1> QED
  BY <1>2, <1>5, <1>7, <1>8, <1>9, Known, Assemble

LEMMA RemoveKeeps ==
  ASSUME EmitterInv, Reenters \subseteq {"emit"}, NEW l \in Listeners, RemoveListener(l)
  PROVE  EmitterInv'
<1>1. walks = <<>> /\ DOMAIN walks = {} /\ Len(walks) = 0
  BY NoWalk DEF RemoveListener
<1>2. /\ list' = Those(list, live \ {l}) /\ wanted' = wanted \ {l} /\ undefined' = FALSE
      /\ live' = live /\ walks' = walks
  BY <1>1 DEF RemoveListener
<1>3. PICK s \in Seq(Entries) : s = list /\ DOMAIN s = 1 .. Len(s) /\ Len(s) \in Nat
  BY Known
<1>4. PICK t \in Seq(Entries \cap (live \ {l})) : t = list' /\ ToSet(t) = ToSet(s) \cap (live \ {l})
  BY <1>2, <1>3, ThoseInOrder
<1>5. t \in Seq(Entries) /\ DOMAIN t = 1 .. Len(t)
  BY SeqMonotonic, LenProperties
<1>6. KeptWhole'
  BY <1>1, <1>2 DEF KeptWhole
<1>7. Reached'
  <2> SUFFICES ASSUME NEW m \in wanted' \cap live' PROVE \E i \in 1 .. Len(t) : t[i] = m
    BY <1>4 DEF Reached, Contains
  <2>1. m \in wanted \cap live /\ m # l
    BY <1>2
  <2>2. PICK i \in 1 .. Len(s) : s[i] = m
    BY <1>3, <2>1 DEF EmitterInv, Reached, Contains
  <2>3. m \in ToSet(s) \cap (live \ {l})
    BY <1>3, <2>1, <2>2 DEF ToSet
  <2>4. m \in ToSet(t)
    BY <1>4, <2>3
  <2> QED
    BY <1>5, <2>4 DEF ToSet
<1>8. NestedSafely' /\ \A k \in DOMAIN walks' : InStep(k)'
  BY <1>1, <1>2 DEF NestedSafely
<1> QED
  BY <1>2, <1>4, <1>5, <1>6, <1>7, <1>8, Known, Assemble

LEMMA ExpireKeeps ==
  ASSUME EmitterInv, NestedSafely', NEW l \in Listeners, Expire(l)
  PROVE  EmitterInv'
<1>1. /\ live' = live \ {l} /\ list' = list /\ walks' = walks
      /\ wanted' = wanted /\ undefined' = undefined
      /\ \A k \in DOMAIN walks : walks[k].calling => list[walks[k].first] # l
  BY DEF Expire
<1>2. ASSUME NEW k \in DOMAIN walks' PROVE InStep(k)'
  <2>1. InStep(k)
    BY <1>1, <1>2 DEF EmitterInv
  <2> QED
    BY <1>1, <1>2, <2>1 DEF InStep
<1>3. KeptWhole' /\ Reached'
  BY <1>1 DEF EmitterInv, KeptWhole, Reached
<1> QED
  BY <1>1, <1>2, <1>3, Known, Assemble

LEMMA EmitKeeps ==
  ASSUME EmitterInv, NestedSafely', EmitEvent
  PROVE  EmitterInv'
<1>1. PICK n \in Nat : n = Len(walks) /\ DOMAIN walks = 1 .. n
  BY Known
<1>2. PICK w \in Walks : w = [first |-> 1, result |-> 1, last |-> Len(list), calling |-> FALSE]
  <2>1. [first |-> 1, result |-> 1, last |-> Len(list), calling |-> FALSE] \in Walks
    BY Known DEF Walks
  <2> QED
    BY <2>1
<1>3. /\ walks' = Append(walks, w) /\ list' = list /\ live' = live
      /\ wanted' = wanted /\ undefined' = undefined
      /\ n > 0 => walks[n].calling
  <2>1. walks # <<>> => walks[n].calling
    BY <1>1 DEF EmitEvent, May, Walk, Last
  <2>2. n > 0 => walks # <<>>
    BY <1>1
  <2> QED
    BY <1>2, <2>1, <2>2 DEF EmitEvent
<1>4. /\ walks' \in Seq(Walks) /\ Len(walks') = n + 1 /\ walks'[n + 1] = w
      /\ \A k \in 1 .. n : walks'[k] = walks[k]
  BY <1>1, <1>3, Known, AppendProperties
<1>5. DOMAIN walks' = 1 .. n + 1 /\ walks' # <<>>
  BY <1>4
<1>6. ASSUME NEW k \in DOMAIN walks' PROVE InStep(k)'
  <2>1. CASE k \in 1 .. n
    <3>1. InStep(k)
      BY <1>1, <2>1 DEF EmitterInv
    <3>2. walks'[k].calling \/ k < n
      BY <1>3, <1>4, <2>1
    <3> QED
      BY <1>1, <1>3, <1>4, <2>1, <3>1, <3>2 DEF InStep
  <2>2. CASE k = n + 1
    BY <1>2, <1>3, <1>4, <2>2, Known DEF InStep
  <2> QED
    BY <1>1, <1>5, <2>1, <2>2
<1>7. KeptWhole'
  <2>1. CASE n = 0
    <3>1. walks'[1].result = 1
      BY <1>2, <1>4, <2>1
    <3> QED
      BY <3>1 DEF KeptWhole
  <2>2. CASE n > 0
    <3>1. walks'[1] = walks[1] /\ walks # <<>>
      BY <1>1, <1>4, <2>2
    <3> QED
      BY <1>3, <3>1 DEF EmitterInv, KeptWhole
  <2> QED
    BY <2>1, <2>2
<1>8. Reached'
  BY <1>3 DEF EmitterInv, Reached
<1> QED
  BY <1>3, <1>4, <1>6, <1>7, <1>8, Known, Assemble

(* The innermost walk *)
LEMMA Innermost ==
  ASSUME EmitterInv, Walking
  PROVE  \E n \in Nat \ {0} :
           /\ n = Len(walks) /\ DOMAIN walks = 1 .. n /\ walks # <<>>
           /\ Walk = walks[n] /\ Walk \in Walks /\ InStep(n)
<1>1. walks \in Seq(Walks) /\ walks # <<>>
  BY Known DEF Walking
<1>2. PICK n \in Nat \ {0} : n = Len(walks) /\ DOMAIN walks = 1 .. n /\ Walk = walks[n] /\ Walk \in Walks
  BY <1>1, FrontIs DEF Walk
<1>3. InStep(n)
  BY <1>2 DEF EmitterInv
<1> QED
  BY <1>1, <1>2, <1>3

(* A step of the innermost walk, that leaves the vector alone *)
LEMMA WalkKeeps ==
  ASSUME EmitterInv, NestedSafely', Walking, NEW w \in Walks, Update(w),
         UNCHANGED <<list, live, wanted, undefined>>,
         w.last = Len(list), w.result <= w.first, w.first <= w.last + 1,
         w.calling => w.first <= w.last /\ list[w.first] \in live,
         \A i \in w.result .. w.first - 1 : list[i] \notin live,
         \A i \in 1 .. w.result - 1 : i \in 1 .. Walk.result - 1 \/ list[i] \in live,
         Len(walks) > 1 => w.result = w.first
  PROVE  EmitterInv'
<1>1. PICK n \in Nat \ {0} : /\ n = Len(walks) /\ DOMAIN walks = 1 .. n /\ walks # <<>>
                             /\ Walk = walks[n] /\ Walk \in Walks
  BY Innermost
<1>2. /\ walks' \in Seq(Walks) /\ walks' # <<>> /\ Len(walks') = n /\ DOMAIN walks' = 1 .. n
      /\ \A k \in 1 .. n : walks'[k] = IF k = n THEN w ELSE walks[k]
  BY <1>1, Known, Updated
<1>3. ASSUME NEW k \in DOMAIN walks' PROVE InStep(k)'
  <2>1. CASE k = n
    <3>1. walks'[k] = w
      BY <1>2, <2>1
    <3> QED
      BY <1>1, <1>2, <2>1, <3>1 DEF InStep
  <2>2. CASE k # n
    <3>1. InStep(k) /\ walks'[k] = walks[k]
      BY <1>1, <1>2, <1>3, <2>2 DEF EmitterInv
    <3> QED
      BY <1>1, <1>2, <1>3, <2>2, <3>1 DEF InStep
  <2> QED
    BY <2>1, <2>2
<1>4. KeptWhole'
  <2> SUFFICES ASSUME NEW i \in 1 .. walks'[1].result - 1 PROVE list[i] # Empty
    BY <1>2 DEF KeptWhole
  <2>1. \A j \in 1 .. walks[1].result - 1 : list[j] # Empty
    BY <1>1 DEF EmitterInv, KeptWhole
  <2>2. walks'[1] = IF 1 = n THEN w ELSE walks[1]
    BY <1>2
  <2> QED
    BY <1>1, <2>1, <2>2, Known
<1>5. Reached'
  BY DEF EmitterInv, Reached
<1> QED
  BY <1>2, <1>3, <1>4, <1>5, Known, Assemble

LEMMA CallKeeps ==
  ASSUME EmitterInv, NestedSafely', CallListener
  PROVE  EmitterInv'
<1>1. PICK n \in Nat \ {0} : /\ n = Len(walks) /\ Walk = walks[n] /\ Walk \in Walks /\ InStep(n)
  BY Innermost DEF CallListener, Visiting
<1>2. PICK w \in Walks : /\ w = [Walk EXCEPT !.calling = TRUE] /\ w.calling = TRUE
                         /\ w.first = Walk.first /\ w.result = Walk.result /\ w.last = Walk.last
  <2> DEFINE v == [Walk EXCEPT !.calling = TRUE]
  <2>1. v \in Walks
    BY <1>1 DEF Walks
  <2>2. v.calling = TRUE /\ v.first = Walk.first /\ v.result = Walk.result /\ v.last = Walk.last
    BY <1>1 DEF Walks
  <2> HIDE DEF v
  <2> QED
    BY <2>1, <2>2 DEF v
<1>3. Walking /\ Update(w) /\ Walk.first <= Walk.last /\ list[Walk.first] \in live
      /\ UNCHANGED <<list, live, wanted, undefined>>
  BY <1>2 DEF CallListener, Visiting
<1>4. /\ w.last = Len(list) /\ w.result <= w.first /\ w.first <= w.last + 1
      /\ \A i \in w.result .. w.first - 1 : list[i] \notin live
      /\ Len(walks) > 1 => w.result = w.first
  BY <1>1, <1>2 DEF InStep
<1> QED
  BY <1>2, <1>3, <1>4, WalkKeeps

LEMMA SkipKeeps ==
  ASSUME EmitterInv, NestedSafely', Skip
  PROVE  EmitterInv'
<1>1. PICK n \in Nat \ {0} : /\ n = Len(walks) /\ Walk = walks[n] /\ Walk \in Walks /\ InStep(n)
  BY Innermost DEF Skip, Visiting
<1>2. PICK w \in Walks : /\ w = [Walk EXCEPT !.first = @ + 1] /\ w.calling = Walk.calling
                         /\ w.first = Walk.first + 1 /\ w.result = Walk.result /\ w.last = Walk.last
  <2> DEFINE v == [Walk EXCEPT !.first = @ + 1]
  <2>1. v \in Walks
    BY <1>1 DEF Walks
  <2>2. /\ v.calling = Walk.calling /\ v.first = Walk.first + 1
        /\ v.result = Walk.result /\ v.last = Walk.last
    BY <1>1 DEF Walks
  <2> HIDE DEF v
  <2> QED
    BY <2>1, <2>2 DEF v
<1>3. Walking /\ Update(w) /\ Walk.first <= Walk.last /\ list[Walk.first] \notin live
      /\ ~w.calling /\ UNCHANGED <<list, live, wanted, undefined>>
  BY <1>2 DEF Skip, Visiting
<1>4. /\ Walk.last = Len(list) /\ Walk.result <= Walk.first
      /\ \A i \in Walk.result .. Walk.first - 1 : list[i] \notin live
  BY <1>1 DEF InStep
<1>5. Walk.result \in Nat /\ Walk.first \in Nat /\ Walk.last \in Nat
  BY <1>1 DEF Walks
<1>6. \A i \in w.result .. w.first - 1 : i = Walk.first \/ i \in Walk.result .. Walk.first - 1
  BY <1>2, <1>5
<1>7. /\ \A i \in w.result .. w.first - 1 : list[i] \notin live
      /\ w.result <= w.first /\ w.first <= w.last + 1 /\ w.last = Len(list)
  BY <1>2, <1>3, <1>4, <1>5, <1>6
<1>8. ~(Len(walks) > 1)
  <2>1. Walk.first \in Walk.first .. Walk.last
    BY <1>3, <1>5
  <2> QED
    BY <1>1, <1>3, <2>1, Innermost DEF EmitterInv, NestedSafely
<1> QED
  BY <1>2, <1>3, <1>7, <1>8, WalkKeeps

(* An entry is moved only when there is one emission *)
Moves(n, f, r) ==
  /\ n = Len(walks) /\ Walk = walks[n] /\ f = Walk.first /\ r = Walk.result
  /\ r <= f /\ Walk.last = Len(list) /\ list[f] \in live
  /\ \A i \in r .. f - 1 : list[i] \notin live
  /\ list' \in Seq(Entries) /\ Len(list') = Len(list)
  /\ r = f => list' = list
  /\ r < f => /\ n = 1 /\ list'[r] = list[f] /\ list'[f] = Empty
              /\ \A i \in 1 .. Len(list) : i # r /\ i # f => list'[i] = list[i]

LEMMA MoveIs ==
  ASSUME EmitterInv, Returned
  PROVE  \E n \in Nat \ {0}, f \in 1 .. Len(list), r \in 1 .. Len(list) : Moves(n, f, r)
<1>1. PICK n \in Nat \ {0} : /\ n = Len(walks) /\ Walk = walks[n] /\ Walk \in Walks /\ InStep(n)
  BY Innermost DEF Returned
<1>2. /\ Walk.calling /\ Walk.result <= Walk.first /\ Walk.first <= Walk.last
      /\ Walk.last = Len(list) /\ list[Walk.first] \in live
      /\ \A i \in Walk.result .. Walk.first - 1 : list[i] \notin live
  BY <1>1 DEF InStep, Returned
<1>3. PICK f \in 1 .. Len(list), r \in 1 .. Len(list) : f = Walk.first /\ r = Walk.result /\ r <= f
  BY <1>1, <1>2, Known DEF Walks
<1>4. PICK s \in Seq(Entries) : s = list /\ Len(s) \in Nat /\ DOMAIN s = 1 .. Len(s)
  BY Known
<1>5. CASE r = f
  <2>1. list' = list
    BY <1>3, <1>5 DEF Returned
  <2>2. Moves(n, f, r)
    BY <1>1, <1>2, <1>3, <1>4, <1>5, <2>1 DEF Moves
  <2> QED
    BY <2>2
<1>6. CASE r < f
  <2>1. n = 1
    <3>1. n > 1 => r = f
      BY <1>1, <1>3 DEF InStep
    <3> QED
      BY <1>6, <3>1
  <2>2. list' = [s EXCEPT ![r] = s[f], ![f] = Empty]
    BY <1>3, <1>4, <1>6 DEF Returned
  <2>3. Empty \in Entries /\ f \in 1 .. Len(s) /\ r \in 1 .. Len(s)
    BY <1>3, <1>4 DEF Entries
  <2>4. PICK t \in Seq(Entries) : /\ t = [s EXCEPT ![r] = s[f]] /\ Len(t) = Len(s)
                                  /\ \A i \in 1 .. Len(s) : t[i] = IF i = r THEN s[f] ELSE s[i]
    <3>1. PICK e \in Entries : e = s[f]
      BY <2>3, ElementOfSeq
    <3>2. /\ [s EXCEPT ![r] = e] \in Seq(Entries) /\ Len([s EXCEPT ![r] = e]) = Len(s)
          /\ \A i \in 1 .. Len(s) : [s EXCEPT ![r] = e][i] = IF i = r THEN e ELSE s[i]
      BY <2>3, ExceptSeq
    <3> QED
      BY <3>1, <3>2
  <2>5. list' = [t EXCEPT ![f] = Empty]
    BY <2>2, <2>4
  <2>6. /\ list' \in Seq(Entries) /\ Len(list') = Len(s)
        /\ \A i \in 1 .. Len(s) : list'[i] = IF i = f THEN Empty ELSE t[i]
    BY <1>3, <1>4, <2>3, <2>4, <2>5, ExceptSeq
  <2>7. /\ list'[r] = s[f] /\ list'[f] = Empty
        /\ \A i \in 1 .. Len(s) : i # r /\ i # f => list'[i] = s[i]
    BY <1>3, <1>4, <1>6, <2>4, <2>6
  <2>8. /\ r <= f /\ Walk.last = Len(list) /\ list[f] \in live
        /\ \A i \in r .. f - 1 : list[i] \notin live
        /\ list' \in Seq(Entries) /\ Len(list') = Len(list)
        /\ n = 1 /\ list'[r] = list[f] /\ list'[f] = Empty
        /\ \A i \in 1 .. Len(list) : i # r /\ i # f => list'[i] = list[i]
    BY <1>2, <1>3, <1>4, <2>1, <2>6, <2>7
  <2>9. /\ r = f => list' = list
        /\ r < f => /\ n = 1 /\ list'[r] = list[f] /\ list'[f] = Empty
                    /\ \A i \in 1 .. Len(list) : i # r /\ i # f => list'[i] = list[i]
    BY <1>6, <2>8
  <2> QED
    <3>1. Walk = walks[n] /\ n = Len(walks) /\ f = Walk.first /\ r = Walk.result
      BY <1>1, <1>3
    <3>2. Moves(n, f, r)
      BY <2>8, <2>9, <3>1 DEF Moves
    <3> QED
      BY <3>2
<1> QED
  BY <1>3, <1>5, <1>6

LEMMA ReturnedKeeps ==
  ASSUME EmitterInv, NestedSafely', Returned
  PROVE  EmitterInv'
<1>1. PICK n \in Nat \ {0}, f \in 1 .. Len(list), r \in 1 .. Len(list) : Moves(n, f, r)
  BY MoveIs
<1> USE DEF Moves
<1>2. Walk \in Walks /\ DOMAIN walks = 1 .. n /\ walks # <<>> /\ walks \in Seq(Walks)
  BY <1>1, Known, Innermost DEF Returned
<1>3. PICK w \in Walks : /\ w = [Walk EXCEPT !.calling = FALSE, !.first = @ + 1, !.result = @ + 1]
                         /\ w.calling = FALSE /\ w.first = f + 1 /\ w.result = r + 1
                         /\ w.last = Len(list)
  <2> DEFINE v == [Walk EXCEPT !.calling = FALSE, !.first = @ + 1, !.result = @ + 1]
  <2>1. Walk.first + 1 \in Nat \ {0} /\ Walk.result + 1 \in Nat \ {0}
    <3>1. Walk.first \in Nat \ {0} /\ Walk.result \in Nat \ {0}
      BY <1>2 DEF Walks
    <3> QED
      BY <3>1
  <2>2. [Walk EXCEPT !.calling = FALSE, !.first = @ + 1] \in Walks
    BY <1>2, <2>1 DEF Walks
  <2>3. v \in Walks
    BY <2>1, <2>2 DEF Walks
  <2>4. v.calling = FALSE
    BY <1>2 DEF Walks
  <2>5. v.first = f + 1
    BY <1>1, <1>2 DEF Walks
  <2>6. v.result = r + 1
    BY <1>1, <1>2 DEF Walks
  <2>7. v.last = Len(list)
    BY <1>1, <1>2 DEF Walks
  <2> HIDE DEF v
  <2> QED
    BY <2>3, <2>4, <2>5, <2>6, <2>7 DEF v
<1>4. Update(w) /\ Walking /\ live' = live /\ wanted' = wanted /\ undefined' = undefined
  BY <1>3 DEF Returned
<1>5. CASE r = f
  <2>1. /\ \A i \in w.result .. w.first - 1 : list[i] \notin live
        /\ \A i \in 1 .. w.result - 1 : i \in 1 .. Walk.result - 1 \/ list[i] \in live
    <3>1. \A i \in 1 .. w.result - 1 : i \in 1 .. r - 1 \/ i = f
      BY <1>3, <1>5
    <3> QED
      BY <1>1, <1>3, <1>5, <3>1
  <2>2. w.result <= w.first /\ w.first <= w.last + 1 /\ w.result = w.first
    BY <1>1, <1>3, <1>5
  <2> QED
    BY <1>1, <1>3, <1>4, <1>5, <2>1, <2>2, WalkKeeps
<1>6. CASE r < f
  <2>1. /\ walks' \in Seq(Walks) /\ walks' # <<>> /\ DOMAIN walks' = 1 .. 1 /\ walks'[1] = w
        /\ Len(walks') = 1
    <3>1. /\ walks' \in Seq(Walks) /\ walks' # <<>> /\ Len(walks') = Len(walks)
          /\ DOMAIN walks' = 1 .. Len(walks)
          /\ \A k \in 1 .. Len(walks) : walks'[k] = IF k = Len(walks) THEN w ELSE walks[k]
      BY <1>2, <1>4, Updated
    <3>2. Len(walks) = 1 /\ 1 \in 1 .. Len(walks)
      BY <1>1, <1>6
    <3> QED
      BY <3>1, <3>2
  <2>2. Empty \notin live /\ Len(list) \in Nat /\ DOMAIN list = 1 .. Len(list)
    BY Known
  <2>3. DOMAIN list' = 1 .. Len(list)
    BY <1>1, <2>2
  <2>4. ASSUME NEW i \in r + 1 .. f PROVE list'[i] \notin live
    <3>1. CASE i = f
      BY <1>1, <1>6, <2>2, <3>1
    <3>2. CASE i # f
      <4>1. i \in 1 .. Len(list) /\ i # r /\ i \in r .. f - 1
        BY <3>2
      <4>2. list'[i] = list[i] /\ list[i] \notin live
        BY <1>1, <1>6, <3>2, <4>1
      <4> QED
        BY <4>2
    <3> QED
      BY <3>1, <3>2
  <2>5. InStep(1)'
    <3>1. /\ w.result <= w.first /\ w.first <= w.last + 1 /\ w.last = Len(list')
          /\ w.calling = FALSE
      <4>1. Len(list') = Len(list) /\ r <= f
        BY <1>1
      <4> QED
        BY <1>3, <4>1
    <3>2. \A i \in w.result .. w.first - 1 : list'[i] \notin live'
      BY <1>3, <1>4, <2>4
    <3>3. walks'[1] = w /\ ~(1 < Len(walks'))
      BY <2>1
    <3> QED
      BY <3>1, <3>2, <3>3 DEF InStep
  <2>6. KeptWhole'
    <3> SUFFICES ASSUME NEW i \in 1 .. r PROVE list'[i] # Empty
      BY <1>3, <2>1 DEF KeptWhole
    <3>1. CASE i = r
      BY <1>1, <1>6, <2>2, <3>1
    <3>2. CASE i \in 1 .. r - 1
      <4>1. list'[i] = list[i]
        BY <1>1, <1>6, <3>2
      <4>2. list[i] # Empty
        BY <1>1, <1>2, <1>6, <3>2 DEF EmitterInv, KeptWhole
      <4> QED
        BY <4>1, <4>2
    <3> QED
      BY <3>1, <3>2
  <2>7. Reached'
    <3> SUFFICES ASSUME NEW m \in wanted \cap live
                 PROVE  \E i \in 1 .. Len(list) : list'[i] = m
      BY <1>1, <1>4 DEF Reached, Contains
    <3>1. PICK i \in 1 .. Len(list) : list[i] = m
      BY DEF EmitterInv, Reached, Contains
    <3>2. CASE i = f
      BY <1>1, <1>6, <3>1, <3>2
    <3>3. CASE i # f
      <4>1. i # r
        BY <1>1, <1>6, <3>1
      <4> QED
        BY <1>1, <1>6, <3>1, <3>3, <4>1
    <3> QED
      BY <3>2, <3>3
  <2>8. \A k \in DOMAIN walks' : InStep(k)'
    <3> SUFFICES ASSUME NEW k \in DOMAIN walks' PROVE InStep(k)'
      OBVIOUS
    <3>1. k = 1
      BY <2>1
    <3> QED
      BY <2>5, <3>1
  <2> QED
    BY <1>1, <1>4, <2>1, <2>6, <2>7, <2>8, Known, Assemble
<1> QED
  BY <1>1, <1>5, <1>6

(* A walk that goes on *)
LEMMA SameDepth ==
  ASSUME EmitterInv, CallListener \/ Skip \/ Returned
  PROVE  Len(walks') = Len(walks) /\ DOMAIN walks' = 1 .. Len(walks')
<1>1. Walking /\ Walk \in Walks
  BY Innermost DEF CallListener, Skip, Returned, Visiting
<1>2. ASSUME NEW w \in Walks, Update(w)
      PROVE  Len(walks') = Len(walks) /\ DOMAIN walks' = 1 .. Len(walks')
  BY <1>1, <1>2, Known, Updated DEF Walking
<1>3. /\ [Walk EXCEPT !.calling = TRUE] \in Walks
      /\ [Walk EXCEPT !.first = @ + 1] \in Walks
      /\ [Walk EXCEPT !.calling = FALSE, !.first = @ + 1, !.result = @ + 1] \in Walks
  <2>1. /\ Walk.first \in Nat \ {0} /\ Walk.result \in Nat \ {0}
        /\ [Walk EXCEPT !.calling = TRUE] \in Walks /\ [Walk EXCEPT !.calling = FALSE] \in Walks
    BY <1>1 DEF Walks
  <2>2. Walk.first + 1 \in Nat \ {0} /\ Walk.result + 1 \in Nat \ {0}
    BY <2>1
  <2>3. /\ [Walk EXCEPT !.first = @ + 1] \in Walks
        /\ [Walk EXCEPT !.calling = FALSE, !.first = @ + 1] \in Walks
    BY <1>1, <2>2 DEF Walks
  <2> QED
    BY <1>1, <2>1, <2>2, <2>3 DEF Walks
<1>4. CASE CallListener
  BY <1>2, <1>3, <1>4 DEF CallListener
<1>5. CASE Skip
  BY <1>2, <1>3, <1>5 DEF Skip
<1>6. CASE Returned
  BY <1>2, <1>3, <1>6 DEF Returned
<1> QED
  BY <1>4, <1>5, <1>6

(* The erase of an inner emission erases nothing *)
Erases(n, r) ==
  /\ n = Len(walks) /\ Walk = walks[n] /\ r = Walk.result
  /\ Walk.first = Len(list) + 1 /\ Walk.last = Len(list) /\ ~Walk.calling
  /\ \A i \in r .. Len(list) : list[i] \notin live
  /\ n > 1 => r = Len(list) + 1
  /\ list' = SubSeq(list, 1, r - 1) /\ list' \in Seq(Entries) /\ Len(list') = r - 1
  /\ \A i \in 1 .. r - 1 : list'[i] = list[i]

LEMMA EraseIs ==
  ASSUME EmitterInv, Erase
  PROVE  \E n \in Nat \ {0}, r \in 1 .. Len(list) + 1 : Erases(n, r)
<1>1. PICK n \in Nat \ {0} : /\ n = Len(walks) /\ Walk = walks[n] /\ Walk \in Walks /\ InStep(n)
  BY Innermost DEF Erase
<1>2. PICK s \in Seq(Entries) : s = list /\ Len(s) \in Nat /\ DOMAIN s = 1 .. Len(s)
  BY Known
<1>3. /\ ~Walk.calling /\ Walk.first = Len(s) + 1 /\ Walk.last = Len(s)
      /\ Walk.result <= Walk.first /\ \A i \in Walk.result .. Walk.first - 1 : s[i] \notin live
  <2>1. ~Walk.calling /\ Walk.first > Walk.last
    BY DEF Erase
  <2>2. /\ Walk.last = Len(s) /\ Walk.result <= Walk.first /\ Walk.first <= Walk.last + 1
        /\ \A i \in Walk.result .. Walk.first - 1 : s[i] \notin live
    BY <1>1, <1>2 DEF InStep
  <2>3. Walk.first \in Nat /\ Walk.last \in Nat
    BY <1>1 DEF Walks
  <2> QED
    BY <2>1, <2>2, <2>3
<1>4. PICK r \in 1 .. Len(s) + 1 : r = Walk.result /\ \A i \in r .. Len(s) : s[i] \notin live
  BY <1>1, <1>2, <1>3 DEF Walks
<1>5. n > 1 => r = Len(s) + 1
  BY <1>1, <1>3, <1>4 DEF InStep
<1>6. list' = SubSeq(s, 1, r - 1) \o SubSeq(s, Len(s) + 1, Len(s))
  BY <1>2, <1>3, <1>4 DEF Erase
<1>7. SubSeq(s, Len(s) + 1, Len(s)) = <<>>
  BY <1>2, SubSeqEmpty
<1>8. PICK t \in Seq(Entries) : /\ t = SubSeq(s, 1, r - 1) /\ Len(t) = r - 1
                                /\ \A i \in 1 .. r - 1 : t[i] = s[i]
  <2>1. 1 \in Nat \ {0} /\ r - 1 \in 0 .. Len(s)
    BY <1>2
  <2>2. PICK t \in Seq(Entries) : t = SubSeq(s, 1, r - 1)
    BY <2>1, Part
  <2>3. /\ Len(t) = IF 1 <= r - 1 THEN (r - 1) - 1 + 1 ELSE 0
        /\ \A i \in 1 .. (r - 1) - 1 + 1 : t[i] = s[1 + i - 1]
    BY <2>1, <2>2, Part
  <2>4. \A i \in 1 .. r - 1 : i \in 1 .. (r - 1) - 1 + 1 /\ 1 + i - 1 = i
    BY <1>2
  <2>5. Len(t) = r - 1
    BY <1>2, <2>3
  <2>6. \A i \in 1 .. r - 1 : t[i] = s[i]
    BY <2>3, <2>4
  <2> QED
    BY <2>2, <2>5, <2>6
<1>9. list' = t
  BY <1>6, <1>7, <1>8, ConcatEmptySeq
<1>10. Erases(n, r)
  BY <1>1, <1>2, <1>3, <1>4, <1>5, <1>8, <1>9 DEF Erases
<1> QED
  BY <1>2, <1>10

LEMMA EraseKeeps ==
  ASSUME EmitterInv, NestedSafely', Erase
  PROVE  EmitterInv'
<1>1. PICK n \in Nat \ {0}, r \in 1 .. Len(list) + 1 : Erases(n, r)
  BY EraseIs
<1> USE DEF Erases
<1>2. walks \in Seq(Walks) /\ walks # <<>> /\ DOMAIN walks = 1 .. n
  BY <1>1, Known DEF Erase, Walking
<1>3. /\ walks' \in Seq(Walks) /\ Len(walks') = n - 1
      /\ \A k \in 1 .. n - 1 : walks'[k] = walks[k]
  <2>1. /\ Front(walks) \in Seq(Walks) /\ Len(Front(walks)) = Len(walks) - 1
        /\ \A k \in 1 .. Len(walks) - 1 : Front(walks)[k] = walks[k]
    BY <1>2, FrontIs
  <2>2. walks' = Front(walks)
    BY DEF Erase
  <2> QED
    BY <1>1, <2>1, <2>2
<1>4. DOMAIN walks' = 1 .. n - 1 /\ (walks' # <<>> <=> n > 1)
  BY <1>3, LenProperties, EmptySeq
<1>5. Len(list) \in Nat /\ DOMAIN list = 1 .. Len(list) /\ DOMAIN list' = 1 .. r - 1
  BY <1>1, Known, LenProperties
<1>6. live' = live /\ wanted' = wanted /\ undefined' = FALSE
  <2>1. undefined' = (walks' # <<>> /\ Len(list') < Len(list))
    BY DEF Erase
  <2>2. ~(walks' # <<>> /\ Len(list') < Len(list))
    BY <1>1, <1>4, <1>5
  <2> QED
    BY <2>1, <2>2 DEF Erase
<1>7. ASSUME NEW k \in DOMAIN walks' PROVE InStep(k)'
  <2>1. k \in 1 .. n - 1 /\ n > 1 /\ walks'[k] = walks[k] /\ InStep(k) /\ walks[k] \in Walks
    BY <1>2, <1>3, <1>4, <1>7 DEF EmitterInv
  <2>2. Len(list') = Len(list) /\ \A i \in 1 .. Len(list) : list'[i] = list[i]
    <3>1. r - 1 = Len(list)
      BY <1>1, <1>5, <2>1
    <3>2. Len(list') = r - 1 /\ \A i \in 1 .. r - 1 : list'[i] = list[i]
      BY <1>1
    <3> QED
      BY <3>1, <3>2
  <2>3. /\ walks[k].result <= walks[k].first /\ walks[k].first <= Len(list) + 1
        /\ walks[k].last = Len(list) /\ walks[k].calling /\ walks[k].first <= walks[k].last
        /\ list[walks[k].first] \in live
        /\ \A i \in walks[k].result .. walks[k].first - 1 : list[i] \notin live
    BY <1>1, <2>1 DEF InStep
  <2>4. list'[walks[k].first] \in live
    BY <1>5, <2>1, <2>2, <2>3 DEF Walks
  <2>5. \A i \in walks[k].result .. walks[k].first - 1 : list'[i] \notin live
    BY <1>5, <2>1, <2>2, <2>3 DEF Walks
  <2> QED
    BY <1>6, <2>1, <2>2, <2>3, <2>4, <2>5 DEF InStep
<1>8. KeptWhole'
  <2> SUFFICES ASSUME walks' # <<>>, NEW i \in 1 .. walks'[1].result - 1 PROVE list'[i] # Empty
    BY DEF KeptWhole
  <2>1. n > 1 /\ walks'[1] = walks[1] /\ InStep(1) /\ walks[1] \in Walks
    BY <1>2, <1>3, <1>4 DEF EmitterInv
  <2>2. i \in 1 .. Len(list)
    BY <1>1, <1>5, <2>1 DEF InStep, Walks
  <2>3. list'[i] = list[i]
    BY <1>1, <1>5, <2>1, <2>2
  <2>4. list[i] # Empty
    BY <1>2, <2>1 DEF EmitterInv, KeptWhole
  <2> QED
    BY <2>3, <2>4
<1>9. Reached'
  <2> SUFFICES ASSUME NEW m \in wanted \cap live PROVE \E i \in 1 .. r - 1 : list'[i] = m
    BY <1>1, <1>6 DEF Reached, Contains
  <2>1. PICK i \in 1 .. Len(list) : list[i] = m
    BY DEF EmitterInv, Reached, Contains
  <2>2. i \in 1 .. r - 1
    BY <1>1, <1>5, <2>1
  <2> QED
    BY <1>1, <2>1, <2>2
<1> QED
  BY <1>1, <1>3, <1>6, <1>7, <1>8, <1>9, Known, Assemble

(* A listener that throws takes its walk with it *)
LEMMA ThrowIs ==
  ASSUME EmitterInv, ListenerThrows
  PROVE  \E n \in Nat \ {0} :
           /\ n = Len(walks) /\ DOMAIN walks = 1 .. n /\ walks # <<>>
           /\ Walk = walks[n] /\ Walk \in Walks /\ InStep(n) /\ Walk.calling
           /\ list' = list /\ live' = live /\ wanted' = wanted /\ undefined' = undefined
           /\ walks' \in Seq(Walks) /\ Len(walks') = n - 1 /\ DOMAIN walks' = 1 .. n - 1
           /\ \A k \in 1 .. n - 1 : walks'[k] = walks[k]
<1>1. PICK n \in Nat \ {0} :
        /\ n = Len(walks) /\ DOMAIN walks = 1 .. n /\ walks # <<>>
        /\ Walk = walks[n] /\ Walk \in Walks /\ InStep(n)
  BY Innermost DEF ListenerThrows
<1>2. /\ Front(walks) \in Seq(Walks) /\ Len(Front(walks)) = Len(walks) - 1
      /\ \A k \in 1 .. Len(walks) - 1 : Front(walks)[k] = walks[k]
  BY <1>1, Known, FrontIs
<1> QED
  BY <1>1, <1>2, LenProperties DEF ListenerThrows

LEMMA ThrowKeeps ==
  ASSUME EmitterInv, NestedSafely', ListenerThrows
  PROVE  EmitterInv'
<1>1. PICK n \in Nat \ {0} :
        /\ n = Len(walks) /\ DOMAIN walks = 1 .. n /\ walks # <<>>
        /\ list' = list /\ live' = live /\ wanted' = wanted /\ undefined' = undefined
        /\ walks' \in Seq(Walks) /\ Len(walks') = n - 1 /\ DOMAIN walks' = 1 .. n - 1
        /\ \A k \in 1 .. n - 1 : walks'[k] = walks[k]
  BY ThrowIs
<1>2. ASSUME NEW k \in DOMAIN walks' PROVE InStep(k)'
  <2>1. InStep(k) /\ walks'[k] = walks[k] /\ k < n
    BY <1>1, <1>2 DEF EmitterInv
  <2> QED
    BY <1>1, <2>1 DEF InStep
<1>3. KeptWhole'
  <2> SUFFICES ASSUME walks' # <<>> PROVE walks'[1] = walks[1]
    BY <1>1 DEF EmitterInv, KeptWhole
  <2> QED
    BY <1>1
<1>4. Reached'
  BY <1>1 DEF EmitterInv, Reached
<1> QED
  BY <1>1, <1>2, <1>3, <1>4, Known, Assemble

LEMMA EmitterStep ==
  ASSUME Reenters \subseteq {"emit"}
  PROVE  EmitterInv /\ [MCNext]_emitter_vars => EmitterInv'
<1> SUFFICES ASSUME EmitterInv, [MCNext]_emitter_vars PROVE EmitterInv'
  OBVIOUS
<1>1. CASE MCNext
  <2>1. EmitterNext /\ NestedSafely'
    BY <1>1 DEF MCNext
  <2> QED
    BY <2>1, AddKeeps, RemoveKeeps, ExpireKeeps, EmitKeeps, CallKeeps, SkipKeeps,
       ReturnedKeeps, ThrowKeeps, EraseKeeps DEF EmitterNext
<1>2. CASE UNCHANGED emitter_vars
  BY <1>2 DEF emitter_vars, EmitterInv, EmitterTypeOK, NestedSafely,
              InStep, KeptWhole, Reached
<1> QED
  BY <1>1, <1>2

-----------------------------------------------------------------------------

\* The walks are in step with the vector, as long as listeners do no more than emit
\* and throw, and an emission inside another finds every listener alive, as MCSpec
\* assumes (event_emitter.hpp:54-67).
THEOREM EmitterInvariant == ASSUME Reenters \subseteq {"emit"} PROVE MCSpec => []EmitterInv
BY EmitterStart, EmitterStep, PTL DEF MCSpec

\* Every variable holds a value of its type, and iterators point into the vector.
THEOREM EmitterTypes == ASSUME Reenters \subseteq {"emit"} PROVE MCSpec => []EmitterTypeOK
<1>1. EmitterInv => EmitterTypeOK
  BY DEF EmitterInv
<1> QED
  BY <1>1, EmitterInvariant, PTL

\* A listener that was added and lives has an entry until it is removed, through all
\* the moves of all walks, and whichever of them end by an exception
\* (event_emitter.hpp:37-67).
THEOREM AddedListenersStay == ASSUME Reenters \subseteq {"emit"} PROVE MCSpec => []AddedStay
<1>1. EmitterInv => AddedStay
  BY DEF EmitterInv, Reached, AddedStay
<1> QED
  BY <1>1, EmitterInvariant, PTL

\* The entries an exception has left moved from are gone once an emission has come to
\* its end (event_emitter.hpp:58-67).
THEOREM TracesAreErased == ASSUME Reenters \subseteq {"emit"} PROVE MCSpec => LeavesNoTrace
<1>1. ASSUME EmitterInv, [MCNext]_emitter_vars, walks # <<>>, ~Walk.calling, walks' = <<>>
      PROVE  ~Contains(list', Empty)
  <2>1. Erase
    <3>1. walks' # walks
      BY <1>1
    <3>2. EmitterNext
      BY <1>1, <3>1 DEF MCNext, emitter_vars
    <3>3. ~CallListener /\ ~Skip /\ ~Returned
      <4> SUFFICES ASSUME CallListener \/ Skip \/ Returned PROVE FALSE
        OBVIOUS
      <4>1. Len(walks') = Len(walks)
        BY <1>1, SameDepth
      <4> QED
        BY <1>1, <4>1, Known
    <3>4. ~EmitEvent
      <4> SUFFICES ASSUME EmitEvent PROVE FALSE
        OBVIOUS
      <4>1. PICK w : walks' = Append(walks, w)
        BY DEF EmitEvent
      <4> QED
        BY <1>1, <4>1, Known
    <3>5. ~ListenerThrows
      BY <1>1 DEF ListenerThrows
    <3>6. ASSUME NEW l \in Listeners PROVE ~AddListener(l) /\ ~RemoveListener(l) /\ ~Expire(l)
      BY <3>1 DEF AddListener, RemoveListener, Expire
    <3> QED
      BY <3>2, <3>3, <3>4, <3>5, <3>6 DEF EmitterNext
  <2>2. PICK n \in Nat \ {0}, r \in 1 .. Len(list) + 1 : Erases(n, r)
    BY <1>1, <2>1, EraseIs
  <2>3. n = 1
    <3>1. Len(Front(walks)) = n - 1
      BY <1>1, <2>2, Known, FrontIs DEF Erases
    <3>2. Front(walks) = <<>>
      BY <1>1, <2>1 DEF Erase
    <3> QED
      BY <3>1, <3>2
  <2>4. \A i \in 1 .. r - 1 : list'[i] = list[i] /\ list[i] # Empty
    BY <1>1, <2>2, <2>3 DEF Erases, EmitterInv, KeptWhole
  <2>5. DOMAIN list' = 1 .. r - 1
    BY <2>2, LenProperties DEF Erases
  <2> QED
    BY <2>4, <2>5 DEF Contains
<1>2. EmitterInv /\ [MCNext]_emitter_vars =>
        [walks # <<>> /\ ~Walk.calling /\ walks' = <<>> => ~Contains(list', Empty)]_emitter_vars
  BY <1>1
<1> QED
  BY <1>2, EmitterInvariant, PTL DEF MCSpec, LeavesNoTrace

-----------------------------------------------------------------------------
(* What the listeners see                                                  *)

NoticeOf(s, L, w) ==
  [now |-> IF w.calling THEN s[w.first] ELSE Nobody,
   rest |-> Those(SubSeq(s, w.first + (IF w.calling THEN 1 ELSE 0), w.last), L)]

LEMMA SeenNow ==
  /\ Registered = Those(list, live)
  /\ Telling = [k \in DOMAIN walks |-> NoticeOf(list, live, walks[k])]
BY DEF Registered, Telling, Notice, Living, NoticeOf

LEMMA SeenNext ==
  /\ Registered' = Those(list', live')
  /\ Telling' = [k \in DOMAIN walks' |-> NoticeOf(list', live', walks'[k])]
BY DEF Registered, Telling, Notice, Living, NoticeOf

(* Functions as sequences *)
Upto(f, n) == f = [k \in 1 .. n |-> f[k]]
Agree(f, g, n) == \A k \in 1 .. n : g[k] = f[k]

LEMMA AsSeq ==
  ASSUME NEW n \in Nat, NEW f, f = [k \in 1 .. n |-> f[k]],
         NEW A, \A k \in 1 .. n : f[k] \in A
  PROVE  f \in Seq(A) /\ Len(f) = n
<1>1. f \in [1 .. n -> A]
  OBVIOUS
<1> QED
  BY <1>1

LEMMA LastReplaced ==
  ASSUME NEW n \in Nat \ {0}, NEW f, Upto(f, n),
         NEW g, Upto(g, n), Agree(f, g, n - 1)
  PROVE  f # <<>> /\ Last(f) = f[n] /\ g = Append(Front(f), g[n])
<1> USE DEF Upto, Agree
<1>1. PICK A : A = {f[k] : k \in 1 .. n} \cup {g[n]}
  OBVIOUS
<1>2. \A k \in 1 .. n : f[k] \in A /\ g[k] \in A
  <2> TAKE k \in 1 .. n
  <2>1. f[k] \in A
    BY <1>1
  <2>2. k = n \/ k \in 1 .. n - 1
    OBVIOUS
  <2>3. g[n] \in A
    BY <1>1
  <2> QED
    BY <2>1, <2>2, <2>3
<1>3. f \in Seq(A) /\ Len(f) = n /\ g \in Seq(A) /\ Len(g) = n
  BY <1>2, AsSeq
<1>4. f # <<>>
  BY <1>3
<1>5. PICK u \in Seq(A) : u = Front(f) /\ Len(u) = n - 1 /\ \A k \in 1 .. n - 1 : u[k] = f[k]
  <2>1. /\ Front(f) \in Seq(A) /\ Len(Front(f)) = Len(f) - 1
        /\ \A k \in 1 .. Len(f) - 1 : Front(f)[k] = f[k]
    BY <1>3, <1>4, FrontIs
  <2> QED
    BY <1>3, <2>1
<1>6. PICK v \in Seq(A) : /\ v = Append(u, g[n]) /\ Len(v) = n /\ v[n] = g[n]
                          /\ \A k \in 1 .. n - 1 : v[k] = u[k]
  <2>1. g[n] \in A
    BY <1>2
  <2>2. /\ Append(u, g[n]) \in Seq(A) /\ Len(Append(u, g[n])) = Len(u) + 1
        /\ (\A k \in 1 .. Len(u) : Append(u, g[n])[k] = u[k]) /\ Append(u, g[n])[Len(u) + 1] = g[n]
    BY <2>1, AppendProperties
  <2>3. Len(u) + 1 = n
    BY <1>5
  <2>4. \A k \in 1 .. n - 1 : k \in 1 .. Len(u)
    BY <1>5
  <2> QED
    BY <2>2, <2>3, <2>4
<1>7. ASSUME NEW k \in 1 .. n PROVE v[k] = g[k]
  <2>1. k = n \/ k \in 1 .. n - 1
    OBVIOUS
  <2> QED
    BY <1>5, <1>6, <2>1
<1>8. v = g
  BY <1>3, <1>6, <1>7, SeqEqual
<1>9. Last(f) = f[n]
  BY <1>3, <1>4, FrontIs
<1> QED
  BY <1>4, <1>5, <1>6, <1>8, <1>9

LEMMA OneMore ==
  ASSUME NEW n \in Nat, NEW f, Upto(f, n),
         NEW g, Upto(g, n + 1), Agree(f, g, n)
  PROVE  g = Append(f, g[n + 1])
<1> USE DEF Upto, Agree
<1>1. PICK A : A = {g[k] : k \in 1 .. n + 1}
  OBVIOUS
<1>2. /\ \A k \in 1 .. n + 1 : g[k] \in A
      /\ \A k \in 1 .. n : f[k] \in A
  BY <1>1
<1>3. f \in Seq(A) /\ Len(f) = n
  BY <1>2, AsSeq
<1>4. g \in Seq(A) /\ Len(g) = n + 1
  BY <1>2, AsSeq
<1>5. PICK e \in A : e = g[n + 1]
  <2>1. n + 1 \in 1 .. n + 1
    OBVIOUS
  <2> QED
    BY <1>2, <2>1
<1>6. PICK v \in Seq(A) : /\ v = Append(f, e) /\ Len(v) = n + 1 /\ v[n + 1] = e
                          /\ \A k \in 1 .. n : v[k] = f[k]
  <2>1. /\ Append(f, e) \in Seq(A) /\ Len(Append(f, e)) = Len(f) + 1
        /\ (\A k \in 1 .. Len(f) : Append(f, e)[k] = f[k]) /\ Append(f, e)[Len(f) + 1] = e
    BY <1>3, AppendProperties
  <2> QED
    BY <1>3, <2>1
<1>7. ASSUME NEW k \in 1 .. n + 1 PROVE v[k] = g[k]
  <2>1. k = n + 1 \/ k \in 1 .. n
    OBVIOUS
  <2> QED
    BY <1>5, <1>6, <2>1
<1> QED
  BY <1>4, <1>5, <1>6, <1>7, SeqEqual

LEMMA OneLess ==
  ASSUME NEW n \in Nat \ {0}, NEW f, Upto(f, n),
         NEW g, Upto(g, n - 1), Agree(f, g, n - 1)
  PROVE  f # <<>> /\ Last(f) = f[n] /\ g = Front(f)
<1> USE DEF Upto, Agree
<1>1. PICK A : A = {f[k] : k \in 1 .. n}
  OBVIOUS
<1>2. \A k \in 1 .. n : f[k] \in A
  BY <1>1
<1>3. \A k \in 1 .. n - 1 : g[k] \in A
  <2> TAKE k \in 1 .. n - 1
  <2>1. k \in 1 .. n
    OBVIOUS
  <2>2. f[k] \in A
    BY <1>2, <2>1
  <2>3. g[k] = f[k]
    OBVIOUS
  <2> QED
    BY <2>2, <2>3
<1>4. f \in Seq(A) /\ Len(f) = n
  BY <1>2, AsSeq
<1>5. n - 1 \in Nat
  OBVIOUS
<1>6. g \in Seq(A) /\ Len(g) = n - 1
  BY <1>5, <1>3, AsSeq
<1>7. f # <<>>
  BY <1>4
<1>8. PICK u \in Seq(A) : u = Front(f) /\ Len(u) = n - 1 /\ \A k \in 1 .. n - 1 : u[k] = f[k]
  <2>1. /\ Front(f) \in Seq(A) /\ Len(Front(f)) = Len(f) - 1
        /\ \A k \in 1 .. Len(f) - 1 : Front(f)[k] = f[k]
    BY <1>4, <1>7, FrontIs
  <2> QED
    BY <1>4, <2>1
<1>9. g = u
  BY <1>6, <1>8, SeqEqual
<1> QED
  BY <1>4, <1>7, <1>8, <1>9, FrontIs

(* Notification selects like EventEmitter *)
LEMMA SameThose == \A s, S : Promise!Those(s, S) = Those(s, S)
BY DEF Promise!Those, Those

LEMMA SameEnds == \A s : Promise!Last(s) = Last(s) /\ Promise!Front(s) = Front(s)
BY DEF Promise!Last, Last, Promise!Front, Front

(* Leaving a listener out of those who live *)
LEMMA WithoutOne ==
  ASSUME NEW A, NEW s \in Seq(A), NEW L \in SUBSET Listeners, NEW l
  PROVE  Promise!Without(Those(s, L), l) = Those(s, L \ {l})
<1>1. Those(Those(s, L), Listeners \ {l}) = Those(s, L \cap (Listeners \ {l}))
  BY ThoseOfThose
<1>2. L \cap (Listeners \ {l}) = L \ {l}
  OBVIOUS
<1> QED
  BY <1>1, <1>2, SameThose DEF Promise!Without

LEMMA AddSeen ==
  ASSUME EmitterInv, Reenters \subseteq {"emit"}, NEW l \in Listeners, AddListener(l)
  PROVE  Promise!Next
<1>1. walks = <<>> /\ DOMAIN walks = {} /\ Len(walks) = 0
  BY NoWalk DEF AddListener
<1>2. list' = Append(list, l) /\ live' = live /\ walks' = walks /\ l \in live
  BY DEF AddListener
<1>3. Those(Append(list, l), live) = Append(Those(list, live), l)
  <2>1. list \in Seq(Entries) /\ l \in Entries
    BY Known DEF Entries
  <2> QED
    BY <1>2, <2>1, ThoseAppend
<1>4. Registered' = Append(Registered, l)
  BY <1>2, <1>3, SeenNow, SeenNext
<1>5. Telling' = Telling
  <2>1. Telling = [k \in {} |-> NoticeOf(list, live, walks[k])]
    BY <1>1, SeenNow
  <2>2. Telling' = [k \in {} |-> NoticeOf(list', live', walks'[k])]
    BY <1>1, <1>2, SeenNext
  <2> QED
    BY <2>1, <2>2
<1>6. Promise!Add(l)
  BY <1>4, <1>5 DEF Promise!Add
<1> QED
  BY <1>6 DEF Promise!Next

LEMMA RemoveSeen ==
  ASSUME EmitterInv, Reenters \subseteq {"emit"}, NEW l \in Listeners, RemoveListener(l)
  PROVE  Promise!Next
<1>1. walks = <<>> /\ DOMAIN walks = {} /\ Len(walks) = 0
  BY NoWalk DEF RemoveListener
<1>2. list' = Those(list, live \ {l}) /\ live' = live /\ walks' = walks
  BY DEF RemoveListener
<1>3. list \in Seq(Entries) /\ live \in SUBSET Listeners
  BY Known
<1>4. Registered' = Promise!Without(Registered, l)
  <2>1. Promise!Without(Registered, l) = Those(list, live \ {l})
    BY <1>3, WithoutOne, SeenNow
  <2>2. Those(Those(list, live \ {l}), live) = Those(list, (live \ {l}) \cap live)
    BY <1>3, ThoseOfThose
  <2>3. (live \ {l}) \cap live = live \ {l}
    OBVIOUS
  <2> QED
    BY <1>2, <2>1, <2>2, <2>3, SeenNext
<1>5. Telling' = [k \in DOMAIN Telling |->
                   [Telling[k] EXCEPT !.rest = Promise!Without(@, l)]]
  <2>1. DOMAIN Telling = {}
    BY <1>1, SeenNow
  <2>2. Telling' = [k \in {} |-> NoticeOf(list', live', walks'[k])]
    BY <1>1, <1>2, SeenNext
  <2> QED
    BY <2>1, <2>2
<1>6. Promise!Drop(l)
  BY <1>4, <1>5 DEF Promise!Drop
<1> QED
  BY <1>6 DEF Promise!Next

LEMMA ExpireSeen ==
  ASSUME EmitterInv, NEW l \in Listeners, Expire(l)
  PROVE  Promise!Next
<1>1. /\ live' = live \ {l} /\ list' = list /\ walks' = walks
      /\ \A k \in DOMAIN walks : walks[k].calling => list[walks[k].first] # l
  BY DEF Expire
<1>2. list \in Seq(Entries) /\ live \in SUBSET Listeners
  BY Known
<1>3. Registered' = Promise!Without(Registered, l)
  BY <1>1, <1>2, WithoutOne, SeenNow, SeenNext
<1>4. ASSUME NEW k \in DOMAIN walks
      PROVE  NoticeOf(list, live \ {l}, walks[k]) =
               [NoticeOf(list, live, walks[k]) EXCEPT !.rest = Promise!Without(@, l)]
  <2>1. PICK w \in Walks : w = walks[k] /\ InStep(k)
    <3>1. walks[k] \in Walks
      BY Known, ElementOfSeq
    <3>2. InStep(k)
      BY DEF EmitterInv
    <3> QED
      BY <3>1, <3>2
  <2>2. PICK m \in Nat \ {0} : m = w.first + (IF w.calling THEN 1 ELSE 0)
    BY <2>1 DEF Walks
  <2>3. w.last \in 0 .. Len(list)
    BY <2>1, Known DEF InStep
  <2>4. PICK p \in Seq(Entries) : p = SubSeq(list, m, w.last)
    BY <1>2, <2>3, Part
  <2>5. Promise!Without(Those(p, live), l) = Those(p, live \ {l})
    BY <1>2, WithoutOne
  <2>6. PICK x : x = IF w.calling THEN list[w.first] ELSE Nobody
    OBVIOUS
  <2>7. /\ NoticeOf(list, live, w) = [now |-> x, rest |-> Those(p, live)]
        /\ NoticeOf(list, live \ {l}, w) = [now |-> x, rest |-> Those(p, live \ {l})]
    BY <2>2, <2>4, <2>6 DEF NoticeOf
  <2>8. \A a, b, c : [[now |-> a, rest |-> b] EXCEPT !.rest = c] = [now |-> a, rest |-> c]
    OBVIOUS
  <2> QED
    BY <2>1, <2>5, <2>7, <2>8
<1>5. Telling' = [k \in DOMAIN Telling |->
                   [Telling[k] EXCEPT !.rest = Promise!Without(@, l)]]
  <2>1. /\ DOMAIN Telling = DOMAIN walks
        /\ \A k \in DOMAIN walks : Telling[k] = NoticeOf(list, live, walks[k])
    BY SeenNow
  <2>2. Telling' = [k \in DOMAIN walks |-> NoticeOf(list, live \ {l}, walks[k])]
    BY <1>1, SeenNext
  <2> QED
    BY <1>4, <2>1, <2>2
<1>6. Promise!Drop(l)
  BY <1>3, <1>5 DEF Promise!Drop
<1> QED
  BY <1>6 DEF Promise!Next

LEMMA EmitSeen ==
  ASSUME EmitterInv, EmitEvent
  PROVE  Promise!Next
<1>1. PICK n \in Nat : n = Len(walks) /\ DOMAIN walks = 1 .. n
  BY Known
<1>2. PICK w \in Walks : /\ w = [first |-> 1, result |-> 1, last |-> Len(list), calling |-> FALSE]
                         /\ w.first = 1 /\ w.last = Len(list) /\ w.calling = FALSE
  <2>1. [first |-> 1, result |-> 1, last |-> Len(list), calling |-> FALSE] \in Walks
    BY Known DEF Walks
  <2> QED
    BY <2>1
<1>3. walks' = Append(walks, w) /\ list' = list /\ live' = live
  BY <1>2 DEF EmitEvent
<1>4. /\ Len(walks') = n + 1 /\ walks'[n + 1] = w /\ walks' \in Seq(Walks)
      /\ \A k \in 1 .. n : walks'[k] = walks[k]
  BY <1>1, <1>3, Known, AppendProperties
<1>5. DOMAIN walks' = 1 .. n + 1
  BY <1>4
<1>6. NoticeOf(list, live, w) = [now |-> Nobody, rest |-> Registered]
  <2>1. SubSeq(list, 1, Len(list)) = list
    BY Known, SubSeqFull
  <2>2. 1 + 0 = 1
    OBVIOUS
  <2> QED
    BY <1>2, <2>1, <2>2, SeenNow DEF NoticeOf
<1>7. PICK f : f = Telling /\ f = [k \in 1 .. n |-> f[k]]
               /\ \A k \in 1 .. n : f[k] = NoticeOf(list, live, walks[k])
  BY <1>1, SeenNow
<1>8. PICK g : g = Telling' /\ g = [k \in 1 .. n + 1 |-> g[k]]
               /\ \A k \in 1 .. n + 1 : g[k] = NoticeOf(list, live, walks'[k])
  BY <1>3, <1>5, SeenNext
<1>9. \A k \in 1 .. n : g[k] = f[k]
  BY <1>4, <1>7, <1>8
<1>10. g = Append(f, g[n + 1])
  <2>1. Upto(f, n) /\ Upto(g, n + 1) /\ Agree(f, g, n)
    BY <1>7, <1>8, <1>9 DEF Upto, Agree
  <2> QED
    BY <2>1, OneMore
<1>11. g[n + 1] = [now |-> Nobody, rest |-> Registered]
  BY <1>4, <1>6, <1>8
<1>12. Telling' = Append(Telling, [now |-> Nobody, rest |-> Registered]) /\ Registered' = Registered
  BY <1>3, <1>7, <1>8, <1>10, <1>11, SeenNow, SeenNext
<1>13. Promise!Emit
  BY <1>12 DEF Promise!Emit
<1> QED
  BY <1>13 DEF Promise!Next

(* A step of the innermost walk changes no more than the last emission *)
LEMMA WalkSeen ==
  ASSUME EmitterInv, Walking, NEW w \in Walks, Update(w),
         \A k \in 1 .. Len(walks) - 1 :
           NoticeOf(list', live', walks[k]) = NoticeOf(list, live, walks[k])
  PROVE  /\ Telling # <<>> /\ Last(Telling) = NoticeOf(list, live, Walk)
         /\ Telling' = Append(Front(Telling), NoticeOf(list', live', w))
         /\ NoticeOf(list', live', w) = NoticeOf(list, live, Walk) => Telling' = Telling
<1>1. PICK n \in Nat \ {0} : /\ n = Len(walks) /\ DOMAIN walks = 1 .. n /\ walks # <<>>
                             /\ Walk = walks[n] /\ Walk \in Walks
  BY Innermost
<1>2. /\ DOMAIN walks' = 1 .. n
      /\ \A k \in 1 .. n : walks'[k] = IF k = n THEN w ELSE walks[k]
  BY <1>1, Known, Updated
<1>3. PICK f : f = Telling /\ f = [k \in 1 .. n |-> f[k]]
               /\ \A k \in 1 .. n : f[k] = NoticeOf(list, live, walks[k])
  BY <1>1, SeenNow
<1>4. PICK g : g = Telling' /\ g = [k \in 1 .. n |-> g[k]]
               /\ \A k \in 1 .. n : g[k] = NoticeOf(list', live', walks'[k])
  BY <1>2, SeenNext
<1>5. ASSUME NEW k \in 1 .. n - 1 PROVE g[k] = f[k]
  <2>1. k \in 1 .. n /\ walks'[k] = walks[k]
    BY <1>2
  <2> QED
    BY <1>1, <1>3, <1>4, <2>1
<1>6. f # <<>> /\ Last(f) = f[n] /\ g = Append(Front(f), g[n])
  <2>1. Upto(f, n) /\ Upto(g, n) /\ Agree(f, g, n - 1)
    BY <1>3, <1>4, <1>5 DEF Upto, Agree
  <2> QED
    BY <2>1, LastReplaced
<1>7. f[n] = NoticeOf(list, live, Walk) /\ g[n] = NoticeOf(list', live', w)
  BY <1>1, <1>2, <1>3, <1>4
<1>8. ASSUME g[n] = f[n] PROVE g = f
  <2>1. \A k \in 1 .. n : k = n \/ k \in 1 .. n - 1
    OBVIOUS
  <2>2. \A k \in 1 .. n : g[k] = f[k]
    BY <1>5, <1>8, <2>1
  <2> QED
    BY <1>3, <1>4, <2>2
<1> QED
  BY <1>3, <1>4, <1>6, <1>7, <1>8

(* The notice of a walk that is not in the middle of a call, and of one that is *)
LEMMA NoticeIdle ==
  ASSUME NEW s, NEW L, NEW w \in Walks, ~w.calling
  PROVE  NoticeOf(s, L, w) = [now |-> Nobody, rest |-> Those(SubSeq(s, w.first, w.last), L)]
<1>1. w.first + 0 = w.first
  BY DEF Walks
<1> QED
  BY <1>1 DEF NoticeOf

LEMMA NoticeCalling ==
  ASSUME NEW s, NEW L, NEW w \in Walks, w.calling
  PROVE  NoticeOf(s, L, w) = [now |-> s[w.first],
                              rest |-> Those(SubSeq(s, w.first + 1, w.last), L)]
BY DEF NoticeOf

LEMMA CallSeen ==
  ASSUME EmitterInv, CallListener
  PROVE  Promise!Next
<1>1. PICK n \in Nat \ {0} : /\ n = Len(walks) /\ Walk = walks[n] /\ Walk \in Walks /\ InStep(n)
  BY Innermost DEF CallListener, Visiting
<1>2. PICK w \in Walks : /\ w = [Walk EXCEPT !.calling = TRUE] /\ w.calling = TRUE
                         /\ w.first = Walk.first /\ w.last = Walk.last
  <2> DEFINE v == [Walk EXCEPT !.calling = TRUE]
  <2>1. v \in Walks
    BY <1>1 DEF Walks
  <2>2. v.calling = TRUE /\ v.first = Walk.first /\ v.last = Walk.last
    BY <1>1 DEF Walks
  <2> HIDE DEF v
  <2> QED
    BY <2>1, <2>2 DEF v
<1>3. Walking /\ ~Walk.calling /\ Update(w) /\ list' = list /\ live' = live
  BY <1>2 DEF CallListener, Visiting
<1>4. PICK f \in 1 .. Len(list) : /\ f = Walk.first /\ Walk.last = Len(list) /\ list[f] \in live
  <2>1. Walk.first <= Walk.last /\ list[Walk.first] \in live
    BY DEF CallListener, Visiting
  <2>2. Walk.last = Len(list)
    BY <1>1 DEF InStep
  <2>3. Walk.first \in Nat \ {0}
    BY <1>1 DEF Walks
  <2> QED
    BY <2>1, <2>2, <2>3, Known
<1>5. PICK q \in Seq(Entries \cap live) : q = Those(SubSeq(list, f + 1, Len(list)), live)
  <2>1. f + 1 \in Nat \ {0} /\ Len(list) \in 0 .. Len(list)
    BY Known
  <2>2. SubSeq(list, f + 1, Len(list)) \in Seq(Entries)
    BY <2>1, Known, Part
  <2> QED
    BY <2>2, ThoseInOrder
<1>6. PICK e \in Entries \cap live : e = list[f]
  BY <1>4, Known, ElementOfSeq
<1>7. Those(SubSeq(list, f, Len(list)), live) = <<e>> \o q
  <2>1. Len(list) \in f .. Len(list)
    BY Known
  <2> QED
    BY <1>4, <1>5, <1>6, <2>1, Known, ThoseFirst
<1>8. /\ NoticeOf(list, live, Walk) = [now |-> Nobody, rest |-> <<e>> \o q]
      /\ NoticeOf(list', live', w) = [now |-> e, rest |-> q]
  <2>1. NoticeOf(list, live, Walk) =
          [now |-> Nobody, rest |-> Those(SubSeq(list, Walk.first, Walk.last), live)]
    BY <1>1, <1>3, NoticeIdle
  <2>2. NoticeOf(list, live, w) =
          [now |-> list[w.first], rest |-> Those(SubSeq(list, w.first + 1, w.last), live)]
    BY <1>2, NoticeCalling
  <2> QED
    BY <1>2, <1>3, <1>4, <1>5, <1>6, <1>7, <2>1, <2>2
<1>9. /\ Telling # <<>> /\ Last(Telling) = [now |-> Nobody, rest |-> <<e>> \o q]
      /\ Telling' = Append(Front(Telling), [now |-> e, rest |-> q])
  BY <1>2, <1>3, <1>8, WalkSeen
<1>10. <<e>> \o q # <<>> /\ Head(<<e>> \o q) = e /\ Tail(<<e>> \o q) = q
  OBVIOUS
<1>11. Registered' = Registered
  BY <1>3, SeenNow, SeenNext
<1>12. Promise!Tell
  <2>1. PICK x : x = [now |-> Nobody, rest |-> <<e>> \o q]
    OBVIOUS
  <2>2. x.now = Nobody /\ x.rest = <<e>> \o q
    BY <2>1
  <2> QED
    BY <1>9, <1>10, <1>11, <2>1, <2>2, SameEnds DEF Promise!Tell
<1> QED
  BY <1>12 DEF Promise!Next

LEMMA SkipSeen ==
  ASSUME EmitterInv, Skip
  PROVE  Registered' = Registered /\ Telling' = Telling
<1>1. PICK n \in Nat \ {0} : /\ n = Len(walks) /\ Walk = walks[n] /\ Walk \in Walks /\ InStep(n)
  BY Innermost DEF Skip, Visiting
<1>2. PICK w \in Walks : /\ w = [Walk EXCEPT !.first = @ + 1] /\ w.calling = Walk.calling
                         /\ w.first = Walk.first + 1 /\ w.last = Walk.last
  <2> DEFINE v == [Walk EXCEPT !.first = @ + 1]
  <2>1. v \in Walks
    BY <1>1 DEF Walks
  <2>2. v.calling = Walk.calling /\ v.first = Walk.first + 1 /\ v.last = Walk.last
    BY <1>1 DEF Walks
  <2> HIDE DEF v
  <2> QED
    BY <2>1, <2>2 DEF v
<1>3. Walking /\ ~Walk.calling /\ Update(w) /\ list' = list /\ live' = live
  BY <1>2 DEF Skip, Visiting
<1>4. PICK f \in 1 .. Len(list) : /\ f = Walk.first /\ Walk.last = Len(list) /\ list[f] \notin live
  <2>1. Walk.first <= Walk.last /\ list[Walk.first] \notin live
    BY DEF Skip, Visiting
  <2>2. Walk.last = Len(list)
    BY <1>1 DEF InStep
  <2>3. Walk.first \in Nat \ {0}
    BY <1>1 DEF Walks
  <2> QED
    BY <2>1, <2>2, <2>3, Known
<1>5. Those(SubSeq(list, f, Len(list)), live) = Those(SubSeq(list, f + 1, Len(list)), live)
  <2>1. Len(list) \in f .. Len(list)
    BY Known
  <2>2. Those(SubSeq(list, f, Len(list)), live) =
          IF list[f] \in live THEN <<list[f]>> \o Those(SubSeq(list, f + 1, Len(list)), live)
          ELSE Those(SubSeq(list, f + 1, Len(list)), live)
    BY <2>1, Known, ThoseFirst
  <2> QED
    BY <1>4, <2>2
<1>6. NoticeOf(list', live', w) = NoticeOf(list, live, Walk)
  <2>1. NoticeOf(list, live, Walk) =
          [now |-> Nobody, rest |-> Those(SubSeq(list, Walk.first, Walk.last), live)]
    BY <1>1, <1>3, NoticeIdle
  <2>2. NoticeOf(list, live, w) =
          [now |-> Nobody, rest |-> Those(SubSeq(list, w.first, w.last), live)]
    BY <1>2, <1>3, NoticeIdle
  <2> QED
    BY <1>2, <1>3, <1>4, <1>5, <2>1, <2>2
<1> QED
  BY <1>2, <1>3, <1>6, WalkSeen, SeenNow, SeenNext

LEMMA ReturnedSeen ==
  ASSUME EmitterInv, Returned
  PROVE  Promise!Next
<1>1. PICK n \in Nat \ {0}, f \in 1 .. Len(list), r \in 1 .. Len(list) : Moves(n, f, r)
  BY MoveIs
<1> USE DEF Moves
<1>2. Walk \in Walks /\ Walk.calling /\ DOMAIN walks = 1 .. n /\ live' = live
  BY <1>1, Innermost DEF Returned
<1>3. PICK w \in Walks : /\ w = [Walk EXCEPT !.calling = FALSE, !.first = @ + 1, !.result = @ + 1]
                         /\ w.calling = FALSE /\ w.first = f + 1 /\ w.last = Len(list)
  <2> DEFINE v == [Walk EXCEPT !.calling = FALSE, !.first = @ + 1, !.result = @ + 1]
  <2>1. Walk.first + 1 \in Nat \ {0} /\ Walk.result + 1 \in Nat \ {0}
    BY <1>2 DEF Walks
  <2>2. [Walk EXCEPT !.calling = FALSE, !.first = @ + 1] \in Walks
    BY <1>2, <2>1 DEF Walks
  <2>3. v \in Walks
    BY <2>1, <2>2 DEF Walks
  <2>4. v.calling = FALSE
    BY <1>2 DEF Walks
  <2>5. v.first = f + 1
    BY <1>1, <1>2 DEF Walks
  <2>6. v.last = Len(list)
    BY <1>1, <1>2 DEF Walks
  <2> HIDE DEF v
  <2> QED
    BY <2>3, <2>4, <2>5, <2>6 DEF v
<1>4. Update(w) /\ Walking
  BY <1>3 DEF Returned
<1>5. Those(list', live) = Those(list, live)
      /\ SubSeq(list', f + 1, Len(list)) = SubSeq(list, f + 1, Len(list))
  <2>1. CASE r = f
    BY <1>1, <2>1
  <2>2. CASE r < f
    <3>1. PICK t \in Seq(Entries) : t = list' /\ Len(t) = Len(list)
      BY <1>1
    <3>2. /\ t[r] = list[f] /\ t[f] = Empty
          /\ \A i \in 1 .. Len(list) : i # r /\ i # f => t[i] = list[i]
      BY <1>1, <2>2, <3>1
    <3>3. /\ \A i \in r + 1 .. f : t[i] \notin live
          /\ \A i \in 1 .. Len(list) : i < r \/ f < i => t[i] = list[i]
      <4>1. ASSUME NEW i \in r + 1 .. f PROVE t[i] \notin live
        <5>1. CASE i = f
          BY <3>2, <5>1, Known
        <5>2. CASE i # f
          <6>1. i \in 1 .. Len(list) /\ i # r /\ i \in r .. f - 1
            BY <5>2, Known
          <6>2. list[i] \notin live
            BY <1>1, <6>1
          <6> QED
            BY <3>2, <5>2, <6>1, <6>2
        <5> QED
          BY <5>1, <5>2
      <4>2. ASSUME NEW i \in 1 .. Len(list), i < r \/ f < i PROVE t[i] = list[i]
        BY <2>2, <3>2, <4>2
      <4> QED
        BY <4>1, <4>2
    <3>4. /\ list[f] \in live /\ \A i \in r .. f - 1 : list[i] \notin live
      BY <1>1
    <3>5. Those(t, live) = Those(list, live)
      <4>1. PICK s \in Seq(Entries) : s = list
        BY Known
      <4>2. /\ Len(t) = Len(s) /\ r \in 1 .. Len(s) /\ f \in 1 .. Len(s) /\ r < f
            /\ s[f] \in live /\ t[r] = s[f]
            /\ \A i \in r .. f - 1 : s[i] \notin live
            /\ \A i \in r + 1 .. f : t[i] \notin live
            /\ \A i \in 1 .. Len(s) : i < r \/ f < i => t[i] = s[i]
        BY <2>2, <3>1, <3>2, <3>3, <3>4, <4>1
      <4>3. Those(t, live) = Those(s, live)
        BY <4>2, MoveInvisible
      <4> QED
        BY <4>1, <4>3
    <3>6. SubSeq(t, f + 1, Len(list)) = SubSeq(list, f + 1, Len(list))
      <4>1. f + 1 \in Nat \ {0} /\ Len(list) \in 0 .. Len(list)
        BY Known
      <4>2. \A i \in f + 1 .. Len(list) : t[i] = list[i]
        BY <3>3, Known
      <4> QED
        BY <3>1, <4>1, <4>2, Known, SameParts
    <3> QED
      BY <3>1, <3>5, <3>6
  <2>3. r = f \/ r < f
    BY <1>1
  <2> QED
    BY <2>1, <2>2, <2>3
<1>6. ASSUME NEW k \in 1 .. Len(walks) - 1
      PROVE  NoticeOf(list', live', walks[k]) = NoticeOf(list, live, walks[k])
  <2>1. ~(r < f) /\ r <= f
    BY <1>1, <1>6
  <2>2. list' = list
    BY <1>1, <2>1
  <2> QED
    BY <1>2, <2>2
<1>7. PICK q : q = Those(SubSeq(list, f + 1, Len(list)), live)
  OBVIOUS
<1>8. /\ NoticeOf(list, live, Walk) = [now |-> list[f], rest |-> q]
      /\ NoticeOf(list', live', w) = [now |-> Nobody, rest |-> q]
  <2>1. NoticeOf(list, live, Walk) =
          [now |-> list[Walk.first], rest |-> Those(SubSeq(list, Walk.first + 1, Walk.last), live)]
    BY <1>2, NoticeCalling
  <2>2. NoticeOf(list', live', w) =
          [now |-> Nobody, rest |-> Those(SubSeq(list', w.first, w.last), live')]
    BY <1>3, NoticeIdle
  <2>3. Walk.first = f /\ Walk.last = Len(list)
    BY <1>1
  <2> QED
    BY <1>2, <1>3, <1>5, <1>7, <2>1, <2>2, <2>3
<1>9. PICK e : e = list[f] /\ e # Nobody
  BY <1>1, Known
<1>10. /\ Telling # <<>> /\ Last(Telling) = [now |-> e, rest |-> q]
       /\ Telling' = Append(Front(Telling), [now |-> Nobody, rest |-> q])
  BY <1>3, <1>4, <1>6, <1>8, <1>9, WalkSeen
<1>11. Registered' = Registered
  BY <1>2, <1>5, SeenNow, SeenNext
<1>12. Promise!Told
  <2>1. PICK x : x = [now |-> e, rest |-> q]
    OBVIOUS
  <2>2. x.now = e /\ [x EXCEPT !.now = Nobody] = [now |-> Nobody, rest |-> q]
    BY <2>1
  <2> QED
    BY <1>9, <1>10, <1>11, <2>1, <2>2, SameEnds DEF Promise!Told
<1> QED
  BY <1>12 DEF Promise!Next

LEMMA EraseSeen ==
  ASSUME EmitterInv, Erase
  PROVE  Promise!Next
<1>1. PICK n \in Nat \ {0}, r \in 1 .. Len(list) + 1 : Erases(n, r)
  BY EraseIs
<1> USE DEF Erases
<1>2. walks \in Seq(Walks) /\ walks # <<>> /\ DOMAIN walks = 1 .. n /\ live' = live /\ Walk \in Walks
  BY <1>1, Known, Innermost DEF Erase, Walking
<1>3. /\ DOMAIN walks' = 1 .. n - 1
      /\ \A k \in 1 .. n - 1 : walks'[k] = walks[k]
  <2>1. /\ Front(walks) \in Seq(Walks) /\ Len(Front(walks)) = Len(walks) - 1
        /\ \A k \in 1 .. Len(walks) - 1 : Front(walks)[k] = walks[k]
    BY <1>2, FrontIs
  <2>2. walks' = Front(walks)
    BY DEF Erase
  <2> QED
    BY <1>1, <2>1, <2>2, LenProperties
<1>4. Those(list', live) = Those(list, live)
  BY <1>1, Known, EraseInvisible
<1>5. NoticeOf(list, live, Walk) = [now |-> Nobody, rest |-> <<>>]
  <2>1. Len(list) \in Int /\ Len(list) + 1 \in Int /\ Len(list) < Len(list) + 1
    BY Known
  <2>2. SubSeq(list, Len(list) + 1, Len(list)) = <<>>
    BY <2>1, SubSeqEmpty
  <2>3. NoticeOf(list, live, Walk) =
          [now |-> Nobody, rest |-> Those(SubSeq(list, Walk.first, Walk.last), live)]
    BY <1>1, <1>2, NoticeIdle
  <2>4. Walk.first = Len(list) + 1 /\ Walk.last = Len(list)
    BY <1>1
  <2> QED
    BY <2>2, <2>3, <2>4, ThoseOfNone
<1>6. PICK f : f = Telling /\ f = [k \in 1 .. n |-> f[k]]
               /\ \A k \in 1 .. n : f[k] = NoticeOf(list, live, walks[k])
  BY <1>2, SeenNow
<1>7. PICK g : g = Telling' /\ g = [k \in 1 .. n - 1 |-> g[k]]
               /\ \A k \in 1 .. n - 1 : g[k] = NoticeOf(list', live', walks'[k])
  BY <1>3, SeenNext
<1>8. ASSUME NEW k \in 1 .. n - 1 PROVE g[k] = f[k]
  <2>1. n > 1 /\ k \in 1 .. n
    OBVIOUS
  <2>2. list' = list
    <3>1. r - 1 = Len(list)
      BY <1>1, <2>1, Known
    <3>2. SubSeq(list, 1, Len(list)) = list
      BY Known, SubSeqFull
    <3> QED
      BY <1>1, <3>1, <3>2
  <2> QED
    BY <1>2, <1>3, <1>6, <1>7, <2>1, <2>2
<1>9. f # <<>> /\ Last(f) = f[n] /\ g = Front(f)
  <2>1. Upto(f, n) /\ Upto(g, n - 1) /\ Agree(f, g, n - 1)
    BY <1>6, <1>7, <1>8 DEF Upto, Agree
  <2> QED
    BY <2>1, OneLess
<1>10. f[n] = [now |-> Nobody, rest |-> <<>>]
  BY <1>1, <1>5, <1>6
<1>11. Registered' = Registered
  BY <1>2, <1>4, SeenNow, SeenNext
<1>12. Promise!Done
  BY <1>6, <1>7, <1>9, <1>10, <1>11, SameEnds DEF Promise!Done
<1> QED
  BY <1>12 DEF Promise!Next

LEMMA ThrowSeen ==
  ASSUME EmitterInv, ListenerThrows
  PROVE  Promise!Next
<1>1. PICK n \in Nat \ {0} :
        /\ DOMAIN walks = 1 .. n /\ Walk = walks[n] /\ Walk \in Walks /\ InStep(n) /\ Walk.calling
        /\ list' = list /\ live' = live
        /\ DOMAIN walks' = 1 .. n - 1 /\ \A k \in 1 .. n - 1 : walks'[k] = walks[k]
  BY ThrowIs
<1>2. PICK f : f = Telling /\ f = [k \in 1 .. n |-> f[k]]
               /\ \A k \in 1 .. n : f[k] = NoticeOf(list, live, walks[k])
  BY <1>1, SeenNow
<1>3. PICK g : g = Telling' /\ g = [k \in 1 .. n - 1 |-> g[k]]
               /\ \A k \in 1 .. n - 1 : g[k] = NoticeOf(list', live', walks'[k])
  BY <1>1, SeenNext
<1>4. f # <<>> /\ Last(f) = f[n] /\ g = Front(f)
  <2>1. Upto(f, n) /\ Upto(g, n - 1) /\ Agree(f, g, n - 1)
    BY <1>1, <1>2, <1>3 DEF Upto, Agree
  <2> QED
    BY <2>1, OneLess
<1>5. f[n].now # Nobody
  <2>1. f[n] = NoticeOf(list, live, Walk) /\ NoticeOf(list, live, Walk).now = list[Walk.first]
    BY <1>1, <1>2 DEF NoticeOf
  <2>2. list[Walk.first] \in live
    BY <1>1 DEF InStep
  <2> QED
    BY <2>1, <2>2, Known
<1>6. Registered' = Registered
  BY <1>1, SeenNow, SeenNext
<1>7. Promise!Cut
  BY <1>2, <1>3, <1>4, <1>5, <1>6, SameEnds DEF Promise!Cut
<1> QED
  BY <1>7 DEF Promise!Next

LEMMA NotificationStarts == EmitterInit => Promise!Init
<1> SUFFICES ASSUME EmitterInit PROVE Promise!Init
  OBVIOUS
<1>1. list = <<>> /\ walks = <<>> /\ DOMAIN walks = {}
  BY DEF EmitterInit
<1>2. Registered = <<>>
  BY <1>1, SeenNow, ThoseOfNone
<1>3. Telling = <<>>
  <2>1. Telling = [k \in {} |-> NoticeOf(list, live, walks[k])]
    BY <1>1, SeenNow
  <2> QED
    BY <2>1
<1> QED
  BY <1>2, <1>3 DEF Promise!Init

LEMMA NotificationStep ==
  ASSUME Reenters \subseteq {"emit"}
  PROVE  EmitterInv /\ [MCNext]_emitter_vars => [Promise!Next]_<<Registered, Telling>>
<1> SUFFICES ASSUME EmitterInv, [MCNext]_emitter_vars
             PROVE  [Promise!Next]_<<Registered, Telling>>
  OBVIOUS
<1>1. CASE MCNext
  <2>1. EmitterNext
    BY <1>1 DEF MCNext
  <2> QED
    BY <2>1, AddSeen, RemoveSeen, ExpireSeen, EmitSeen, CallSeen, SkipSeen,
       ReturnedSeen, ThrowSeen, EraseSeen DEF EmitterNext
<1>2. CASE UNCHANGED emitter_vars
  <2>1. list' = list /\ live' = live /\ walks' = walks
    BY <1>2 DEF emitter_vars
  <2>2. Registered' = Registered /\ Telling' = Telling
    BY <2>1, SeenNow, SeenNext
  <2> QED
    BY <2>2
<1> QED
  BY <1>1, <1>2

\* Every behaviour of the emitter is one of Notification: an emission tells each living
\* listener once, in the order in which they were added, whatever expires meanwhile,
\* until one of them throws.
THEOREM EmitterImplementsNotification ==
  ASSUME Reenters \subseteq {"emit"}
  PROVE  MCSpec => ImplementsNotification
BY NotificationStarts, NotificationStep, EmitterInvariant, PTL
DEF MCSpec, ImplementsNotification, Promise!Spec
-----------------------------------------------------------------------------
(* Listeners that leave the emitter alone: one emission at a time          *)

LEMMA OneAtATime ==
  ASSUME Reenters = {}, EmitterInv, Len(walks) <= 1, EmitterNext
  PROVE  Len(walks') <= 1 /\ DOMAIN walks' = 1 .. Len(walks')
<1>1. CASE EmitEvent
  <2>1. walks = <<>>
    BY <1>1 DEF EmitEvent, May
  <2>2. PICK w : walks' = Append(<<>>, w)
    BY <1>1, <2>1 DEF EmitEvent
  <2> QED
    BY <2>2
<1>3. CASE CallListener \/ Skip \/ Returned
  BY <1>3, SameDepth
<1>4. CASE Erase \/ ListenerThrows
  <2>1. walks # <<>> /\ walks' = Front(walks)
    BY <1>4 DEF Erase, ListenerThrows, Walking
  <2>2. /\ Front(walks) \in Seq(Walks)
        /\ Len(Front(walks)) = Len(walks) - 1 /\ Len(walks) \in Nat
    BY <2>1, Known, FrontIs
  <2> QED
    BY <2>1, <2>2
<1>5. ASSUME NEW l \in Listeners, AddListener(l) \/ RemoveListener(l) \/ Expire(l)
      PROVE  Len(walks') <= 1 /\ DOMAIN walks' = 1 .. Len(walks')
  BY <1>5, Known DEF AddListener, RemoveListener, Expire
<1> QED
  BY <1>1, <1>3, <1>4, <1>5 DEF EmitterNext

\* With listeners that leave the emitter alone while they are called, the emitter
\* keeps its promise without any condition on what expires when.
THEOREM PassiveListenersAreTold ==
  ASSUME Reenters = {}
  PROVE  EmitterSpec => ImplementsNotification
<1> DEFINE Inv == EmitterInv /\ Len(walks) <= 1
<1>1. EmitterInit => Inv
  BY EmitterStart DEF EmitterInit
<1>2. Inv /\ [EmitterNext]_emitter_vars => [MCNext]_emitter_vars /\ Inv'
  <2> SUFFICES ASSUME Inv, [EmitterNext]_emitter_vars
               PROVE  [MCNext]_emitter_vars /\ Len(walks') <= 1
    BY EmitterStep
  <2>1. CASE EmitterNext
    <3>1. Len(walks') <= 1 /\ DOMAIN walks' = 1 .. Len(walks')
      BY <2>1, OneAtATime
    <3>2. NestedSafely'
      <4> SUFFICES ASSUME NEW k \in DOMAIN walks', k > 1 PROVE FALSE
        BY DEF NestedSafely
      <4> QED
        BY <3>1
    <3> QED
      BY <2>1, <3>1, <3>2 DEF MCNext
  <2>2. CASE UNCHANGED emitter_vars
    BY <2>2 DEF emitter_vars
  <2> QED
    BY <2>1, <2>2
<1> HIDE DEF Inv
<1>3. EmitterSpec => MCSpec
  BY <1>1, <1>2, PTL DEF EmitterSpec, MCSpec
<1> QED
  BY <1>3, EmitterImplementsNotification
=============================================================================
