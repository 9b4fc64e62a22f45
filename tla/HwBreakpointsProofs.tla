------------------------- MODULE HwBreakpointsProofs -------------------------
(* Theorems about HwBreakpoints, for any threads and breakpoints.          *)
EXTENDS MCHwBreakpoints, TLAPS

(* The first register                                                      *)

LEMMA Masks ==
  /\ Mask({0}, 0) = 1 .. 63
  /\ 0 \in Mask({0, 1}, 16) /\ 0 \in Mask({0, 1}, 18)
  /\ Shl({}, 0) = {} /\ Shl({}, 16) = {} /\ Shl({}, 18) = {} /\ Shl({0}, 0) = {0}
<1>1. /\ Shl({0}, 0) = {0} /\ Shl({0, 1}, 16) = {16, 17} /\ Shl({0, 1}, 18) = {18, 19}
      /\ Shl({}, 0) = {} /\ Shl({}, 16) = {} /\ Shl({}, 18) = {}
  BY DEF Shl
<1>2. Mask({0}, 0) = 1 .. 63
  BY <1>1 DEF Mask, Widen, Width
<1>3. 0 \in Mask({0, 1}, 16) /\ 0 \in Mask({0, 1}, 18)
  BY <1>1 DEF Mask, Widen, Width
<1> QED
  BY <1>1, <1>2, <1>3

\* Enabling the first register leaves its bit alone in DR7, and disabling it none
LEMMA FirstEnabled ==
  ASSUME NEW v \in SUBSET {0}
  PROVE  /\ SetHwBpxEnabled(v, 0, TRUE) = {0}
         /\ SetHwBpxEnabled(v, 0, FALSE) = {}
<1> DEFINE on == LocalSetEnabled(v, 0, TRUE)
           off == LocalSetEnabled(v, 0, FALSE)
<1>1. Widen({}) = {} /\ Widen({0}) = {0}
  BY DEF Widen
<1>2. on = {0} /\ off = {}
  <2>1. v \cap Mask({0}, 0) = {}
    BY Masks
  <2> QED
    BY <1>1, <2>1, Masks DEF LocalSetEnabled, SetField, Enable
<1>3. SetBreakOn({0}, 0, "Exec") = {0}
  <2>1. SetBreakOn({0}, 0, "Exec") = SetField({0}, {0, 1}, {}, 16)
    BY DEF SetBreakOn, BreakOn
  <2> QED
    BY <1>1, <2>1, Masks DEF SetField
<1>4. SetSize({0}, 0, "Byte") = {0}
  <2>1. SetSize({0}, 0, "Byte") = SetField({0}, {0, 1}, {}, 18)
    BY DEF SetSize, BpSize
  <2> QED
    BY <1>1, <2>1, Masks DEF SetField
<1> QED
  BY <1>2, <1>3, <1>4 DEF SetHwBpxEnabled

\* The first register always seems to be free
LEMMA FirstFree ==
  ASSUME NEW t \in Threads, dr[t].ctl \subseteq {0}
  PROVE  First(FreeRegs(t)) = 0 /\ FreeRegs(t) # {}
<1>1. dr[t].ctl \cap Mask({0}, 0) = {}
  BY Masks
<1>2. 0 \in FreeRegs(t)
  BY <1>1 DEF FreeRegs, IsLocalEnabled, Dregs
<1>3. FreeRegs(t) \subseteq 0 .. 3
  BY DEF FreeRegs, Dregs
<1>4. \A i \in FreeRegs(t) : (\A j \in FreeRegs(t) : i <= j) <=> i = 0
  BY <1>2, <1>3
<1>5. First(FreeRegs(t)) = CHOOSE i \in FreeRegs(t) : \A j \in FreeRegs(t) : i <= j
  BY DEF First
<1> QED
  BY <1>2, <1>4, <1>5

LEMMA ArmedFirst ==
  ASSUME NEW b, NEW t \in Threads, dr[t].ctl \subseteq {0}
  PROVE  Armed(b, t) <=> dr[t].addr[0] = b /\ 0 \in dr[t].ctl
BY DEF Armed, Dregs

-----------------------------------------------------------------------------
(* Steps of the target                                                     *)

LEMMA InitInv == Init => IInv
<1> SUFFICES ASSUME Init PROVE IInv
  OBVIOUS
<1> USE HwAssumption DEF Init, Idle, Dregs, Width
<1>1. TypeOK
  <2>1. DOMAIN active = {} /\ \A b \in Bps : DOMAIN bp_regs[b] = {}
    OBVIOUS
  <2>2. dr \in [Threads -> [addr : [Dregs -> Bps \cup {Zero}], ctl : SUBSET (0 .. Width - 1)]]
    <3>1. [i \in Dregs |-> Zero] \in [Dregs -> Bps \cup {Zero}]
      OBVIOUS
    <3> QED
      BY <3>1
  <2> QED
    BY <2>1, <2>2 DEF TypeOK
<1>2. FirstRegister /\ Unborn
  BY DEF FirstRegister, Unborn, Recorded
<1>3. \A b \in Bps, t \in Threads : ~Armed(b, t)
  BY DEF Armed
<1>4. Known /\ InCall /\ ArmedActive
  BY <1>3 DEF Known, InCall, ArmedActive, Listed
<1> QED
  BY <1>1, <1>2, <1>4 DEF IInv

\* The debug registers and what is recorded of them stay, and so do threads that do
\* not begin or end
LEMMA ThreadsOnly ==
  ASSUME IInv, thread' \in [Threads -> {"none", "new", "running", "stopped", "exited"}],
         UNCHANGED <<dr, bp_regs, active, failed>>,
         \A t \in Threads : thread'[t] = "none" => thread[t] = "none",
         \A t \in Threads : t \in Listed' => t \in Listed \/ thread[t] = "none"
  PROVE  /\ FirstRegister' /\ Unborn'
         /\ \A b \in Bps, t \in Listed' : Armed(b, t)' => Armed(b, t) /\ t \in Listed
         /\ \A b \in Bps, t \in Listed' : Recorded(b, t)' => Recorded(b, t) /\ t \in Listed
<1> USE DEF IInv, Unborn
<1>1. FirstRegister'
  BY DEF FirstRegister, Recorded
<1>2. Unborn'
  BY DEF Recorded
<1>3. ASSUME NEW b \in Bps, NEW t \in Listed', Armed(b, t)' PROVE Armed(b, t) /\ t \in Listed
  <2>1. Armed(b, t) /\ t \in Threads
    BY <1>3 DEF Armed, Listed
  <2>2. thread[t] # "none"
    BY <2>1 DEF Armed
  <2> QED
    BY <2>1, <2>2
<1>4. ASSUME NEW b \in Bps, NEW t \in Listed', Recorded(b, t)'
      PROVE  Recorded(b, t) /\ t \in Listed
  BY <1>4 DEF Recorded, Listed
<1> QED
  BY <1>1, <1>2, <1>3, <1>4

LEMMA TargetStep == ASSUME IInv, Target PROVE IInv'
<1>1. PICK t \in Threads : Clone(t) \/ Stop(t) \/ Learn(t) \/ Exit(t) \/ Resume(t)
  BY DEF Target
<1>2. UNCHANGED <<dr, bp_regs, active, call, failed>>
  BY DEF Target
<1>3. PICK s \in {"new", "running", "stopped", "exited"} :
        thread' = [thread EXCEPT ![t] = s]
  BY <1>1 DEF Clone, Stop, Learn, Exit, Resume, Becomes
<1>4. TypeOK'
  BY <1>2, <1>3 DEF IInv, TypeOK
<1>5. /\ thread' \in [Threads -> {"none", "new", "running", "stopped", "exited"}]
      /\ \A u \in Threads : thread'[u] = "none" => thread[u] = "none"
      /\ \A u \in Threads : u \in Listed' => u \in Listed \/ thread[u] = "none"
  BY <1>3, <1>4 DEF IInv, TypeOK, Listed
<1>6. /\ FirstRegister' /\ Unborn'
      /\ \A b \in Bps, u \in Listed' : Armed(b, u)' => Armed(b, u) /\ u \in Listed
      /\ \A b \in Bps, u \in Listed' : Recorded(b, u)' => Recorded(b, u) /\ u \in Listed
  BY <1>2, <1>5, ThreadsOnly
<1>7. Known'
  BY <1>2, <1>6 DEF IInv, Known, Recorded
<1>8. InCall'
  BY <1>2, <1>4, <1>6 DEF IInv, TypeOK, InCall
<1>9. ArmedActive'
  BY <1>2, <1>6 DEF IInv, ArmedActive
<1> QED
  BY <1>4, <1>6, <1>7, <1>8, <1>9 DEF IInv

-----------------------------------------------------------------------------
(* Where the manager begins and ends a call                                *)

\* The call changes, and with it what is active; no register does
LEMMA CallOnly ==
  ASSUME IInv, TypeOK', UNCHANGED <<thread, dr>>,
         InCall', Known', ArmedActive',
         \A b \in Bps : bp_regs'[b] = bp_regs[b] \/ bp_regs'[b] = <<>>
  PROVE  IInv'
<1>1. \A b \in Bps, t \in Threads : Recorded(b, t)' =>
        Recorded(b, t) /\ bp_regs'[b] = bp_regs[b]
  BY DEF Recorded
<1>2. FirstRegister' /\ Unborn'
  BY <1>1 DEF IInv, FirstRegister, Unborn
<1> QED
  BY <1>2 DEF IInv

LEMMA SetBpStep == ASSUME IInv, NEW b \in Bps, SetBp(b) PROVE IInv'
<1> USE DEF SetBp, Begin, Idle, IInv
<1>1. TypeOK' /\ Listed' = Listed /\ \A c, t : Armed(c, t)' = Armed(c, t)
  BY DEF TypeOK, Listed, Armed
<1>2. Known'
  BY <1>1 DEF Known, Recorded
<1>3. InCall'
  BY DEF InCall
<1>4. ArmedActive'
  BY <1>1 DEF ArmedActive
<1> QED
  BY <1>1, <1>2, <1>3, <1>4, CallOnly

LEMMA EraseKeeps ==
  ASSUME IInv, NEW b \in Bps, Erase(b)
  PROVE  /\ DOMAIN active' = DOMAIN active \ {b}
         /\ \A c \in DOMAIN active' : active'[c] = active[c]
         /\ DOMAIN bp_regs' = Bps
         /\ bp_regs'[b] = <<>>
         /\ \A c \in Bps \ {b} : bp_regs'[c] = bp_regs[c]
         /\ \A c, t : Recorded(c, t)' /\ c \in Bps => Recorded(c, t)
<1>1. DOMAIN <<>> = {}
  OBVIOUS
<1> QED
  BY <1>1 DEF Erase, IInv, TypeOK, Recorded

LEMMA RemoveBpStep == ASSUME IInv, NEW b \in Bps, RemoveBp(b) PROVE IInv'
<1> USE DEF IInv
<1>1. Listed' = Listed /\ \A c, t : Armed(c, t)' = Armed(c, t)
  BY DEF RemoveBp, Listed, Armed
<1>2. CASE active[b]
  <2>1. TypeOK' /\ UNCHANGED <<thread, dr, active, bp_regs, failed>>
    BY <1>2 DEF RemoveBp, Begin, TypeOK, Listed
  <2>2. Known'
    BY <1>1, <1>2, <2>1 DEF RemoveBp, Begin, Known, Recorded, Idle
  <2>3. InCall'
    BY <1>1, <1>2, <2>1 DEF RemoveBp, Begin, InCall, Recorded, Idle
  <2>4. ArmedActive'
    BY <1>1, <1>2, <2>1 DEF RemoveBp, Begin, ArmedActive, Idle
  <2> QED
    BY <2>1, <2>2, <2>3, <2>4, CallOnly
<1>3. CASE ~active[b]
  <2>1. Erase(b) /\ UNCHANGED <<call, thread, dr, failed>> /\ call = Idle
    BY <1>3 DEF RemoveBp
  <2>2. TypeOK'
    <3>1. DOMAIN <<>> = {}
      OBVIOUS
    <3>2. \A c \in Bps : bp_regs'[c] = bp_regs[c] \/ bp_regs'[c] = <<>>
      BY <2>1, EraseKeeps
    <3>3. \A c \in Bps : /\ DOMAIN bp_regs'[c] \subseteq Threads
                         /\ \A t \in DOMAIN bp_regs'[c] :
                              bp_regs'[c][t] \in [idx : Dregs, ov : Bps \cup {Zero}]
      BY <3>1, <3>2 DEF TypeOK
    <3>4. DOMAIN active' \subseteq Bps /\ \A c \in DOMAIN active' : active'[c] \in BOOLEAN
      BY <2>1, EraseKeeps DEF TypeOK
    <3> QED
      BY <2>1, <3>3, <3>4, EraseKeeps, ZenonT(60) DEF TypeOK
  <2>3. Known' /\ InCall'
    <3>1. Known'
      BY <1>1, <2>1, EraseKeeps DEF Known, Recorded, Idle
    <3>2. InCall'
      BY <1>1, <2>1, EraseKeeps DEF InCall, Recorded, Idle
    <3> QED
      BY <3>1, <3>2
  <2>4. ArmedActive'
    <3> SUFFICES ASSUME ~failed, NEW c \in Bps, NEW t \in Listed, Armed(c, t)
                 PROVE  c \in DOMAIN active' /\ active'[c]
      BY <1>1, <2>1 DEF ArmedActive
    <3>1. c \in DOMAIN active /\ active[c]
      BY <2>1 DEF ArmedActive, Idle
    <3>2. c # b
      BY <1>3, <3>1
    <3> QED
      BY <2>1, <3>1, <3>2, EraseKeeps
  <2> QED
    BY <2>1, <2>2, <2>3, <2>4, EraseKeeps, CallOnly
<1> QED
  BY <1>2, <1>3

LEMMA HitStep == ASSUME IInv, NEW t \in Threads, NEW b \in Bps, Hit(t, b) PROVE IInv'
<1> USE DEF IInv
<1>1. TypeOK'
  BY DEF Hit, Becomes, Begin, TypeOK, Listed
<1>2. Listed' = Listed
  BY DEF Hit, Becomes, Listed, TypeOK
<1>3. /\ FirstRegister' /\ Unborn'
      /\ \A c \in Bps, u \in Listed' : Armed(c, u)' => Armed(c, u) /\ u \in Listed
      /\ \A c \in Bps, u \in Listed' : Recorded(c, u)' => Recorded(c, u) /\ u \in Listed
  <2>1. \A u \in Threads : thread'[u] = "none" => thread[u] = "none"
    BY DEF Hit, Becomes, TypeOK
  <2> QED
    BY <1>1, <1>2, <2>1, ThreadsOnly DEF Hit, TypeOK
<1>4. Known'
  BY <1>2, <1>3 DEF Hit, Begin, Known, Recorded, Idle
<1>5. InCall'
  BY <1>2 DEF Hit, Begin, InCall, Idle, Recorded
<1>6. ArmedActive'
  BY <1>3 DEF Hit, Begin, ArmedActive, Idle
<1> QED
  BY <1>1, <1>3, <1>4, <1>5, <1>6

LEMMA RestoreNext ==
  ASSUME IInv, NEW S \in SUBSET Bps, RestoreOne(S)
  PROVE  \/ call' = Idle
         \/ \E b \in S : call' = [op |-> "restore", bp |-> b, todo |-> Listed]
BY DEF RestoreOne, Begin

LEMMA SteppedStep == ASSUME IInv, Stepped PROVE IInv'
<1> USE DEF IInv
<1>1. Listed' = Listed /\ \A c, t : Armed(c, t)' = Armed(c, t)
  BY DEF Stepped, Listed, Armed
<1>2. Inactive \subseteq Bps
  BY DEF Inactive, TypeOK
<1>3. /\ call.op = "step" /\ UNCHANGED <<thread, dr, bp_regs, active, failed>>
      /\ \/ call' = Idle
         \/ \E b \in Inactive : call' = [op |-> "restore", bp |-> b, todo |-> Listed]
  BY <1>2, RestoreNext DEF Stepped
<1>4. TypeOK'
  BY <1>2, <1>3 DEF TypeOK, Idle, Listed
<1>5. Known'
  BY <1>1, <1>3 DEF Known, Recorded, Idle
<1>6. InCall'
  BY <1>2, <1>3 DEF InCall, Inactive, Idle
<1>7. ArmedActive'
  BY <1>1, <1>3 DEF ArmedActive
<1> QED
  BY <1>3, <1>4, <1>5, <1>6, <1>7, CallOnly

LEMMA ThrowsStep == ASSUME IInv, NEW t \in Threads, Throws(t) PROVE IInv'
<1> USE DEF IInv
<1>1. Listed' = Listed /\ \A c, u : Armed(c, u)' = Armed(c, u)
  BY DEF Throws, Listed, Armed
<1>2. /\ call' = Idle /\ failed' = TRUE /\ UNCHANGED <<thread, dr, active>>
      /\ DOMAIN bp_regs' = Bps
      /\ \A b \in Bps : \/ bp_regs'[b] = bp_regs[b]
                        \/ bp_regs'[b] = <<>> /\ b = call.bp /\ call.op = "set"
  BY DEF Throws, TypeOK
<1>3. TypeOK'
  <2>1. DOMAIN <<>> = {}
    OBVIOUS
  <2> QED
    BY <1>2, <2>1 DEF TypeOK, Idle
<1>4. Known'
  BY <1>1, <1>2 DEF Known, InCall, Recorded, Idle
<1>5. InCall' /\ ArmedActive'
  BY <1>2 DEF InCall, ArmedActive, Idle
<1> QED
  BY <1>2, <1>3, <1>4, <1>5, CallOnly

-----------------------------------------------------------------------------
(* One thread of setup and cleanup                                         *)

LEMMA SetOnThreadStep == ASSUME IInv, NEW t \in Threads, SetOnThread(t) PROVE IInv'
<1> DEFINE b == call.bp
           entry == [idx |-> 0, ov |-> dr[t].addr[0]]
<1> USE DEF IInv
<1>1. /\ call.op \in {"set", "restore"} /\ t \in call.todo /\ thread[t] = "stopped"
      /\ call' = [call EXCEPT !.todo = @ \ {t}] /\ UNCHANGED <<thread, active, failed>>
  BY DEF SetOnThread, Visit, Rest, Accessible
<1>2. b \in Bps /\ dr[t].ctl \in SUBSET {0} /\ 0 \in Dregs
  BY <1>1 DEF InCall, FirstRegister, Dregs
<1>3. /\ dr' = [dr EXCEPT ![t] = [addr |-> [@.addr EXCEPT ![0] = b], ctl |-> {0}]]
      /\ bp_regs' = [bp_regs EXCEPT ![b] =
           IF t \in DOMAIN @ THEN @
           ELSE [u \in DOMAIN @ \cup {t} |-> IF u = t THEN entry ELSE @[u]]]
  <2>1. First(FreeRegs(t)) = 0
    BY <1>2, FirstFree
  <2>2. SetHwBpxEnabled(dr[t].ctl, 0, TRUE) = {0}
    BY <1>2, FirstEnabled
  <2> QED
    BY <2>1, <2>2 DEF SetOnThread
<1>4. /\ dr[t] \in [addr : [Dregs -> Bps \cup {Zero}], ctl : SUBSET (0 .. Width - 1)]
      /\ entry \in [idx : Dregs, ov : Bps \cup {Zero}]
  BY <1>2 DEF TypeOK
<1>5. dr'[t].addr[0] = b /\ dr'[t].ctl = {0} /\ \A u \in Threads \ {t} : dr'[u] = dr[u]
  BY <1>2, <1>3, <1>4 DEF TypeOK
<1>6. /\ DOMAIN bp_regs' = Bps /\ \A c \in Bps \ {b} : bp_regs'[c] = bp_regs[c]
      /\ DOMAIN bp_regs'[b] = DOMAIN bp_regs[b] \cup {t}
      /\ \A u \in DOMAIN bp_regs'[b] :
           \/ u \in DOMAIN bp_regs[b] /\ bp_regs'[b][u] = bp_regs[b][u]
           \/ bp_regs'[b][u] = entry
  BY <1>2, <1>3 DEF TypeOK
<1>7. TypeOK'
  <2>1. dr' \in [Threads -> [addr : [Dregs -> Bps \cup {Zero}], ctl : SUBSET (0 .. Width - 1)]]
    <3>1. {0} \in SUBSET (0 .. Width - 1)
      BY DEF Width
    <3>2. [dr[t].addr EXCEPT ![0] = b] \in [Dregs -> Bps \cup {Zero}]
      BY <1>2, <1>4
    <3> QED
      BY <1>3, <3>1, <3>2 DEF TypeOK
  <2>2. \A c \in Bps : /\ DOMAIN bp_regs'[c] \subseteq Threads
                       /\ \A u \in DOMAIN bp_regs'[c] :
                            bp_regs'[c][u] \in [idx : Dregs, ov : Bps \cup {Zero}]
    <3> HIDE DEF b, entry
    <3>1. \A u \in DOMAIN bp_regs'[b] : bp_regs'[b][u] \in [idx : Dregs, ov : Bps \cup {Zero}]
      BY <1>2, <1>4, <1>6 DEF TypeOK
    <3> QED
      BY <1>2, <1>6, <3>1 DEF TypeOK
  <2>3. call' \in [op : {"none", "set", "remove", "hit", "step", "restore"},
                   bp : Bps \cup {Zero}, todo : SUBSET Threads]
    BY <1>1 DEF TypeOK
  <2> HIDE DEF entry
  <2> QED
    BY <1>1, <1>6, <2>1, <2>2, <2>3 DEF TypeOK
<1>8. call'.op = call.op /\ call'.bp = b /\ call'.todo = call.todo \ {t} /\ Listed' = Listed
  BY <1>1 DEF TypeOK, Listed
<1>9. /\ Recorded(b, t)'
      /\ \A c \in Bps, u \in Threads : Recorded(c, u) => Recorded(c, u)'
      /\ \A c \in Bps, u \in Threads :
           Recorded(c, u)' => Recorded(c, u) \/ (c = b /\ u = t)
  BY <1>2, <1>6, <1>8 DEF Recorded
<1>10. \A c \in Bps, u \in Threads :
         Armed(c, u)' => (Armed(c, u) /\ u # t) \/ (c = b /\ u = t)
  <2> SUFFICES ASSUME NEW c \in Bps, NEW u \in Threads, Armed(c, u)'
               PROVE  (Armed(c, u) /\ u # t) \/ (c = b /\ u = t)
    OBVIOUS
  <2>1. CASE u = t
    BY <1>5, <2>1 DEF Armed, Dregs
  <2>2. CASE u # t
    BY <1>5, <2>2 DEF Armed
  <2> QED
    BY <2>1, <2>2
<1> HIDE DEF b, entry
<1>11. FirstRegister'
  BY <1>5, <1>6, <1>9 DEF FirstRegister, Recorded, entry
<1>12. Unborn'
  BY <1>1, <1>5, <1>9 DEF Unborn
<1>13. Known'
  BY <1>1, <1>2, <1>8, <1>9, <1>10 DEF Known, InCall, Listed, b
<1>14. InCall'
  BY <1>1, <1>2, <1>8 DEF InCall, b
<1>15. ArmedActive'
  BY <1>1, <1>2, <1>8, <1>10 DEF ArmedActive, Listed, b
<1> QED
  BY <1>7, <1>11, <1>12, <1>13, <1>14, <1>15

LEMMA RemoveFromThreadStep ==
  ASSUME IInv, NEW t \in Threads, RemoveFromThread(t)
  PROVE  IInv'
<1> DEFINE b == call.bp
           e == bp_regs[b][t]
<1> USE DEF IInv
<1>1. /\ call.op \in {"remove", "hit"} /\ t \in call.todo
      /\ call' = [call EXCEPT !.todo = @ \ {t}] /\ UNCHANGED <<thread, active, failed>>
  BY DEF RemoveFromThread, Visit, Rest
<1>2. b \in Bps /\ dr[t].ctl \in SUBSET {0} /\ 0 \in Dregs
  BY <1>1 DEF InCall, FirstRegister, Dregs
<1>3. call'.op = call.op /\ call'.bp = b /\ call'.todo = call.todo \ {t} /\ Listed' = Listed
  BY <1>1 DEF TypeOK, Listed
<1>4. CASE ~Recorded(b, t)
  <2>1. UNCHANGED <<dr, bp_regs>>
    BY <1>4 DEF RemoveFromThread, Recorded
  <2>2. /\ \A c, u : Armed(c, u)' = Armed(c, u)
        /\ \A c, u : Recorded(c, u)' = Recorded(c, u)
    BY <2>1 DEF Armed, Recorded
  <2>3. TypeOK'
    BY <1>1, <2>1 DEF TypeOK
  <2> HIDE DEF b
  <2>4. Known'
    BY <1>1, <1>3, <2>2 DEF Known, b
  <2>5. InCall'
    BY <1>1, <1>2, <1>3, <1>4, <2>2 DEF InCall, b
  <2>6. ArmedActive'
    BY <1>1, <1>3, <2>2 DEF ArmedActive, b
  <2> QED
    BY <1>1, <2>1, <2>3, <2>4, <2>5, <2>6, CallOnly
<1>5. CASE Recorded(b, t)
  <2>1. e.idx = 0 /\ e.ov \in Bps \cup {Zero}
    BY <1>2, <1>5 DEF FirstRegister, Recorded, TypeOK
  <2>2. /\ dr' = [dr EXCEPT ![t] = [addr |-> [@.addr EXCEPT ![0] = e.ov], ctl |-> {}]]
        /\ bp_regs' = [bp_regs EXCEPT ![b] = [u \in DOMAIN @ \ {t} |-> @[u]]]
    <3>1. SetHwBpxEnabled(dr[t].ctl, 0, FALSE) = {}
      BY <1>2, FirstEnabled
    <3> QED
      BY <1>5, <2>1, <3>1 DEF RemoveFromThread, Recorded
  <2>3. dr'[t].ctl = {} /\ \A u \in Threads \ {t} : dr'[u] = dr[u]
    BY <2>2 DEF TypeOK
  <2>4. /\ DOMAIN bp_regs' = Bps /\ \A c \in Bps \ {b} : bp_regs'[c] = bp_regs[c]
        /\ DOMAIN bp_regs'[b] = DOMAIN bp_regs[b] \ {t}
        /\ \A u \in DOMAIN bp_regs'[b] : bp_regs'[b][u] = bp_regs[b][u]
    BY <1>2, <2>2 DEF TypeOK
  <2>5. TypeOK'
    <3>1. dr' \in [Threads -> [addr : [Dregs -> Bps \cup {Zero}], ctl : SUBSET (0 .. Width - 1)]]
      <4>1. [dr[t].addr EXCEPT ![0] = e.ov] \in [Dregs -> Bps \cup {Zero}]
        BY <1>2, <2>1 DEF TypeOK
      <4> HIDE DEF e
      <4> QED
        BY <2>2, <4>1 DEF TypeOK
    <3>2. \A c \in Bps : /\ DOMAIN bp_regs'[c] \subseteq Threads
                         /\ \A u \in DOMAIN bp_regs'[c] :
                              bp_regs'[c][u] \in [idx : Dregs, ov : Bps \cup {Zero}]
      BY <1>2, <2>4 DEF TypeOK
    <3>3. call' \in [op : {"none", "set", "remove", "hit", "step", "restore"},
                     bp : Bps \cup {Zero}, todo : SUBSET Threads]
      BY <1>1 DEF TypeOK
    <3> QED
      BY <1>1, <2>4, <3>1, <3>2, <3>3 DEF TypeOK
  <2>6. \A c \in Bps, u \in Threads :
          (Recorded(c, u)' => Recorded(c, u)) /\ (Recorded(c, u) => Recorded(c, u)' \/ (c = b /\ u = t))
    BY <1>2, <2>4 DEF Recorded
  <2>7. ~Recorded(b, t)'
    BY <1>3, <2>4 DEF Recorded
  <2>8. \A c, u : u \in Threads /\ Armed(c, u)' => Armed(c, u) /\ u # t
    BY <2>3 DEF Armed
  <2> HIDE DEF b, e
  <2>9. FirstRegister'
    <3> SUFFICES ASSUME NEW u \in Threads
                 PROVE  /\ dr'[u].ctl \subseteq {0}
                        /\ \A c \in Bps : Recorded(c, u)' => bp_regs'[c][u].idx = 0
      BY DEF FirstRegister
    <3>1. dr'[u].ctl \subseteq {0}
      BY <2>3 DEF FirstRegister
    <3>2. ASSUME NEW c \in Bps, Recorded(c, u)' PROVE bp_regs'[c][u].idx = 0
      <4>1. bp_regs'[c][u] = bp_regs[c][u] /\ Recorded(c, u)
        BY <1>2, <2>4, <2>6, <3>2 DEF Recorded
      <4> QED
        BY <4>1 DEF FirstRegister
    <3> QED
      BY <3>1, <3>2
  <2>10. Unborn'
    BY <1>1, <2>3, <2>6 DEF Unborn
  <2>11. Known'
    BY <1>1, <1>3, <2>6, <2>8 DEF Known, Listed, b
  <2>12. InCall'
    BY <1>1, <1>2, <1>3, <2>6, <2>7 DEF InCall, Listed, b
  <2>13. ArmedActive'
    BY <1>1, <1>3, <2>8 DEF ArmedActive, Listed, b
  <2> QED
    BY <2>5, <2>9, <2>10, <2>11, <2>12, <2>13
<1> QED
  BY <1>4, <1>5

-----------------------------------------------------------------------------
(* The end of a call                                                       *)

LEMMA StatusOf ==
  ASSUME IInv, NEW b \in Bps, NEW on \in BOOLEAN, active' = Status(b, on)
  PROVE  /\ DOMAIN active' = DOMAIN active \cup {b}
         /\ active'[b] = on
         /\ \A c \in DOMAIN active \ {b} : active'[c] = active[c]
         /\ DOMAIN active' \subseteq Bps
         /\ \A c \in DOMAIN active' : active'[c] \in BOOLEAN
BY DEF Status, IInv, TypeOK

LEMMA SetEndsStep == ASSUME IInv, SetEnds PROVE IInv'
<1> DEFINE b == call.bp
<1> USE DEF IInv
<1>1. /\ call.op = "set" /\ call.todo = {} /\ call' = Idle
      /\ active' = Status(b, TRUE) /\ UNCHANGED <<thread, dr, bp_regs, failed>>
  BY DEF SetEnds, Ends
<1>2. b \in Bps /\ b \notin DOMAIN active
  BY <1>1 DEF InCall
<1>3. Listed' = Listed /\ \A c, t : Armed(c, t)' = Armed(c, t)
  BY <1>1 DEF Listed, Armed
<1> HIDE DEF b
<1>4. /\ DOMAIN active' = DOMAIN active \cup {b} /\ active'[b] = TRUE
      /\ \A c \in DOMAIN active \ {b} : active'[c] = active[c]
      /\ DOMAIN active' \subseteq Bps
      /\ \A c \in DOMAIN active' : active'[c] \in BOOLEAN
  BY <1>1, <1>2, StatusOf
<1>5. TypeOK'
  BY <1>1, <1>4 DEF TypeOK, Idle
<1>6. Known'
  BY <1>1, <1>3, <1>4 DEF Known, Recorded, Idle, b
<1>7. InCall' /\ ArmedActive'
  BY <1>1, <1>3, <1>4 DEF InCall, ArmedActive, Idle, b
<1> QED
  BY <1>1, <1>5, <1>6, <1>7, CallOnly

\* When cleanup is through, the breakpoint is armed nowhere
LEMMA CleanedUp ==
  ASSUME IInv, call.op \in {"remove", "hit"}, call.todo = {}, NEW t \in Listed
  PROVE  ~Recorded(call.bp, t) /\ ~Armed(call.bp, t)
<1>1. call.bp \in Bps /\ call.bp \in DOMAIN active /\ ~Recorded(call.bp, t)
  BY DEF IInv, InCall
<1> QED
  BY <1>1 DEF IInv, Known

LEMMA RemoveEndsStep == ASSUME IInv, RemoveEnds PROVE IInv'
<1> DEFINE b == call.bp
<1> USE DEF IInv
<1>1. /\ call.op = "remove" /\ call.todo = {} /\ call' = Idle /\ Erase(b)
      /\ UNCHANGED <<thread, dr, failed>>
  BY DEF RemoveEnds, Ends
<1>2. b \in Bps
  BY <1>1 DEF InCall
<1>3. Listed' = Listed /\ \A c, t : Armed(c, t)' = Armed(c, t)
  BY <1>1 DEF Listed, Armed
<1>4. \A t \in Listed : ~Armed(b, t)
  BY <1>1, CleanedUp
<1> HIDE DEF b
<1>5. /\ DOMAIN active' = DOMAIN active \ {b}
      /\ \A c \in DOMAIN active' : active'[c] = active[c]
      /\ DOMAIN bp_regs' = Bps /\ bp_regs'[b] = <<>>
      /\ \A c \in Bps \ {b} : bp_regs'[c] = bp_regs[c]
  BY <1>1, <1>2, EraseKeeps
<1>6. TypeOK'
  <2>1. DOMAIN <<>> = {}
    OBVIOUS
  <2>2. \A c \in Bps : /\ DOMAIN bp_regs'[c] \subseteq Threads
                       /\ \A t \in DOMAIN bp_regs'[c] :
                            bp_regs'[c][t] \in [idx : Dregs, ov : Bps \cup {Zero}]
    BY <1>5, <2>1 DEF TypeOK
  <2> QED
    BY <1>1, <1>5, <2>2 DEF TypeOK, Idle
<1>7. Known'
  BY <1>1, <1>3, <1>4, <1>5 DEF Known, Recorded, Idle
<1>8. InCall'
  BY <1>1 DEF InCall, Idle
<1>9. ArmedActive'
  <2> SUFFICES ASSUME ~failed, NEW c \in Bps, NEW t \in Listed, Armed(c, t)
               PROVE  c \in DOMAIN active' /\ active'[c]
    BY <1>1, <1>3 DEF ArmedActive
  <2>1. c \in DOMAIN active /\ active[c] /\ c # b
    BY <1>1, <1>4 DEF ArmedActive
  <2> QED
    BY <1>5, <2>1
<1> QED
  BY <1>1, <1>5, <1>6, <1>7, <1>8, <1>9, CallOnly

LEMMA HitEndsStep == ASSUME IInv, HitEnds PROVE IInv'
<1> DEFINE b == call.bp
<1> USE DEF IInv
<1>1. /\ call.op = "hit" /\ call.todo = {} /\ call' = [call EXCEPT !.op = "step"]
      /\ active' = Status(b, FALSE) /\ UNCHANGED <<thread, dr, bp_regs, failed>>
  BY DEF HitEnds, Ends
<1>2. b \in Bps /\ b \in DOMAIN active
  BY <1>1 DEF InCall
<1>3. Listed' = Listed /\ \A c, t : Armed(c, t)' = Armed(c, t)
  BY <1>1 DEF Listed, Armed
<1>4. \A t \in Listed : ~Armed(b, t) /\ ~Recorded(b, t)
  BY <1>1, CleanedUp
<1>5. call'.op = "step" /\ call'.bp = b
  BY <1>1 DEF TypeOK
<1> HIDE DEF b
<1>6. /\ DOMAIN active' = DOMAIN active /\ active'[b] = FALSE
      /\ \A c \in DOMAIN active \ {b} : active'[c] = active[c]
      /\ \A c \in DOMAIN active' : active'[c] \in BOOLEAN
  BY <1>1, <1>2, StatusOf
<1>7. TypeOK'
  BY <1>1, <1>6 DEF TypeOK
<1>8. Known'
  BY <1>1, <1>3, <1>5, <1>6 DEF Known, Recorded
<1>9. InCall'
  BY <1>1, <1>2, <1>3, <1>4, <1>5, <1>6 DEF InCall, Recorded
<1>10. ArmedActive'
  <2> SUFFICES ASSUME ~failed, NEW c \in Bps, NEW t \in Listed, Armed(c, t)
               PROVE  c \in DOMAIN active' /\ active'[c]
    BY <1>1, <1>3 DEF ArmedActive
  <2>1. c \in DOMAIN active /\ active[c] /\ c # b
    BY <1>1, <1>4 DEF ArmedActive
  <2> QED
    BY <1>6, <2>1
<1> QED
  BY <1>1, <1>7, <1>8, <1>9, <1>10, CallOnly

LEMMA RestoreEndsStep == ASSUME IInv, RestoreEnds PROVE IInv'
<1> DEFINE b == call.bp
<1> USE DEF IInv
<1>1. /\ call.op = "restore" /\ active' = Status(b, TRUE)
      /\ RestoreOne(Inactive \ {b}) /\ UNCHANGED <<thread, dr, bp_regs, failed>>
  BY DEF RestoreEnds, Ends
<1>2. b \in Bps /\ b \in DOMAIN active
  BY <1>1 DEF InCall
<1>3. Listed' = Listed /\ \A c, t : Armed(c, t)' = Armed(c, t)
  BY <1>1 DEF Listed, Armed
<1> HIDE DEF b
<1>4. /\ DOMAIN active' = DOMAIN active /\ active'[b] = TRUE
      /\ \A c \in DOMAIN active \ {b} : active'[c] = active[c]
      /\ \A c \in DOMAIN active' : active'[c] \in BOOLEAN
  BY <1>1, <1>2, StatusOf
<1>5. \/ call' = Idle
      \/ \E c \in Inactive \ {b} : call' = [op |-> "restore", bp |-> c, todo |-> Listed]
  BY <1>1, RestoreNext DEF Inactive, TypeOK
<1>6. /\ call' \in [op : {"none", "restore"}, bp : Bps \cup {Zero}, todo : SUBSET Threads]
      /\ call'.op = "restore" => /\ call'.bp \in DOMAIN active \ {b}
                                 /\ ~active[call'.bp]
  <2>1. CASE call' = Idle
    BY <2>1 DEF Idle
  <2>2. ASSUME NEW c \in Inactive \ {b},
               call' = [op |-> "restore", bp |-> c, todo |-> Listed]
        PROVE  <1>6!1 /\ <1>6!2
    BY <2>2 DEF Inactive, TypeOK, Listed
  <2> QED
    BY <1>5, <2>1, <2>2
<1>7. TypeOK'
  BY <1>1, <1>4, <1>6 DEF TypeOK
<1>8. Known'
  BY <1>1, <1>2, <1>3, <1>4, <1>6 DEF Known, Recorded
<1>9. InCall'
  BY <1>1, <1>4, <1>6 DEF InCall, TypeOK
<1>10. ArmedActive'
  <2> SUFFICES ASSUME ~failed, NEW c \in Bps, NEW t \in Listed, Armed(c, t)
               PROVE  c \in DOMAIN active' /\ active'[c]
    BY <1>1, <1>3 DEF ArmedActive
  <2>1. (c \in DOMAIN active /\ active[c]) \/ c = b
    BY <1>1 DEF ArmedActive, b
  <2> QED
    BY <1>2, <1>4, <2>1
<1> QED
  BY <1>1, <1>7, <1>8, <1>9, <1>10, CallOnly

-----------------------------------------------------------------------------

LEMMA NextStep == ASSUME IInv, [Next]_vars PROVE IInv'
<1>1. CASE UNCHANGED vars
  BY <1>1 DEF vars, IInv, TypeOK, FirstRegister, Unborn, Known, InCall, ArmedActive,
              Listed, Armed, Recorded
<1>2. CASE Target
  BY <1>2, TargetStep
<1>3. ASSUME NEW b \in Bps, SetBp(b) \/ RemoveBp(b) \/ \E t \in Threads : Hit(t, b)
      PROVE  IInv'
  BY <1>3, SetBpStep, RemoveBpStep, HitStep
<1>4. ASSUME NEW t \in Threads, SetOnThread(t) \/ RemoveFromThread(t) \/ Throws(t)
      PROVE  IInv'
  BY <1>4, SetOnThreadStep, RemoveFromThreadStep, ThrowsStep
<1>5. CASE Stepped \/ Finish
  BY <1>5, SteppedStep, SetEndsStep, RemoveEndsStep, HitEndsStep, RestoreEndsStep
     DEF Finish
<1> QED
  BY <1>1, <1>2, <1>3, <1>4, <1>5 DEF Next

LEMMA HwInvariant == Spec => []IInv
BY InitInv, NextStep, PTL DEF Spec

\* Every variable holds a value of its type
THEOREM Typing == Spec => []TypeOK
BY HwInvariant, PTL DEF IInv

\* While a thread is stepped over a breakpoint, no thread has it armed, however many
\* are cloned, stop and exit meanwhile, and though calls may have thrown half way
THEOREM OffWhileStepping == Spec => []StepOff
<1>1. IInv => StepOff
  BY DEF IInv, Known, InCall, StepOff
<1> QED
  BY <1>1, HwInvariant, PTL

\* Until a call throws, as the first one after a thread's exit does, a breakpoint that
\* the manager has removed, or has made inactive, is armed on no thread between calls
THEOREM NothingLeftOver == Spec => []NoLeftover
<1>1. IInv => NoLeftover
  BY DEF IInv, ArmedActive, NoLeftover, Settled, Idle
<1> QED
  BY <1>1, HwInvariant, PTL

-----------------------------------------------------------------------------
(* The only breakpoint                                                     *)

\* A step that records no more, and changes no register, takes no breakpoint from one
LEMMA OneKept ==
  ASSUME OneInv, UNCHANGED dr,
         ever' = IF call'.op = "set" THEN ever \cup {call'.bp} ELSE ever,
         DOMAIN active' \subseteq DOMAIN active \cup {call.bp},
         DOMAIN active' = DOMAIN active \/ call.op # "none" \/ DOMAIN active' \subseteq DOMAIN active,
         call'.op \notin {"none", "set"} =>
           call'.bp \in DOMAIN active \/ (call.op # "none" /\ call'.bp = call.bp),
         \A b \in Bps, t \in Threads : Recorded(b, t)' => Recorded(b, t)
  PROVE  OneInv'
<1>1. ever \subseteq ever'
  OBVIOUS
<1>2. EverSet'
  BY <1>1 DEF OneInv, EverSet
<1>3. OnlyOneArmed'
  <2> SUFFICES ASSUME NEW b \in Bps, ever' = {b}, NEW t \in Threads, Recorded(b, t)'
               PROVE  Armed(b, t)'
    BY DEF OnlyOneArmed
  <2>1. Recorded(b, t) /\ ever = {b}
    BY <1>1 DEF OneInv, EverSet
  <2>2. Armed(b, t)
    BY <2>1 DEF OneInv, OnlyOneArmed
  <2> QED
    BY <2>2 DEF Armed
<1> QED
  BY <1>2, <1>3 DEF OneInv

LEMMA OneSet ==
  ASSUME IInv, OneInv, NEW t \in Threads, SetOnThread(t),
         ever' = IF call'.op = "set" THEN ever \cup {call'.bp} ELSE ever
  PROVE  OneInv'
<1> DEFINE b == call.bp
<1>1. /\ call.op \in {"set", "restore"} /\ UNCHANGED active
      /\ call'.op = call.op /\ call'.bp = b
  BY DEF SetOnThread, Visit, Rest, IInv, TypeOK
<1>2. b \in Bps /\ b \in ever /\ ever' = ever
  BY <1>1 DEF IInv, InCall, OneInv, EverSet
<1>3. /\ dr[t].ctl \in SUBSET {0} /\ dr[t].addr \in [Dregs -> Bps \cup {Zero}]
      /\ 0 \in Dregs
  BY DEF IInv, FirstRegister, TypeOK, Dregs
<1>4. First(FreeRegs(t)) = 0 /\ SetHwBpxEnabled(dr[t].ctl, 0, TRUE) = {0}
  BY <1>3, FirstFree, FirstEnabled
<1>5. dr' = [dr EXCEPT ![t] = [addr |-> [@.addr EXCEPT ![0] = b], ctl |-> {0}]]
  BY <1>4 DEF SetOnThread
<1>6. dr'[t].addr[0] = b /\ dr'[t].ctl = {0} /\ \A u \in Threads \ {t} : dr'[u] = dr[u]
  BY <1>3, <1>5 DEF IInv, TypeOK
<1>7. \A c \in Bps : /\ c = b => Armed(c, t)'
                     /\ \A u \in Threads \ {t} : Armed(c, u)' = Armed(c, u)
  <2>1. \A c \in Bps : c = b => Armed(c, t)'
    BY <1>3, <1>6 DEF Armed
  <2> QED
    BY <1>6, <2>1 DEF Armed
<1>8. \A c \in Bps, u \in Threads : Recorded(c, u)' => Recorded(c, u) \/ (c = b /\ u = t)
  <2>1. /\ \A c \in Bps \ {b} : bp_regs'[c] = bp_regs[c]
        /\ DOMAIN bp_regs'[b] = DOMAIN bp_regs[b] \cup {t}
    BY <1>2 DEF SetOnThread, IInv, TypeOK
  <2> HIDE DEF b
  <2> QED
    BY <1>2, <2>1 DEF Recorded
<1> HIDE DEF b
<1>9. EverSet'
  BY <1>1, <1>2, <1>8 DEF OneInv, EverSet
<1>10. OnlyOneArmed'
  <2> SUFFICES ASSUME NEW c \in Bps, ever' = {c}, NEW u \in Threads, Recorded(c, u)'
               PROVE  Armed(c, u)'
    BY DEF OnlyOneArmed
  <2>1. c = b
    BY <1>2
  <2>2. CASE u = t
    BY <1>7, <2>1, <2>2
  <2>3. CASE u # t
    BY <1>2, <1>7, <1>8, <2>3 DEF OneInv, OnlyOneArmed
  <2> QED
    BY <2>2, <2>3
<1> QED
  BY <1>9, <1>10 DEF OneInv

LEMMA OneRemove ==
  ASSUME IInv, OneInv, NEW t \in Threads, RemoveFromThread(t),
         ever' = IF call'.op = "set" THEN ever \cup {call'.bp} ELSE ever
  PROVE  OneInv'
<1> DEFINE b == call.bp
<1>1. /\ call.op \in {"remove", "hit"} /\ UNCHANGED active
      /\ call'.op = call.op /\ call'.bp = b
  BY DEF RemoveFromThread, Visit, Rest, IInv, TypeOK
<1>2. b \in Bps /\ b \in ever /\ ever' = ever
  BY <1>1 DEF IInv, InCall, OneInv, EverSet
<1>3. CASE ~Recorded(b, t)
  <2>1. UNCHANGED <<dr, bp_regs>>
    BY <1>3 DEF RemoveFromThread, Recorded
  <2> QED
    BY <1>1, <2>1, OneKept DEF Recorded
<1>4. CASE Recorded(b, t)
  <2>1. /\ \A c \in Bps \ {b} : bp_regs'[c] = bp_regs[c]
        /\ DOMAIN bp_regs'[b] = DOMAIN bp_regs[b] \ {t}
        /\ \A u \in Threads \ {t} : dr'[u] = dr[u]
    BY <1>2, <1>4 DEF RemoveFromThread, Recorded, IInv, TypeOK
  <2> HIDE DEF b
  <2>2. \A c \in Bps, u \in Threads : Recorded(c, u)' => Recorded(c, u) /\ ~(c = b /\ u = t)
    BY <1>2, <2>1 DEF Recorded
  <2>3. EverSet'
    BY <1>1, <1>2, <2>2 DEF OneInv, EverSet
  <2>4. OnlyOneArmed'
    <3> SUFFICES ASSUME NEW c \in Bps, ever' = {c}, NEW u \in Threads, Recorded(c, u)'
                 PROVE  Armed(c, u)'
      BY DEF OnlyOneArmed
    <3>1. c = b /\ u # t /\ Armed(c, u)
      BY <1>2, <2>2 DEF OneInv, OnlyOneArmed
    <3> QED
      BY <2>1, <3>1 DEF Armed
  <2> QED
    BY <2>3, <2>4 DEF OneInv
<1> QED
  BY <1>3, <1>4

LEMMA OneStep == ASSUME IInv, OneInv, [MCNext]_<<vars, ever>> PROVE OneInv'
<1>1. CASE UNCHANGED <<vars, ever>>
  BY <1>1 DEF vars, OneInv, EverSet, OnlyOneArmed, Recorded, Armed
<1>2. CASE MCNext
  <2>1. ever' = IF call'.op = "set" THEN ever \cup {call'.bp} ELSE ever
    BY <1>2 DEF MCNext
  <2>2. CASE Target
    BY <2>1, <2>2, OneKept DEF Target, Recorded, OneInv, EverSet
  <2>3. ASSUME NEW b \in Bps, SetBp(b) PROVE OneInv'
    BY <2>1, <2>3, OneKept DEF SetBp, Begin, Recorded
  <2>4. ASSUME NEW b \in Bps, RemoveBp(b) PROVE OneInv'
    <3>1. CASE active[b]
      BY <2>1, <2>4, <3>1, OneKept DEF RemoveBp, Begin, Recorded
    <3>2. CASE ~active[b]
      <4>1. Erase(b) /\ UNCHANGED <<call, dr>> /\ call = Idle
        BY <2>4, <3>2 DEF RemoveBp
      <4> QED
        BY <2>1, <4>1, EraseKeeps, OneKept DEF Idle
    <3> QED
      BY <3>1, <3>2
  <2>5. ASSUME NEW b \in Bps, NEW t \in Threads, Hit(t, b) PROVE OneInv'
    BY <2>1, <2>5, OneKept DEF Hit, Begin, Recorded
  <2>6. ASSUME NEW t \in Threads, SetOnThread(t) \/ RemoveFromThread(t) PROVE OneInv'
    BY <2>1, <2>6, OneSet, OneRemove
  <2>7. ASSUME NEW t \in Threads, Throws(t) PROVE OneInv'
    <3>1. /\ call' = Idle /\ UNCHANGED <<dr, active>>
          /\ \A b \in Bps : bp_regs'[b] = bp_regs[b] \/ bp_regs'[b] = <<>>
      BY <2>7 DEF Throws, IInv, TypeOK
    <3>2. \A b \in Bps, u \in Threads : Recorded(b, u)' => Recorded(b, u)
      <4>1. DOMAIN <<>> = {}
        OBVIOUS
      <4> QED
        BY <3>1, <4>1 DEF Recorded
    <3> QED
      BY <2>1, <3>1, <3>2, OneKept DEF Idle
  <2>8. CASE Stepped
    <3>1. UNCHANGED <<dr, bp_regs, active>> /\ Inactive \in SUBSET Bps
      BY <2>8 DEF Stepped, Inactive, IInv, TypeOK
    <3>2. \/ call' = Idle
          \/ \E b \in Inactive : call' = [op |-> "restore", bp |-> b, todo |-> Listed]
      BY <2>8, <3>1, RestoreNext DEF Stepped
    <3> QED
      BY <2>1, <3>1, <3>2, OneKept DEF Recorded, Idle, Inactive
  <2>9. CASE SetEnds \/ HitEnds
    <3>1. /\ UNCHANGED <<dr, bp_regs>> /\ call.op # "none"
          /\ DOMAIN active' = DOMAIN active \cup {call.bp}
      BY <2>9 DEF SetEnds, HitEnds, Ends, Status
    <3>2. call' = Idle \/ (call'.op = "step" /\ call'.bp = call.bp)
      BY <2>9 DEF SetEnds, HitEnds, IInv, TypeOK
    <3> QED
      BY <2>1, <3>1, <3>2, OneKept DEF Recorded, Idle
  <2>10. CASE RemoveEnds
    <3>1. /\ call.op = "remove" /\ call' = Idle /\ Erase(call.bp) /\ UNCHANGED dr
          /\ call.bp \in Bps
      BY <2>10 DEF RemoveEnds, Ends, IInv, InCall
    <3> QED
      BY <2>1, <3>1, EraseKeeps, OneKept DEF Idle
  <2>11. CASE RestoreEnds
    <3>1. /\ call.op = "restore" /\ UNCHANGED <<dr, bp_regs>>
          /\ DOMAIN active' = DOMAIN active \cup {call.bp}
          /\ Inactive \ {call.bp} \in SUBSET Bps
      BY <2>11 DEF RestoreEnds, Ends, Status, Inactive, IInv, TypeOK
    <3>2. \/ call' = Idle
          \/ \E b \in Inactive : call' = [op |-> "restore", bp |-> b, todo |-> Listed]
      BY <2>11, <3>1, RestoreNext DEF RestoreEnds
    <3> QED
      BY <2>1, <3>1, <3>2, OneKept DEF Recorded, Idle, Inactive
  <2> QED
    BY <1>2, <2>2, <2>3, <2>4, <2>5, <2>6, <2>7, <2>8, <2>9, <2>10, <2>11
       DEF MCNext, Next, Finish
<1> QED
  BY <1>1, <1>2

\* The only breakpoint ever set holds every register it has taken: whatever threads are
\* cloned, stop and exit meanwhile, no call that throws half way leaves a thread which
\* the breakpoint counts as its own and which does not have it armed
THEOREM TheOnlyOneIsArmed == MCSpec => []OnlyOneArmed
<1>1. MCInit => IInv /\ OneInv
  <2>1. MCInit => OneInv
    <3>1. DOMAIN <<>> = {}
      OBVIOUS
    <3> QED
      BY <3>1 DEF MCInit, Init, Idle, OneInv, EverSet, OnlyOneArmed, Recorded
  <2> QED
    BY <2>1, InitInv DEF MCInit
<1>2. IInv /\ OneInv /\ [MCNext]_<<vars, ever>> => (IInv /\ OneInv)'
  <2>1. [MCNext]_<<vars, ever>> => [Next]_vars
    BY DEF MCNext
  <2> QED
    BY <2>1, NextStep, OneStep
<1>3. OneInv => OnlyOneArmed
  BY DEF OneInv
<1> QED
  BY <1>1, <1>2, <1>3, PTL DEF MCSpec
=============================================================================
