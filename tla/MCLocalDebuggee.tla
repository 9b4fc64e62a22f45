--------------------------- MODULE MCLocalDebuggee ---------------------------
(* A leader and at most one more thread, any breakpoints, and a client     *)
(* that discards SIGSTOPs and single steps.                                *)
EXTENDS LocalDebuggee

\* The threads whose signal is that of a TRAP_BRKPT hit although they have
\* stepped on since: on_sig_trap writes it after handle_bp_event's step.
VARIABLE late

Restarted(t) == /\ t \in Known /\ threads[t].stopped
                /\ t \in DOMAIN threads' /\ ~threads'[t].stopped

Overwritten(t) == Restore /\ Top.evt = "BRKPT" /\ Top.thr = t /\ t \in Known

MCInit == Init /\ late = {}
MCNext == /\ Next
          /\ late' = {t \in Threads : Overwritten(t) \/ (t \in late /\ ~Restarted(t))}
MCSpec == MCInit /\ [][MCNext]_<<vars, late>> /\ WF_vars(Loop) /\ WF_vars(Delivery)

\* The stops after which the target is to get the signal
DeliveredStops == SignalStops \ (Discards \cup {"BRKPT"})

\* A thread is resumed with the signal of the stop it is in exactly when that stop
\* was not discarded: never a stale one, never another's, and never without.  Two
\* stops lose theirs: one taken for a breakpoint hit, when its thread is stepped on
\* (At("handle")), and a TRAP_BRKPT, which on_sig_trap leaves alone when there is no
\* hit (debuggee.cc:291-292).  After a hit on TRAP_BRKPT the target gets the SIGTRAP
\* of the hit, or nothing.
SignalsFaithful ==
  [][\A t \in Threads : Restarted(t) /\ why[t] # "exit" =>
       IF t \in late THEN threads[t].sig \in {"none", "TRAP"}
       ELSE threads[t].sig = IF why[t] \in DeliveredStops /\ ~At("handle")
                             THEN SignalOf(why[t]) ELSE "none"]_vars

\* The invariant behind it.  A thread's last stop is its exit;
ExitIsLast == \A t \in Threads : /\ ks[t] \in {"zombie", "gone"} => why[t] = "exit"
                                 /\ why[t] = "exit" => ks[t] \notin {"none", "born", "run"}

\* a thread outside the map has not had another stop than its first;
StrangersNew == \A t \in Threads \ Known : why[t] \in {"exec", "start", "exit"}

\* calls nested in one another are about one thread, whose stop, or exit, is
\* what is handled, and what it is to get is not decided yet;
OneThread == \A i \in DOMAIN ctl : ctl[i].thr = Top.thr
EventsTold == ctl # <<>> /\ Top.at \in {"stop", "handle"} =>
  /\ why[Top.thr] \in {Top.evt, "exit"}
  /\ Top.thr \in late => why[Top.thr] = "exit"
  /\ Top.at = "handle" => evt_ign = FALSE
  /\ Top.thr \in Known /\ why[Top.thr] # "exit" => threads[Top.thr].sig = "none"

\* after the step over a breakpoint the thread is stopped again, or exits;
SteppedBack == ctl # <<>> /\ Top.at = "restore" /\ Top.thr \in Known =>
  threads[Top.thr].stopped \/ why[Top.thr] = "exit"

\* and the signal in an entry is that of the stop the thread is in.
Handling(t) == ctl # <<>> /\ Top.at \in {"stop", "handle"} /\ Top.thr = t
SignalNoted(t) == LET entry == threads[t] IN
  /\ entry.stopped => ~report[t]
  /\ entry.sig # "none" \/ t \in late => entry.stopped
  /\ t \in late => entry.sig \in {"none", "TRAP"}
  /\ t \notin late /\ entry.sig # "none" =>
       why[t] \in DeliveredStops /\ entry.sig = SignalOf(why[t])
  /\ t \notin late /\ entry.stopped /\ ks[t] = "stop" /\ why[t] \in DeliveredStops =>
       entry.sig = SignalOf(why[t]) \/ Handling(t)
SignalsNoted == \A t \in Known : why[t] = "exit" \/ SignalNoted(t)

SignalInv == /\ ExitIsLast /\ StrangersNew /\ OneThread /\ EventsTold
             /\ SteppedBack /\ SignalsNoted
=============================================================================
