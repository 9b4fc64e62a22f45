------------------------------ MODULE SyncCall ------------------------------
(***************************************************************************)
(* What utils/runner.hpp promises to a thread that calls Runner::run: its  *)
(* closure is executed, exactly once, before the call returns, and the     *)
(* call ends the way that closure ended (a value, or its exception).       *)
(* Calls do not overlap, and none is made on a runner being destroyed.     *)
(***************************************************************************)
CONSTANTS Callers,   \* threads that call Runner::run
          Outcomes   \* the ways a closure ends

VARIABLES
  st,     \* st[c]: "idle", "called" (closure not yet executed) or its outcome
  got,    \* got[c]: what the last call of c returned, "none" before the first
  open    \* the runner has not been destroyed

vars == <<st, got, open>>

Init == /\ st = [c \in Callers |-> "idle"]
        /\ got = [c \in Callers |-> "none"]
        /\ open = TRUE

Call(c) == /\ open
           /\ \A d \in Callers : st[d] = "idle"
           /\ st' = [st EXCEPT ![c] = "called"]
           /\ UNCHANGED <<got, open>>

Execute(c) == /\ st[c] = "called"
              /\ \E o \in Outcomes : st' = [st EXCEPT ![c] = o]
              /\ UNCHANGED <<got, open>>

Return(c) == /\ st[c] \in Outcomes
             /\ got' = [got EXCEPT ![c] = st[c]]
             /\ st' = [st EXCEPT ![c] = "idle"]
             /\ UNCHANGED open

Close == /\ \A c \in Callers : st[c] = "idle"
         /\ open' = FALSE
         /\ UNCHANGED <<st, got>>

Next == \/ \E c \in Callers : Call(c) \/ Execute(c) \/ Return(c)
        \/ Close

Spec == Init /\ [][Next]_vars

FairSpec == /\ Spec
            /\ \A c \in Callers : WF_vars(Execute(c)) /\ WF_vars(Return(c))
=============================================================================
