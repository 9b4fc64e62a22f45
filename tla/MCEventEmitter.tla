--------------------------- MODULE MCEventEmitter ---------------------------
(* Three listeners, registered up to four times between them, that may     *)
(* emit in turn, or throw.                                                 *)
EXTENDS EventEmitter

CONSTANTS l1, l2, l3

\* The assumption of this run: an emission inside another finds every listener alive.
\* Where it does not, its moves and its erase pull the entries from under the outer
\* walk, and nothing is claimed.
NestedSafely == \A k \in DOMAIN walks :
  k > 1 => \A i \in walks[k].first .. walks[k].last : list[i] \in live

MCNext == EmitterNext /\ NestedSafely'
MCSpec == EmitterInit /\ [][MCNext]_emitter_vars

-----------------------------------------------------------------------------

(* The inductive invariant *)

\* Between result and first nobody lives, in a nested walk there is nobody at all; and
\* whoever emits in an emission is called
InStep(k) ==
  LET w == walks[k] IN
  /\ w.result <= w.first /\ w.first <= w.last + 1 /\ w.last = Len(list)
  /\ w.calling => w.first <= w.last /\ list[w.first] \in live
  /\ \A i \in w.result .. w.first - 1 : list[i] \notin live
  /\ k < Len(walks) => w.calling
  /\ k > 1 => w.result = w.first

\* What the outermost walk keeps was not moved from
KeptWhole == walks # <<>> => \A i \in 1 .. walks[1].result - 1 : list[i] # Empty

\* Whoever is to be called has an entry
Reached == \A l \in wanted \cap live : Contains(list, l)

EmitterInv == /\ EmitterTypeOK /\ ~undefined /\ NestedSafely
              /\ (\A k \in DOMAIN walks : InStep(k)) /\ KeptWhole /\ Reached
=============================================================================
