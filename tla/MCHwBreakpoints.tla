-------------------------- MODULE MCHwBreakpoints --------------------------
(* Two threads and two breakpoints.                                        *)
EXTENDS HwBreakpoints, TLC

CONSTANTS t1, t2, b1, b2

Symmetry == Permutations(Bps)

\* The breakpoints set_bp was ever called for
VARIABLE ever

MCInit == Init /\ ever = {}
MCNext == Next /\ ever' = IF call'.op = "set" THEN ever \cup {call'.bp} ELSE ever
MCSpec == MCInit /\ [][MCNext]_<<vars, ever>>

\* The only breakpoint ever set is armed on every thread that it counts as its own, even
\* between the steps of a call and after one has thrown half way: set_on_thread and
\* remove_from_thread change the registers and bp_regs_ together
\* (hw_breakpoint.cc:100-101, 117-118).  A second breakpoint takes its register.
OnlyOneArmed ==
  \A b \in Bps : ever = {b} => \A t \in Threads : Recorded(b, t) => Armed(b, t)

(* Its inductive strengthening, on top of IInv                              *)

\* What the manager holds, works on and has recorded is a breakpoint that was set once
EverSet ==
  /\ DOMAIN active \subseteq ever
  /\ call.op # "none" => call.bp \in ever
  /\ \A b \in Bps, t \in Threads : Recorded(b, t) => b \in ever

OneInv == EverSet /\ OnlyOneArmed
=============================================================================
