---------------------------- MODULE RegisterFile ----------------------------
(***************************************************************************)
(* What a ThreadContext promises (include/hdbg/dbg/thread_context.hpp):    *)
(* every live object holds register values of its own.  Whatever is done   *)
(* with one object is not seen by another, copies of it included.          *)
(***************************************************************************)
EXTENDS Naturals

CONSTANTS Handles,  \* the ThreadContext objects a program may have
          Threads,  \* threads of the target
          Values,   \* register values
          Size,     \* number of groups of registers (ptrace requests per transfer)
          Settable, \* groups whose registers set_reg can set
          Junk,     \* contents of uninitialised memory
          Null      \* the value of an object without registers

VARIABLES
  live,  \* objects that exist
  val,   \* val[h]: registers of h, or Null
  regs   \* regs[t]: registers of thread t

Groups == 1..Size

Init == /\ live = {}
        /\ val = [h \in Handles |-> Null]
        /\ regs \in [Threads -> [Groups -> Values]]

Construct(h, x) == /\ h \notin live
                   /\ live' = live \cup {h}
                   /\ val' = [val EXCEPT ![h] = x]
                   /\ UNCHANGED regs

Default(h) == Construct(h, Null)

Copy(g, h) == g \in live /\ Construct(h, val[g])

Move(g, h) == /\ g \in live /\ h \notin live
              /\ live' = live \cup {h}
              /\ val' = [val EXCEPT ![h] = val[g], ![g] = Null]
              /\ UNCHANGED regs

Destroy(h) == /\ h \in live
              /\ live' = live \ {h}
              /\ val' = [val EXCEPT ![h] = Null]
              /\ UNCHANGED regs

Write(h, k, x) == /\ h \in live /\ val[h] # Null
                  /\ val' = [val EXCEPT ![h][k] = x]
                  /\ UNCHANGED <<live, regs>>

Set(h, k, x) == k \in Settable /\ x \in Values /\ Write(h, k, x)

\* A first get_context gives the object registers, which it then reads
Allocate(h) == /\ h \in live /\ val[h] = Null
               /\ val' = [val EXCEPT ![h] = [k \in Groups |-> Junk]]
               /\ UNCHANGED <<live, regs>>

Load(h, t, k) == Write(h, k, regs[t][k])

Store(h, t, k) == /\ h \in live /\ val[h] # Null
                  /\ regs' = [regs EXCEPT ![t][k] = val[h][k]]
                  /\ UNCHANGED <<live, val>>

RunThread(t) == /\ \E r \in [Groups -> Values] : regs' = [regs EXCEPT ![t] = r]
                /\ UNCHANGED <<live, val>>

Next == \/ \E h \in Handles :
             \/ Default(h) \/ Destroy(h) \/ Allocate(h)
             \/ \E g \in Handles : Copy(g, h) \/ Move(g, h)
             \/ \E k \in Groups : \/ \E x \in Values : Set(h, k, x)
                                  \/ \E t \in Threads : Load(h, t, k) \/ Store(h, t, k)
        \/ \E t \in Threads : RunThread(t)

Spec == Init /\ [][Next]_<<live, val, regs>>
=============================================================================
