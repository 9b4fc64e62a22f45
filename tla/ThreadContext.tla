---------------------------- MODULE ThreadContext ----------------------------
(***************************************************************************)
(* ThreadContext (dbg/thread_context.cc): copies share one RawContext      *)
(* through a shared_ptr until one of them writes to it.  Objects belong to *)
(* different threads of the debugger, which run set_reg, get_context and   *)
(* set_context step by step; no two threads use one object at a time.      *)
(* get_context and set_context run on the thread of pt_runner, one by one. *)
(***************************************************************************)
EXTENDS Naturals

CONSTANTS Handles, Threads, Values, Size, Settable, Junk, Null,
          Blocks  \* addresses of RawContext objects

ASSUME ContextAssumption == /\ Size \in Nat \ {0}
                            /\ Settable \subseteq 1..Size
                            /\ Null \notin Blocks
                            /\ Null \notin [1..Size -> Values \cup {Junk}]

VARIABLES
  live,  \* ThreadContext objects that exist
  ctx,   \* ctx[h]: raw_ctx_, a block or Null
  mem,   \* the RawContexts that exist: registers by block
  op,    \* op[h]: the operation h is in
  regs   \* regs[t]: registers of thread t in the kernel

vars == <<live, ctx, mem, op, regs>>

Groups == 1..Size
Contents == [Groups -> Values \cup {Junk}]

\* at: next step; goal: what for; k: group of registers; x: value to set; t:
\* thread; new: the clone made, not yet in raw_ctx_
Ops == [at : {"idle", "clone", "swap", "set", "load", "store"},
        goal : {"none", "set", "load", "store"},
        k : 0..Size, x : Values \cup {Junk}, t : Threads \cup {Null}, new : Blocks \cup {Null}]
Idle == [at |-> "idle", goal |-> "none", k |-> 0, x |-> Junk, t |-> Null, new |-> Null]

Init == /\ live = {}
        /\ ctx = [h \in Handles |-> Null]
        /\ mem = [b \in {} |-> Junk]
        /\ op = [h \in Handles |-> Idle]
        /\ regs \in [Threads -> [Groups -> Values]]

Free(h) == h \in live /\ op[h] = Idle
Shared(h) == \E g \in Handles \ {h} : ctx[g] = ctx[h]  \* use_count() > 1
PtIdle == \A h \in Handles : op[h].goal \in {"none", "set"}

\* The blocks left when h lets go of its own
Released(h) == IF Shared(h) THEN mem
               ELSE [b \in DOMAIN mem \ {ctx[h]} |-> mem[b]]

-----------------------------------------------------------------------------
(* Construction and destruction                                            *)

Default(h) == /\ h \notin live
              /\ live' = live \cup {h}
              /\ UNCHANGED <<ctx, mem, op, regs>>

Copy(g, h) == /\ Free(g) /\ h \notin live
              /\ live' = live \cup {h}
              /\ ctx' = [ctx EXCEPT ![h] = ctx[g]]
              /\ UNCHANGED <<mem, op, regs>>

Move(g, h) == /\ Free(g) /\ h \notin live
              /\ live' = live \cup {h}
              /\ ctx' = [ctx EXCEPT ![h] = ctx[g], ![g] = Null]
              /\ UNCHANGED <<mem, op, regs>>

Destroy(h) == /\ Free(h)
              /\ live' = live \ {h}
              /\ mem' = Released(h)
              /\ ctx' = [ctx EXCEPT ![h] = Null]
              /\ UNCHANGED <<op, regs>>

-----------------------------------------------------------------------------
(* set_reg, get_context, set_context                                       *)

Begin(h, at, goal, k, x, t) ==
  op' = [op EXCEPT ![h] = [at |-> at, goal |-> goal, k |-> k, x |-> x, t |-> t,
                           new |-> Null]]

\* The goal is set about without a clone
PrepareInPlace(h, goal, k, x, t) == Begin(h, goal, goal, k, x, t)

\* The test of use_count(), then on to the clone or to the goal itself
Prepare(h, goal, k, x, t) == Begin(h, IF Shared(h) THEN "clone" ELSE goal, goal, k, x, t)

SetReg(h, k, x) == /\ Free(h) /\ ctx[h] # Null /\ k \in Settable
                   /\ Prepare(h, "set", k, x, Null)
                   /\ UNCHANGED <<live, ctx, mem, regs>>

\* make_raw_context
Allocate(h, contents) ==
  \E b \in Blocks \ DOMAIN mem :
    /\ mem' = [c \in DOMAIN mem \cup {b} |-> IF c = b THEN contents ELSE mem[c]]
    /\ ctx' = [ctx EXCEPT ![h] = b]

\* obtain_from that reads into the registers of the other copies as well
GetContextInPlace(h, t) ==
  /\ Free(h) /\ PtIdle
  /\ IF ctx[h] = Null THEN Allocate(h, [k \in Groups |-> Junk]) ELSE UNCHANGED <<ctx, mem>>
  /\ Begin(h, "load", "load", 1, Junk, t)
  /\ UNCHANGED <<live, regs>>

\* obtain_from: the first one makes a context; there is one architecture, so any
\* later one finds its own valid
GetContext(h, t) ==
  /\ Free(h) /\ PtIdle
  /\ \/ /\ ctx[h] = Null
        /\ Allocate(h, [k \in Groups |-> Junk])
        /\ Begin(h, "load", "load", 1, Junk, t)
     \/ /\ ctx[h] # Null
        /\ Prepare(h, "load", 1, Junk, t)
        /\ UNCHANGED <<ctx, mem>>
  /\ UNCHANGED <<live, regs>>

\* apply_to; nothing happens without a raw context
SetContext(h, t) ==
  /\ Free(h) /\ PtIdle /\ ctx[h] # Null
  /\ Begin(h, "store", "store", 1, Junk, t)
  /\ UNCHANGED <<live, ctx, mem, regs>>

\* shared_clone, and the assignment to raw_ctx_ that lets go of the old block
Clone(h) == /\ op[h].at = "clone"
            /\ \E b \in Blocks \ DOMAIN mem :
                 /\ mem' = [c \in DOMAIN mem \cup {b} |->
                              IF c = b THEN mem[ctx[h]] ELSE mem[c]]
                 /\ op' = [op EXCEPT ![h].at = "swap", ![h].new = b]
            /\ UNCHANGED <<live, ctx, regs>>

Swap(h) == /\ op[h].at = "swap"
           /\ mem' = Released(h)
           /\ ctx' = [ctx EXCEPT ![h] = op[h].new]
           /\ op' = [op EXCEPT ![h].at = op[h].goal, ![h].new = Null]
           /\ UNCHANGED <<live, regs>>

WriteReg(h) == /\ op[h].at = "set"
               /\ mem' = [mem EXCEPT ![ctx[h]][op[h].k] = op[h].x]
               /\ op' = [op EXCEPT ![h] = Idle]
               /\ UNCHANGED <<live, ctx, regs>>

\* On to the next group of registers, after the last one the end
NextGroup(h) == op' = [op EXCEPT ![h] = IF op[h].k < Size THEN [op[h] EXCEPT !.k = @ + 1]
                                        ELSE Idle]

LoadGroup(h) == /\ op[h].at = "load"
                /\ mem' = [mem EXCEPT ![ctx[h]][op[h].k] = regs[op[h].t][op[h].k]]
                /\ NextGroup(h)
                /\ UNCHANGED <<live, ctx, regs>>

StoreGroup(h) == /\ op[h].at = "store"
                 /\ regs' = [regs EXCEPT ![op[h].t][op[h].k] = mem[ctx[h]][op[h].k]]
                 /\ NextGroup(h)
                 /\ UNCHANGED <<live, ctx, mem>>

\* A ptrace request fails, the groups before it transferred
TransferFails(h) == /\ op[h].at \in {"load", "store"}
                    /\ op' = [op EXCEPT ![h] = Idle]
                    /\ UNCHANGED <<live, ctx, mem, regs>>

\* A thread of the target runs between two requests of the debugger
RunThread(t) == /\ PtIdle
                /\ \E r \in [Groups -> Values] : regs' = [regs EXCEPT ![t] = r]
                /\ UNCHANGED <<live, ctx, mem, op>>

Next == \/ \E h \in Handles :
             \/ Default(h) \/ Destroy(h)
             \/ \E g \in Handles : Copy(g, h) \/ Move(g, h)
             \/ \E k \in Groups : \E x \in Values : SetReg(h, k, x)
             \/ \E t \in Threads : GetContext(h, t) \/ SetContext(h, t)
             \/ Clone(h) \/ Swap(h) \/ WriteReg(h)
             \/ LoadGroup(h) \/ StoreGroup(h) \/ TransferFails(h)
        \/ \E t \in Threads : RunThread(t)

Spec == Init /\ [][Next]_vars

-----------------------------------------------------------------------------

\* Every variable holds a value of its type
TypeOK == /\ live \subseteq Handles
          /\ ctx \in [Handles -> Blocks \cup {Null}]
          /\ DOMAIN mem \subseteq Blocks
          /\ \A b \in DOMAIN mem : mem[b] \in Contents
          /\ op \in [Handles -> Ops]
          /\ regs \in [Threads -> Contents]

\* What a set_context has transferred so far is what its object still holds: no
\* write through a copy comes between the ptrace requests of a transfer.
StoredWhole == \A h \in Handles : op[h].at = "store" =>
                 \A k \in 1 .. op[h].k - 1 : regs[op[h].t][k] = mem[ctx[h]][k]

\* The inductive invariant: objects in use hold contexts that exist,
Owned == \A h \in Handles : /\ h \notin live => ctx[h] = Null /\ op[h] = Idle
                            /\ ctx[h] # Null => ctx[h] \in DOMAIN mem

\* an operation's record fits its step,
InStep == \A h \in Handles :
  /\ op[h].at = "idle" => op[h] = Idle
  /\ op[h].at # "idle" =>
       /\ ctx[h] # Null /\ op[h].k \in Groups
       /\ op[h].at \in {"set", "load", "store"} => op[h].goal = op[h].at
       /\ op[h].at \in {"clone", "swap"} => op[h].goal \in {"set", "load"}
       /\ op[h].goal = "set" => op[h].k \in Settable /\ op[h].x \in Values
       /\ op[h].goal \in {"load", "store"} => op[h].t \in Threads

\* a clone that is not yet in raw_ctx_ equals the original and belongs to nobody,
CloneApart == \A h \in Handles :
  /\ op[h].at # "swap" => op[h].new = Null
  /\ op[h].at = "swap" =>
       /\ op[h].new \in DOMAIN mem /\ mem[op[h].new] = mem[ctx[h]]
       /\ \A g \in Handles : ctx[g] # op[h].new /\ (g # h => op[g].new # op[h].new)

\* who is about to write shares its context with nobody,
WriterAlone == \A h \in Handles : op[h].at \in {"set", "load"} => ~Shared(h)

\* and one transfer at a time is in progress.
OneTransfer == \A g, h \in Handles :
  op[g].goal \in {"load", "store"} /\ op[h].goal \in {"load", "store"} => g = h

IInv == /\ TypeOK /\ Owned /\ InStep /\ CloneApart /\ WriterAlone /\ OneTransfer
        /\ StoredWhole

\* The values the objects of the abstract specification would have
val == [h \in Handles |-> IF ctx[h] = Null THEN Null ELSE mem[ctx[h]]]

File == INSTANCE RegisterFile

\* Sharing is invisible: objects behave as if each had registers of its own.
ImplementsRegisterFile == File!Spec
=============================================================================
