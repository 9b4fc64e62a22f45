------------------------ MODULE ThreadContextProofs ------------------------
(* Theorems about ThreadContext, for any objects, threads and registers.   *)
EXTENDS ThreadContext, TLAPS

\* Letting go of a context keeps every one that another object holds.
LEMMA ReleasedKeeps ==
  ASSUME TypeOK, NEW h \in Handles
  PROVE  /\ DOMAIN Released(h) \subseteq DOMAIN mem
         /\ \A b \in DOMAIN mem : b # ctx[h] => b \in DOMAIN Released(h)
         /\ \A g \in Handles \ {h} : ctx[g] \in DOMAIN mem => ctx[g] \in DOMAIN Released(h)
         /\ \A b \in DOMAIN Released(h) : Released(h)[b] = mem[b]
BY DEF Released, Shared, TypeOK

\* A new context leaves the others alone.
LEMMA AllocateAdds ==
  ASSUME TypeOK, NEW h \in Handles, NEW c \in Contents, Allocate(h, c)
  PROVE  \E b \in Blocks \ DOMAIN mem :
           /\ DOMAIN mem' = DOMAIN mem \cup {b} /\ mem'[b] = c
           /\ \A d \in DOMAIN mem : mem'[d] = mem[d]
           /\ ctx' = [ctx EXCEPT ![h] = b]
           /\ ctx' \in [Handles -> Blocks \cup {Null}]
           /\ \A d \in DOMAIN mem' : mem'[d] \in Contents
<1>1. PICK b \in Blocks \ DOMAIN mem :
        /\ mem' = [d \in DOMAIN mem \cup {b} |-> IF d = b THEN c ELSE mem[d]]
        /\ ctx' = [ctx EXCEPT ![h] = b]
  BY DEF Allocate
<1>2. /\ DOMAIN mem' = DOMAIN mem \cup {b} /\ mem'[b] = c
      /\ \A d \in DOMAIN mem : mem'[d] = mem[d]
  BY <1>1
<1>3. \A d \in DOMAIN mem' : mem'[d] \in Contents
  BY <1>2 DEF TypeOK
<1>4. ctx' \in [Handles -> Blocks \cup {Null}]
  BY <1>1 DEF TypeOK
<1> QED BY <1>1, <1>2, <1>3, <1>4

LEMMA BeginType ==
  ASSUME TypeOK, NEW h \in Handles,
         NEW at \in {"clone", "set", "load", "store"}, NEW goal \in {"set", "load", "store"},
         NEW k \in Groups, NEW x \in Values \cup {Junk}, NEW t \in Threads \cup {Null},
         Begin(h, at, goal, k, x, t)
  PROVE  /\ op' \in [Handles -> Ops]
         /\ op'[h] = [at |-> at, goal |-> goal, k |-> k, x |-> x, t |-> t, new |-> Null]
         /\ \A g \in Handles \ {h} : op'[g] = op[g]
<1>1. [at |-> at, goal |-> goal, k |-> k, x |-> x, t |-> t, new |-> Null] \in Ops
  BY ContextAssumption DEF Ops, Groups
<1> QED BY <1>1 DEF Begin, TypeOK

\* After a group the operation is at the next one, or over.
LEMMA NextGroupType ==
  ASSUME TypeOK, NEW h \in Handles, op[h].k \in Groups, NextGroup(h)
  PROVE  /\ op' \in [Handles -> Ops]
         /\ \/ op'[h] = Idle
            \/ /\ op'[h].at = op[h].at /\ op'[h].goal = op[h].goal
               /\ op'[h].x = op[h].x /\ op'[h].t = op[h].t /\ op'[h].new = op[h].new
               /\ op'[h].k = op[h].k + 1 /\ op[h].k + 1 \in Groups
         /\ \A g \in Handles \ {h} : op'[g] = op[g]
<1>1. op[h] \in Ops
  BY DEF TypeOK
<1>2. Idle \in Ops
  BY ContextAssumption DEF Idle, Ops
<1>3. CASE op[h].k < Size
  <2>1. op[h].k + 1 \in Groups
    BY <1>3, ContextAssumption DEF Groups
  <2>2. [op[h] EXCEPT !.k = op[h].k + 1] \in Ops
    BY <1>1, <2>1, ContextAssumption DEF Ops, Groups
  <2> QED BY <1>3, <2>1, <2>2 DEF NextGroup, TypeOK
<1>4. CASE ~(op[h].k < Size)
  BY <1>2, <1>4 DEF NextGroup, TypeOK
<1> QED BY <1>3, <1>4

LEMMA InitInv == Init => IInv
<1> SUFFICES ASSUME Init PROVE IInv
  OBVIOUS
<1>1. Idle \in Ops
  BY ContextAssumption DEF Idle, Ops
<1>2. TypeOK
  BY <1>1 DEF Init, TypeOK, Contents
<1> QED BY <1>2 DEF Init, IInv, Owned, InStep, CloneApart, WriterAlone, OneTransfer,
                    StoredWhole, Idle

LEMMA NextInv == IInv /\ [Next]_vars => IInv'
<1> SUFFICES ASSUME IInv, [Next]_vars PROVE IInv'
  OBVIOUS
<1> USE DEF IInv
<1>1. ASSUME NEW h \in Handles, Default(h) PROVE IInv'
  <2>1. TypeOK'
    BY <1>1 DEF Default, TypeOK, Free, Idle
  <2>2. Owned'
    BY <1>1 DEF Default, TypeOK, Owned, Free, Idle
  <2>3. InStep'
    BY <1>1 DEF Default, TypeOK, InStep, Free, Idle
  <2>4. CloneApart'
    BY <1>1 DEF Default, TypeOK, CloneApart, Owned, Free, Idle
  <2>5. WriterAlone'
    BY <1>1 DEF Default, TypeOK, WriterAlone, Shared, Owned, Free, Idle
  <2>6. OneTransfer'
    BY <1>1 DEF Default, TypeOK, OneTransfer, Free, Idle
  <2>7. StoredWhole'
    BY <1>1 DEF Default, TypeOK, StoredWhole, Owned, Free, Idle
  <2> QED BY <2>1, <2>2, <2>3, <2>4, <2>5, <2>6, <2>7 DEF IInv
<1>2. ASSUME NEW h \in Handles, Destroy(h) PROVE IInv'
  <2>1. DOMAIN mem' \subseteq DOMAIN mem /\ \A b \in DOMAIN mem' : mem'[b] = mem[b]
    BY <1>2, ReleasedKeeps DEF Destroy
  <2>2. \A b \in DOMAIN mem : b # ctx[h] => b \in DOMAIN mem'
    BY <1>2, ReleasedKeeps DEF Destroy
  <2>3. \A g \in Handles \ {h} : ctx[g] \in DOMAIN mem => ctx[g] \in DOMAIN mem'
    BY <1>2, ReleasedKeeps DEF Destroy
  <2>4. TypeOK'
    BY <1>2, <2>1, <2>2, <2>3 DEF Destroy, TypeOK, Free, Idle
  <2>5. Owned'
    BY <1>2, <2>1, <2>2, <2>3 DEF Destroy, TypeOK, Owned, Free, Idle
  <2>6. InStep'
    BY <1>2, <2>1, <2>2, <2>3 DEF Destroy, TypeOK, InStep, Free, Idle
  <2>7. CloneApart'
    BY <1>2, <2>1, <2>2, <2>3
    DEF Destroy, TypeOK, CloneApart, Owned, Free, Idle, InStep
  <2>8. WriterAlone'
    BY <1>2, <2>1, <2>2, <2>3
    DEF Destroy, TypeOK, WriterAlone, Shared, Owned, Free, Idle, InStep
  <2>9. OneTransfer'
    BY <1>2, <2>1, <2>2, <2>3 DEF Destroy, TypeOK, OneTransfer, Free, Idle
  <2>10. StoredWhole'
    BY <1>2, <2>1, <2>2, <2>3
    DEF Destroy, TypeOK, StoredWhole, Owned, Free, Idle, InStep
  <2> QED BY <2>4, <2>5, <2>6, <2>7, <2>8, <2>9, <2>10 DEF IInv
<1>3. ASSUME NEW h \in Handles, NEW g \in Handles, Copy(g, h) PROVE IInv'
  <2>1. TypeOK'
    BY <1>3 DEF Copy, TypeOK, Free, Idle
  <2>2. Owned'
    BY <1>3 DEF Copy, TypeOK, Owned, Free, Idle
  <2>3. InStep'
    BY <1>3 DEF Copy, TypeOK, InStep, Free, Idle, Owned
  <2>4. CloneApart'
    BY <1>3 DEF Copy, TypeOK, CloneApart, Owned, Free, Idle
  <2>5. WriterAlone'
    BY <1>3 DEF Copy, TypeOK, WriterAlone, Shared, Owned, Free, Idle
  <2>6. OneTransfer'
    BY <1>3 DEF Copy, TypeOK, OneTransfer, Free, Idle
  <2>7. StoredWhole'
    BY <1>3 DEF Copy, TypeOK, StoredWhole, Owned, Free, Idle
  <2> QED BY <2>1, <2>2, <2>3, <2>4, <2>5, <2>6, <2>7 DEF IInv
<1>4. ASSUME NEW h \in Handles, NEW g \in Handles, Move(g, h) PROVE IInv'
  <2>1. TypeOK'
    BY <1>4 DEF Move, TypeOK, Free, Idle
  <2>2. Owned'
    BY <1>4 DEF Move, TypeOK, Owned, Free, Idle
  <2>3. InStep'
    BY <1>4 DEF Move, TypeOK, InStep, Free, Idle, Owned
  <2>4. CloneApart'
    BY <1>4 DEF Move, TypeOK, CloneApart, Owned, Free, Idle, InStep
  <2>5. WriterAlone'
    BY <1>4 DEF Move, TypeOK, WriterAlone, Shared, Owned, Free, Idle, InStep
  <2>6. OneTransfer'
    BY <1>4 DEF Move, TypeOK, OneTransfer, Free, Idle
  <2>7. StoredWhole'
    BY <1>4 DEF Move, TypeOK, StoredWhole, Owned, Free, Idle, InStep
  <2> QED BY <2>1, <2>2, <2>3, <2>4, <2>5, <2>6, <2>7 DEF IInv
<1>5. ASSUME NEW h \in Handles, NEW k \in Groups, NEW x \in Values,
             SetReg(h, k, x) PROVE IInv'
  <2>1. /\ op' \in [Handles -> Ops]
        /\ op'[h] = [at |-> IF Shared(h) THEN "clone" ELSE "set", goal |-> "set", k |-> k,
                     x |-> x, t |-> Null, new |-> Null]
        /\ \A g \in Handles \ {h} : op'[g] = op[g]
    BY <1>5, BeginType DEF SetReg, Prepare
  <2>2. TypeOK'
    BY <1>5, <2>1 DEF SetReg, TypeOK, Free, Idle
  <2>3. Owned'
    BY <1>5, <2>1 DEF SetReg, TypeOK, Owned, Free, Idle
  <2>4. InStep'
    BY <1>5, <2>1 DEF SetReg, TypeOK, InStep, Free, Idle
  <2>5. CloneApart'
    BY <1>5, <2>1 DEF SetReg, TypeOK, CloneApart, Owned, Free, Idle, InStep
  <2>6. WriterAlone'
    BY <1>5, <2>1 DEF SetReg, TypeOK, WriterAlone, Shared, Owned, Free, Idle, InStep
  <2>7. OneTransfer'
    BY <1>5, <2>1 DEF SetReg, TypeOK, OneTransfer, Free, Idle
  <2>8. StoredWhole'
    BY <1>5, <2>1 DEF SetReg, TypeOK, StoredWhole, Owned, Free, Idle, InStep
  <2> QED BY <2>2, <2>3, <2>4, <2>5, <2>6, <2>7, <2>8 DEF IInv
<1>6. ASSUME NEW h \in Handles, NEW t \in Threads, GetContext(h, t) PROVE IInv'
  <2>1. /\ 1 \in Groups /\ [k \in Groups |-> Junk] \in Contents
        /\ Null \notin Blocks
    BY ContextAssumption DEF Groups, Contents
  <2>2. /\ live' = live /\ regs' = regs /\ h \in live /\ op[h] = Idle
        /\ \A g \in Handles : op[g].goal \in {"none", "set"}
    BY <1>6 DEF GetContext, Free, PtIdle
  <2>3. CASE ctx[h] = Null
    <3>1. Allocate(h, [k \in Groups |-> Junk]) /\ Begin(h, "load", "load", 1, Junk, t)
      BY <1>6, <2>3 DEF GetContext
    <3>2. /\ op' \in [Handles -> Ops]
          /\ op'[h] = [at |-> "load", goal |-> "load", k |-> 1, x |-> Junk, t |-> t,
                       new |-> Null]
          /\ \A g \in Handles \ {h} : op'[g] = op[g]
      BY <2>1, <3>1, BeginType
    <3>3. PICK b \in Blocks \ DOMAIN mem :
            /\ DOMAIN mem' = DOMAIN mem \cup {b}
            /\ \A d \in DOMAIN mem : mem'[d] = mem[d]
            /\ ctx' = [ctx EXCEPT ![h] = b]
            /\ ctx' \in [Handles -> Blocks \cup {Null}]
            /\ \A d \in DOMAIN mem' : mem'[d] \in Contents
      BY <2>1, <3>1, AllocateAdds
    <3>4. /\ ctx'[h] = b /\ b # Null
          /\ \A g \in Handles \ {h} : ctx'[g] = ctx[g] /\ ctx[g] # b
      BY <2>1, <3>3 DEF TypeOK, Owned
    <3>5. TypeOK'
      BY <2>1, <2>2, <2>3, <3>2, <3>3, <3>4 DEF TypeOK, InStep, Idle
    <3>6. Owned'
      BY <2>1, <2>2, <2>3, <3>2, <3>3, <3>4 DEF TypeOK, Owned, InStep, Idle
    <3>7. InStep'
      BY <2>1, <2>2, <2>3, <3>2, <3>3, <3>4 DEF TypeOK, InStep, Idle
    <3>8. CloneApart'
      BY <2>1, <2>2, <2>3, <3>2, <3>3, <3>4
      DEF TypeOK, CloneApart, Owned, InStep, Idle
    <3>9. WriterAlone'
      BY <2>1, <2>2, <2>3, <3>2, <3>3, <3>4
      DEF TypeOK, WriterAlone, Shared, Owned, InStep, Idle
    <3>10. OneTransfer'
      BY <2>1, <2>2, <2>3, <3>2, <3>3, <3>4 DEF TypeOK, OneTransfer, InStep, Idle
    <3>11. StoredWhole'
      BY <2>1, <2>2, <2>3, <3>2, <3>3, <3>4
      DEF TypeOK, StoredWhole, Owned, InStep, Idle
    <3> QED BY <3>5, <3>6, <3>7, <3>8, <3>9, <3>10, <3>11 DEF IInv
  <2>4. CASE ctx[h] # Null
    <3>1. /\ Begin(h, IF Shared(h) THEN "clone" ELSE "load", "load", 1, Junk, t)
          /\ UNCHANGED <<ctx, mem>>
      BY <1>6, <2>4 DEF GetContext, Prepare
    <3>2. /\ op' \in [Handles -> Ops]
          /\ op'[h] = [at |-> IF Shared(h) THEN "clone" ELSE "load", goal |-> "load",
                       k |-> 1, x |-> Junk, t |-> t, new |-> Null]
          /\ \A g \in Handles \ {h} : op'[g] = op[g]
      BY <2>1, <3>1, BeginType
    <3>3. TypeOK'
      BY <2>1, <2>2, <2>4, <3>1, <3>2 DEF TypeOK, InStep, Idle
    <3>4. Owned'
      BY <2>1, <2>2, <2>4, <3>1, <3>2 DEF TypeOK, Owned, InStep, Idle
    <3>5. InStep'
      BY <2>1, <2>2, <2>4, <3>1, <3>2 DEF TypeOK, InStep, Idle
    <3>6. CloneApart'
      BY <2>1, <2>2, <2>4, <3>1, <3>2 DEF TypeOK, CloneApart, Owned, InStep, Idle
    <3>7. WriterAlone'
      BY <2>1, <2>2, <2>4, <3>1, <3>2
      DEF TypeOK, WriterAlone, Shared, Owned, InStep, Idle
    <3>8. OneTransfer'
      BY <2>1, <2>2, <2>4, <3>1, <3>2 DEF TypeOK, OneTransfer, InStep, Idle
    <3>9. StoredWhole'
      BY <2>1, <2>2, <2>4, <3>1, <3>2 DEF TypeOK, StoredWhole, Owned, InStep, Idle
    <3> QED BY <3>3, <3>4, <3>5, <3>6, <3>7, <3>8, <3>9 DEF IInv
  <2> QED BY <2>3, <2>4
<1>7. ASSUME NEW h \in Handles, NEW t \in Threads, SetContext(h, t) PROVE IInv'
  <2>1. 1 \in Groups
    BY ContextAssumption DEF Groups
  <2>2. /\ op' \in [Handles -> Ops]
        /\ op'[h] = [at |-> "store", goal |-> "store", k |-> 1, x |-> Junk, t |-> t,
                     new |-> Null]
        /\ \A g \in Handles \ {h} : op'[g] = op[g]
    BY <1>7, <2>1, BeginType DEF SetContext
  <2>3. TypeOK'
    BY <1>7, <2>1, <2>2 DEF SetContext, TypeOK, Free, Idle, PtIdle
  <2>4. Owned'
    BY <1>7, <2>1, <2>2 DEF SetContext, TypeOK, Owned, Free, Idle, PtIdle
  <2>5. InStep'
    BY <1>7, <2>1, <2>2 DEF SetContext, TypeOK, InStep, Free, Idle, PtIdle
  <2>6. CloneApart'
    BY <1>7, <2>1, <2>2
    DEF SetContext, TypeOK, CloneApart, Owned, Free, Idle, PtIdle, InStep
  <2>7. WriterAlone'
    BY <1>7, <2>1, <2>2
    DEF SetContext, TypeOK, WriterAlone, Shared, Owned, Free, Idle, PtIdle, InStep
  <2>8. OneTransfer'
    BY <1>7, <2>1, <2>2 DEF SetContext, TypeOK, OneTransfer, Free, Idle, PtIdle
  <2>9. StoredWhole'
    BY <1>7, <2>1, <2>2
    DEF SetContext, TypeOK, StoredWhole, Owned, Free, Idle, PtIdle, InStep
  <2> QED BY <2>3, <2>4, <2>5, <2>6, <2>7, <2>8, <2>9 DEF IInv
<1>8. ASSUME NEW h \in Handles, Clone(h) PROVE IInv'
  <2>1. PICK b \in Blocks \ DOMAIN mem :
          /\ mem' = [c \in DOMAIN mem \cup {b} |-> IF c = b THEN mem[ctx[h]] ELSE mem[c]]
          /\ op' = [op EXCEPT ![h].at = "swap", ![h].new = b]
    BY <1>8 DEF Clone
  <2>2. ctx[h] \in DOMAIN mem /\ b # Null /\ op[h].at = "clone"
    BY <1>8, ContextAssumption DEF Clone, InStep, Owned
  <2>3. /\ DOMAIN mem' = DOMAIN mem \cup {b} /\ mem'[b] = mem[ctx[h]]
        /\ \A c \in DOMAIN mem : mem'[c] = mem[c]
    BY <2>1
  <2>4. /\ op' \in [Handles -> Ops]
        /\ op'[h].at = "swap" /\ op'[h].new = b /\ op'[h].goal = op[h].goal
        /\ op'[h].k = op[h].k /\ op'[h].x = op[h].x /\ op'[h].t = op[h].t
        /\ \A g \in Handles \ {h} : op'[g] = op[g]
    BY <2>1 DEF TypeOK, Ops
  <2>5. TypeOK'
    BY <1>8, <2>1, <2>2, <2>3, <2>4 DEF Clone, TypeOK, InStep
  <2>6. Owned'
    BY <1>8, <2>1, <2>2, <2>3, <2>4 DEF Clone, TypeOK, Owned, InStep, Idle
  <2>7. InStep'
    BY <1>8, <2>1, <2>2, <2>3, <2>4 DEF Clone, TypeOK, InStep, Idle
  <2>8. CloneApart'
    BY <1>8, <2>1, <2>2, <2>3, <2>4 DEF Clone, TypeOK, CloneApart, Owned, InStep
  <2>9. WriterAlone'
    BY <1>8, <2>1, <2>2, <2>3, <2>4
    DEF Clone, TypeOK, WriterAlone, Shared, Owned, InStep
  <2>10. OneTransfer'
    BY <1>8, <2>1, <2>2, <2>3, <2>4 DEF Clone, TypeOK, OneTransfer, InStep
  <2>11. StoredWhole'
    BY <1>8, <2>1, <2>2, <2>3, <2>4
    DEF Clone, TypeOK, StoredWhole, Owned, InStep, Idle
  <2> QED BY <2>5, <2>6, <2>7, <2>8, <2>9, <2>10, <2>11 DEF IInv
<1>9. ASSUME NEW h \in Handles, Swap(h) PROVE IInv'
  <2>1. DOMAIN mem' \subseteq DOMAIN mem /\ \A b \in DOMAIN mem' : mem'[b] = mem[b]
    BY <1>9, ReleasedKeeps DEF Swap
  <2>2. \A b \in DOMAIN mem : b # ctx[h] => b \in DOMAIN mem'
    BY <1>9, ReleasedKeeps DEF Swap
  <2>3. \A g \in Handles \ {h} : ctx[g] \in DOMAIN mem => ctx[g] \in DOMAIN mem'
    BY <1>9, ReleasedKeeps DEF Swap
  <2>4. /\ op[h].new \in DOMAIN mem' /\ op[h].new # Null /\ mem[op[h].new] = mem[ctx[h]]
        /\ \A g \in Handles : ctx[g] # op[h].new /\ (g # h => op[g].new # op[h].new)
    BY <1>9, <2>2, ContextAssumption DEF Swap, CloneApart, TypeOK
  <2>5. /\ op' \in [Handles -> Ops]
        /\ op'[h].at = op[h].goal /\ op[h].goal \in {"set", "load"} /\ op'[h].new = Null
        /\ op'[h].goal = op[h].goal
        /\ op'[h].k = op[h].k /\ op'[h].x = op[h].x /\ op'[h].t = op[h].t
        /\ \A g \in Handles \ {h} : op'[g] = op[g]
    BY <1>9, ZenonT(60) DEF Swap, TypeOK, Ops, InStep
  <2>6. /\ ctx' \in [Handles -> Blocks \cup {Null}] /\ ctx'[h] = op[h].new
        /\ \A g \in Handles \ {h} : ctx'[g] = ctx[g]
    BY <1>9, <2>1, <2>4 DEF Swap, TypeOK
  <2>7. TypeOK'
    BY <1>9, <2>1, <2>2, <2>3, <2>4, <2>5, <2>6 DEF Swap, TypeOK, InStep
  <2>8. Owned'
    BY <1>9, <2>1, <2>2, <2>3, <2>4, <2>5, <2>6
    DEF Swap, TypeOK, Owned, InStep, Idle
  <2>9. InStep'
    BY <1>9, <2>1, <2>2, <2>3, <2>4, <2>5, <2>6 DEF Swap, TypeOK, InStep, Idle
  <2>10. CloneApart'
    <3> SUFFICES ASSUME NEW g \in Handles
                 PROVE  /\ op'[g].at # "swap" => op'[g].new = Null
                        /\ op'[g].at = "swap" =>
                             /\ op'[g].new \in DOMAIN mem' /\ mem'[op'[g].new] = mem'[ctx'[g]]
                             /\ \A f \in Handles :
                                  ctx'[f] # op'[g].new /\ (f # g => op'[f].new # op'[g].new)
      BY DEF CloneApart
    <3>1. CASE g = h
      BY <2>5, <3>1
    <3>2. CASE g # h /\ op[g].at # "swap"
      BY <2>5, <3>2 DEF CloneApart
    <3>3. CASE g # h /\ op[g].at = "swap"
      <4>1. /\ op[g].new \in DOMAIN mem /\ mem[op[g].new] = mem[ctx[g]]
            /\ \A f \in Handles : ctx[f] # op[g].new /\ (f # g => op[f].new # op[g].new)
            /\ ctx[g] \in DOMAIN mem /\ op[g].new # Null
        BY <3>3, ContextAssumption DEF CloneApart, InStep, Owned, TypeOK
      <4>2. op[g].new \in DOMAIN mem' /\ ctx'[g] = ctx[g] /\ ctx[g] \in DOMAIN mem'
        BY <2>2, <2>3, <2>6, <3>3, <4>1
      <4>3. mem'[op[g].new] = mem'[ctx'[g]]
        BY <2>1, <4>1, <4>2
      <4>4. \A f \in Handles : ctx'[f] # op[g].new /\ (f # g => op'[f].new # op[g].new)
        BY <2>4, <2>5, <2>6, <3>3, <4>1
      <4> QED BY <2>5, <3>3, <4>2, <4>3, <4>4
    <3> QED BY <3>1, <3>2, <3>3
  <2>11. WriterAlone'
    BY <1>9, <2>1, <2>2, <2>3, <2>4, <2>5, <2>6
    DEF Swap, TypeOK, WriterAlone, Shared, Owned, InStep
  <2>12. OneTransfer'
    BY <1>9, <2>1, <2>2, <2>3, <2>4, <2>5, <2>6
    DEF Swap, TypeOK, OneTransfer, InStep
  <2>13. StoredWhole'
    BY <1>9, <2>1, <2>2, <2>3, <2>4, <2>5, <2>6
    DEF Swap, TypeOK, StoredWhole, Owned, InStep
  <2> QED BY <2>7, <2>8, <2>9, <2>10, <2>11, <2>12, <2>13 DEF IInv
<1>10. ASSUME NEW h \in Handles, WriteReg(h) PROVE IInv'
  <2>1. Idle \in Ops
    BY ContextAssumption DEF Idle, Ops
  <2>2. op[h].k \in Groups /\ op[h].x \in Values
    BY <1>10 DEF WriteReg, InStep
  <2>3. TypeOK'
    BY <1>10, <2>1, <2>2 DEF WriteReg, TypeOK, InStep, Idle, Contents
  <2>4. Owned'
    BY <1>10, <2>1, <2>2 DEF WriteReg, TypeOK, Owned, InStep, Idle
  <2>5. InStep'
    BY <1>10, <2>1, <2>2 DEF WriteReg, TypeOK, InStep, Idle
  <2>6. CloneApart'
    BY <1>10, <2>1, <2>2
    DEF WriteReg, TypeOK, CloneApart, Owned, InStep, Idle, WriterAlone, Shared
  <2>7. WriterAlone'
    BY <1>10, <2>1, <2>2
    DEF WriteReg, TypeOK, WriterAlone, Shared, Owned, InStep, Idle
  <2>8. OneTransfer'
    BY <1>10, <2>1, <2>2 DEF WriteReg, TypeOK, OneTransfer, InStep, Idle
  <2>9. StoredWhole'
    BY <1>10, <2>1, <2>2
    DEF WriteReg, TypeOK, StoredWhole, Owned, InStep, Idle, WriterAlone, Shared
  <2> QED BY <2>3, <2>4, <2>5, <2>6, <2>7, <2>8, <2>9 DEF IInv
<1>11. ASSUME NEW h \in Handles, LoadGroup(h) PROVE IInv'
  <2>1. op[h].k \in Groups /\ op[h].t \in Threads /\ op[h].goal = "load"
    BY <1>11 DEF LoadGroup, InStep
  <2>2. /\ op' \in [Handles -> Ops]
        /\ \/ op'[h] = Idle
           \/ /\ op'[h].at = op[h].at /\ op'[h].goal = op[h].goal
              /\ op'[h].x = op[h].x /\ op'[h].t = op[h].t /\ op'[h].new = op[h].new
              /\ op'[h].k = op[h].k + 1 /\ op[h].k + 1 \in Groups
        /\ \A g \in Handles \ {h} : op'[g] = op[g]
    BY <1>11, <2>1, NextGroupType DEF LoadGroup
  <2>3. TypeOK'
    BY <1>11, <2>1, <2>2 DEF LoadGroup, TypeOK, InStep, Idle, Contents
  <2>4. Owned'
    BY <1>11, <2>1, <2>2 DEF LoadGroup, TypeOK, Owned, InStep, Idle
  <2>5. InStep'
    BY <1>11, <2>1, <2>2 DEF LoadGroup, TypeOK, InStep, Idle
  <2>6. CloneApart'
    BY <1>11, <2>1, <2>2
    DEF LoadGroup, TypeOK, CloneApart, Owned, InStep, Idle, WriterAlone, Shared
  <2>7. WriterAlone'
    BY <1>11, <2>1, <2>2
    DEF LoadGroup, TypeOK, WriterAlone, Shared, Owned, InStep, Idle
  <2>8. OneTransfer'
    BY <1>11, <2>1, <2>2 DEF LoadGroup, TypeOK, OneTransfer, InStep, Idle
  <2>9. StoredWhole'
    BY <1>11, <2>1, <2>2
    DEF LoadGroup, TypeOK, StoredWhole, Owned, InStep, Idle, OneTransfer, WriterAlone, Shared
  <2> QED BY <2>3, <2>4, <2>5, <2>6, <2>7, <2>8, <2>9 DEF IInv
<1>12. ASSUME NEW h \in Handles, StoreGroup(h) PROVE IInv'
  <2>1. op[h].k \in Groups /\ op[h].t \in Threads /\ op[h].goal = "store"
    BY <1>12 DEF StoreGroup, InStep
  <2>2. mem[ctx[h]] \in Contents
    BY <1>12 DEF StoreGroup, InStep, Owned, TypeOK
  <2>3. /\ op' \in [Handles -> Ops]
        /\ \/ op'[h] = Idle
           \/ /\ op'[h].at = op[h].at /\ op'[h].goal = op[h].goal
              /\ op'[h].x = op[h].x /\ op'[h].t = op[h].t /\ op'[h].new = op[h].new
              /\ op'[h].k = op[h].k + 1 /\ op[h].k + 1 \in Groups
        /\ \A g \in Handles \ {h} : op'[g] = op[g]
    BY <1>12, <2>1, NextGroupType DEF StoreGroup
  <2>4. TypeOK'
    BY <1>12, <2>1, <2>2, <2>3 DEF StoreGroup, TypeOK, InStep, Idle, Contents
  <2>5. Owned'
    BY <1>12, <2>1, <2>2, <2>3 DEF StoreGroup, TypeOK, Owned, InStep, Idle
  <2>6. InStep'
    BY <1>12, <2>1, <2>2, <2>3 DEF StoreGroup, TypeOK, InStep, Idle
  <2>7. CloneApart'
    BY <1>12, <2>1, <2>2, <2>3
    DEF StoreGroup, TypeOK, CloneApart, Owned, InStep, Idle
  <2>8. WriterAlone'
    BY <1>12, <2>1, <2>2, <2>3
    DEF StoreGroup, TypeOK, WriterAlone, Shared, Owned, InStep, Idle
  <2>9. OneTransfer'
    BY <1>12, <2>1, <2>2, <2>3 DEF StoreGroup, TypeOK, OneTransfer, InStep, Idle
  <2>10. StoredWhole'
    <3> SUFFICES ASSUME NEW g \in Handles, op'[g].at = "store", NEW k \in 1 .. op'[g].k - 1
                 PROVE  regs'[op'[g].t][k] = mem'[ctx'[g]][k]
      BY DEF StoredWhole
    <3>1. g = h
      BY <1>12, <2>1, <2>3 DEF StoreGroup, InStep, OneTransfer, Idle
    <3>2. /\ op'[h].t = op[h].t /\ op'[h].k = op[h].k + 1 /\ op[h].at = "store"
          /\ op[h].k \in Nat
      BY <1>12, <2>1, <2>3, <3>1, ContextAssumption DEF StoreGroup, Idle, Groups
    <3>3. regs'[op[h].t] = [regs[op[h].t] EXCEPT ![op[h].k] = mem[ctx[h]][op[h].k]]
      BY <1>12, <2>1 DEF StoreGroup, TypeOK
    <3>4. regs[op[h].t] \in Contents /\ k \in 1 .. op[h].k
      BY <2>1, <3>1, <3>2 DEF TypeOK
    <3>5. k \in Groups
      BY <2>1, <3>4, ContextAssumption DEF Groups
    <3>6. CASE k = op[h].k
      BY <1>12, <3>1, <3>2, <3>3, <3>4, <3>5, <3>6 DEF StoreGroup, Contents
    <3>7. CASE k # op[h].k
      <4>1. k \in 1 .. op[h].k - 1
        BY <3>2, <3>4, <3>7
      <4> QED BY <1>12, <3>1, <3>2, <3>3, <3>4, <3>5, <3>7, <4>1
              DEF StoreGroup, Contents, StoredWhole
    <3> QED BY <3>6, <3>7
  <2> QED BY <2>4, <2>5, <2>6, <2>7, <2>8, <2>9, <2>10 DEF IInv
<1>13. ASSUME NEW h \in Handles, TransferFails(h) PROVE IInv'
  <2>1. Idle \in Ops
    BY ContextAssumption DEF Idle, Ops
  <2>2. TypeOK'
    BY <1>13, <2>1 DEF TransferFails, TypeOK, Idle
  <2>3. Owned'
    BY <1>13, <2>1 DEF TransferFails, TypeOK, Owned, Idle
  <2>4. InStep'
    BY <1>13, <2>1 DEF TransferFails, TypeOK, InStep, Idle
  <2>5. CloneApart'
    BY <1>13, <2>1 DEF TransferFails, TypeOK, CloneApart, Owned, Idle
  <2>6. WriterAlone'
    BY <1>13, <2>1 DEF TransferFails, TypeOK, WriterAlone, Shared, Owned, Idle
  <2>7. OneTransfer'
    BY <1>13, <2>1 DEF TransferFails, TypeOK, OneTransfer, Idle
  <2>8. StoredWhole'
    BY <1>13, <2>1 DEF TransferFails, TypeOK, StoredWhole, Owned, Idle
  <2> QED BY <2>2, <2>3, <2>4, <2>5, <2>6, <2>7, <2>8 DEF IInv
<1>14. ASSUME NEW t \in Threads, RunThread(t) PROVE IInv'
  <2>1. TypeOK'
    BY <1>14 DEF RunThread, TypeOK, PtIdle, InStep, Contents
  <2>2. Owned'
    BY <1>14 DEF RunThread, TypeOK, Owned, PtIdle, InStep
  <2>3. InStep'
    BY <1>14 DEF RunThread, TypeOK, InStep, PtIdle
  <2>4. CloneApart'
    BY <1>14 DEF RunThread, TypeOK, CloneApart, Owned, PtIdle, InStep
  <2>5. WriterAlone'
    BY <1>14 DEF RunThread, TypeOK, WriterAlone, Shared, Owned, PtIdle, InStep
  <2>6. OneTransfer'
    BY <1>14 DEF RunThread, TypeOK, OneTransfer, PtIdle, InStep
  <2>7. StoredWhole'
    BY <1>14 DEF RunThread, TypeOK, StoredWhole, Owned, PtIdle, InStep
  <2> QED BY <2>1, <2>2, <2>3, <2>4, <2>5, <2>6, <2>7 DEF IInv
<1>15. CASE UNCHANGED vars
  BY <1>15 DEF vars, TypeOK, Owned, InStep, CloneApart, WriterAlone, OneTransfer,
               StoredWhole, Shared
<1> QED BY <1>1, <1>2, <1>3, <1>4, <1>5, <1>6, <1>7, <1>8, <1>9, <1>10, <1>11, <1>12, <1>13,
           <1>14, <1>15 DEF Next

\* Every state of the specification satisfies the inductive invariant.
THEOREM Inductive == Spec => []IInv
BY InitInv, NextInv, PTL DEF Spec

\* Every variable always holds a value of its type (thread_context.cc).
THEOREM Typing == Spec => []TypeOK
BY Inductive, PTL DEF IInv

\* A set_context hands the thread one consistent set of registers, whatever
\* happens to copies of the object meanwhile (thread_context.cc:30-31, 42-43).
THEOREM TransfersWhole == Spec => []StoredWhole
BY Inductive, PTL DEF IInv

\* Nobody writes to a RawContext that another object refers to.
THEOREM WritersAlone == Spec => []WriterAlone
BY Inductive, PTL DEF IInv

-----------------------------------------------------------------------------
(* Sharing is invisible                                                    *)

\* The abstract value of an object, and that it is Null without a context only
LEMMA ValOf ==
  ASSUME TypeOK, Owned, NEW h \in Handles
  PROVE  /\ ctx[h] = Null => val[h] = Null
         /\ ctx[h] # Null => val[h] = mem[ctx[h]] /\ val[h] \in Contents /\ val[h] # Null
BY ContextAssumption DEF val, TypeOK, Owned, Contents, Groups

\* Objects whose contexts stay, or are cloned, keep their values.
LEMMA ValKept ==
  ASSUME NEW h \in Handles,
         (ctx[h] = Null) <=> (ctx'[h] = Null),
         ctx[h] # Null => mem'[ctx'[h]] = mem[ctx[h]]
  PROVE  val'[h] = val[h]
BY DEF val

\* A step that changes the value of one object
LEMMA ValChanged ==
  ASSUME NEW h \in Handles, \A g \in Handles \ {h} : val'[g] = val[g]
  PROVE  val' = [val EXCEPT ![h] = val'[h]]
BY DEF val

LEMMA ValUnchanged ==
  ASSUME \A h \in Handles : val'[h] = val[h]
  PROVE  val' = val
BY DEF val

LEMMA RefineInit == Init => File!Init
BY DEF Init, File!Init, val, Groups, File!Groups

LEMMA RefineStep ==
  ASSUME IInv, [Next]_vars
  PROVE  [File!Next]_<<live, val, regs>>
<1> USE DEF IInv
<1>1. ASSUME NEW h \in Handles, Default(h) PROVE File!Default(h)
  <2>1. val' = val /\ val[h] = Null
    BY <1>1, ValOf DEF Default, Owned, val
  <2>2. val' = [val EXCEPT ![h] = Null]
    BY <2>1 DEF val
  <2> QED BY <1>1, <2>2 DEF Default, File!Default, File!Construct
<1>2. ASSUME NEW h \in Handles, Destroy(h) PROVE File!Destroy(h)
  <2>1. /\ \A b \in DOMAIN mem' : mem'[b] = mem[b]
        /\ \A g \in Handles \ {h} : ctx[g] \in DOMAIN mem => ctx[g] \in DOMAIN mem'
    BY <1>2, ReleasedKeeps DEF Destroy
  <2>2. \A g \in Handles \ {h} : val'[g] = val[g]
    BY <1>2, <2>1, ValKept DEF Destroy, Owned, TypeOK
  <2>3. val'[h] = Null
    BY <1>2 DEF Destroy, val, TypeOK
  <2>4. val' = [val EXCEPT ![h] = Null]
    BY <2>2, <2>3, ValChanged
  <2> QED BY <1>2, <2>4 DEF Destroy, Free, File!Destroy
<1>3. ASSUME NEW h \in Handles, NEW g \in Handles, Copy(g, h) PROVE File!Copy(g, h)
  <2>1. \A f \in Handles \ {h} : val'[f] = val[f]
    BY <1>3, ValKept DEF Copy, TypeOK
  <2>2. val'[h] = val[g]
    BY <1>3 DEF Copy, val, TypeOK
  <2>3. val' = [val EXCEPT ![h] = val[g]]
    BY <2>1, <2>2, ValChanged
  <2> QED BY <1>3, <2>3 DEF Copy, Free, File!Copy, File!Construct
<1>4. ASSUME NEW h \in Handles, NEW g \in Handles, Move(g, h) PROVE File!Move(g, h)
  <2>1. g # h
    BY <1>4 DEF Move, Free
  <2>2. val' = [val EXCEPT ![h] = val[g], ![g] = Null]
    BY <1>4, <2>1 DEF Move, val, TypeOK
  <2> QED BY <1>4, <2>2 DEF Move, Free, File!Move
<1>5. ASSUME NEW h \in Handles, NEW k \in Groups, NEW x \in Values, SetReg(h, k, x)
      PROVE  UNCHANGED <<live, val, regs>>
  BY <1>5 DEF SetReg, val
<1>6. ASSUME NEW h \in Handles, NEW t \in Threads, GetContext(h, t)
      PROVE  File!Allocate(h) \/ UNCHANGED <<live, val, regs>>
  <2>1. CASE ctx[h] = Null
    <3>1. [k \in Groups |-> Junk] \in Contents
      BY DEF Contents
    <3>2. PICK b \in Blocks \ DOMAIN mem :
            /\ mem'[b] = [k \in Groups |-> Junk]
            /\ \A d \in DOMAIN mem : mem'[d] = mem[d]
            /\ ctx' = [ctx EXCEPT ![h] = b]
      <4>1. Allocate(h, [k \in Groups |-> Junk])
        BY <1>6, <2>1 DEF GetContext
      <4> QED BY <3>1, <4>1, AllocateAdds
    <3>3. b # Null /\ ctx'[h] = b /\ \A g \in Handles \ {h} : ctx'[g] = ctx[g]
      BY <3>2, ContextAssumption DEF TypeOK
    <3>4. \A g \in Handles \ {h} : val'[g] = val[g]
      BY <3>2, <3>3, ValKept DEF Owned
    <3>5. val'[h] = [k \in Groups |-> Junk] /\ val[h] = Null
      BY <2>1, <3>2, <3>3 DEF val
    <3>6. val' = [val EXCEPT ![h] = [k \in Groups |-> Junk]]
      BY <3>4, <3>5, ValChanged
    <3> QED BY <1>6, <3>5, <3>6 DEF GetContext, Free, File!Allocate, Groups, File!Groups
  <2>2. CASE ctx[h] # Null
    BY <1>6, <2>2 DEF GetContext, val
  <2> QED BY <2>1, <2>2
<1>7. ASSUME NEW h \in Handles, NEW t \in Threads, SetContext(h, t)
      PROVE  UNCHANGED <<live, val, regs>>
  BY <1>7 DEF SetContext, val
<1>8. ASSUME NEW h \in Handles, Clone(h) PROVE UNCHANGED <<live, val, regs>>
  <2>1. \A d \in DOMAIN mem : mem'[d] = mem[d]
    BY <1>8 DEF Clone
  <2>2. \A g \in Handles : val'[g] = val[g]
    BY <1>8, <2>1, ValKept DEF Clone, Owned
  <2> QED BY <1>8, <2>2, ValUnchanged DEF Clone
<1>9. ASSUME NEW h \in Handles, Swap(h) PROVE UNCHANGED <<live, val, regs>>
  <2>1. /\ \A b \in DOMAIN mem' : mem'[b] = mem[b]
        /\ \A g \in Handles \ {h} : ctx[g] \in DOMAIN mem => ctx[g] \in DOMAIN mem'
        /\ \A b \in DOMAIN mem : b # ctx[h] => b \in DOMAIN mem'
    BY <1>9, ReleasedKeeps DEF Swap
  <2>2. \A g \in Handles \ {h} : val'[g] = val[g]
    BY <1>9, <2>1, ValKept DEF Swap, Owned, TypeOK
  <2>3. /\ ctx'[h] = op[h].new /\ op[h].new \in DOMAIN mem /\ op[h].new # ctx[h]
        /\ mem[op[h].new] = mem[ctx[h]] /\ ctx[h] # Null /\ op[h].new # Null
    BY <1>9, ContextAssumption DEF Swap, CloneApart, InStep, TypeOK
  <2>4. val'[h] = val[h]
    BY <2>1, <2>3, ValKept
  <2>5. val' = val
    BY <2>2, <2>4, ValUnchanged
  <2> QED BY <1>9, <2>5 DEF Swap
<1>10. ASSUME NEW h \in Handles, WriteReg(h) PROVE File!Set(h, op[h].k, op[h].x)
  <2>1. /\ ctx[h] # Null /\ h \in live /\ ctx[h] \in DOMAIN mem
        /\ op[h].k \in Settable /\ op[h].x \in Values
        /\ \A g \in Handles \ {h} : ctx[g] # ctx[h]
    BY <1>10 DEF WriteReg, InStep, Owned, WriterAlone, Shared, Idle
  <2>2. mem' = [mem EXCEPT ![ctx[h]][op[h].k] = op[h].x] /\ ctx' = ctx
    BY <1>10 DEF WriteReg
  <2>3. \A g \in Handles \ {h} : val'[g] = val[g]
    BY <2>1, <2>2, ValKept DEF Owned
  <2>4. val'[h] = [val[h] EXCEPT ![op[h].k] = op[h].x]
    BY <2>1, <2>2 DEF val
  <2>5. val' = [val EXCEPT ![h][op[h].k] = op[h].x]
    BY <2>3, <2>4, ValChanged
  <2> QED BY <1>10, <2>1, <2>5, ValOf DEF WriteReg, File!Set, File!Write
<1>11. ASSUME NEW h \in Handles, LoadGroup(h) PROVE File!Load(h, op[h].t, op[h].k)
  <2>1. /\ ctx[h] # Null /\ h \in live /\ ctx[h] \in DOMAIN mem
        /\ \A g \in Handles \ {h} : ctx[g] # ctx[h]
    BY <1>11 DEF LoadGroup, InStep, Owned, WriterAlone, Shared, Idle
  <2> DEFINE x == regs[op[h].t][op[h].k]
  <2>2. mem' = [mem EXCEPT ![ctx[h]][op[h].k] = x] /\ ctx' = ctx
    BY <1>11 DEF LoadGroup
  <2>3. \A g \in Handles \ {h} : val'[g] = val[g]
    BY <2>1, <2>2, ValKept DEF Owned
  <2>4. val'[h] = [val[h] EXCEPT ![op[h].k] = x]
    BY <2>1, <2>2 DEF val
  <2>5. val' = [val EXCEPT ![h][op[h].k] = x]
    BY <2>3, <2>4, ValChanged
  <2> QED BY <1>11, <2>1, <2>5, ValOf DEF LoadGroup, File!Load, File!Write
<1>12. ASSUME NEW h \in Handles, StoreGroup(h) PROVE File!Store(h, op[h].t, op[h].k)
  <2>1. ctx[h] # Null /\ h \in live
    BY <1>12 DEF StoreGroup, InStep, Owned, Idle
  <2>2. val' = val
    BY <1>12 DEF StoreGroup, val
  <2> QED BY <1>12, <2>1, <2>2, ValOf DEF StoreGroup, File!Store
<1>13. ASSUME NEW h \in Handles, TransferFails(h) PROVE UNCHANGED <<live, val, regs>>
  BY <1>13 DEF TransferFails, val
<1>14. ASSUME NEW t \in Threads, RunThread(t) PROVE File!RunThread(t)
  BY <1>14 DEF RunThread, File!RunThread, Groups, File!Groups, val
<1>15. CASE UNCHANGED vars
  BY <1>15 DEF vars, val
<1>16. \A h \in Handles : op[h].at # "idle" =>
         op[h].k \in File!Groups /\ (op[h].goal \in {"load", "store"} => op[h].t \in Threads)
  BY DEF InStep, Groups, File!Groups
<1>17. ASSUME NEW h \in Handles, WriteReg(h) \/ LoadGroup(h) \/ StoreGroup(h)
       PROVE  File!Next
  <2>1. CASE WriteReg(h)
    BY <1>10, <1>16, <2>1 DEF File!Next, WriteReg, InStep
  <2>2. CASE LoadGroup(h)
    BY <1>11, <1>16, <2>2 DEF File!Next, LoadGroup, InStep
  <2>3. CASE StoreGroup(h)
    BY <1>12, <1>16, <2>3 DEF File!Next, StoreGroup, InStep
  <2> QED BY <1>17, <2>1, <2>2, <2>3
<1> QED
  BY <1>1, <1>2, <1>3, <1>4, <1>5, <1>6, <1>7, <1>8, <1>9, <1>13, <1>14, <1>15, <1>17
  DEF Next, File!Next

\* Contexts shared by copies behave as if every object had registers of its own
\* (thread_context.cc:25-46): what one object does no other object sees.
THEOREM SharingInvisible == Spec => ImplementsRegisterFile
<1>1. Spec => []IInv
  BY Inductive
<1>2. IInv /\ [Next]_vars => [File!Next]_<<live, val, regs>>
  BY RefineStep
<1> QED BY <1>1, <1>2, RefineInit, PTL DEF Spec, ImplementsRegisterFile, File!Spec
=============================================================================
