----------------------- MODULE BreakpointManagerProofs -----------------------
(* Theorems about BreakpointManager, for any memory and any bounds.        *)
EXTENDS BreakpointManager, TLAPS

\* What an exception leaves of the calls in progress.
LEMMA UnwindType ==
  ASSUME TypeOK, NEW k \in 0..Len(frames), Unwind(k)
  PROVE  /\ frames' \in Seq(Frames)
         /\ skipped' \in BOOLEAN
         /\ Len(frames') = k
         /\ \A n \in 1..k : frames'[n] = frames[n]
BY DEF Unwind, TypeOK

\* The cleaned memory is a memory.
LEMMA CleanedType ==
  ASSUME TypeOK, NEW S \in SUBSET Ids
  PROVE  Cleaned(S) \in [Addrs -> Bytes]
<1>1. ASSUME NEW a \in Addrs, LastOf(S, a) # {}
      PROVE bps[CHOOSE i \in LastOf(S, a) : TRUE].ov \in Bytes
  <2>1. (CHOOSE i \in LastOf(S, a) : TRUE) \in Ids
    BY <1>1 DEF LastOf
  <2> QED BY <2>1 DEF TypeOK, Breakpoints
<1> QED BY <1>1 DEF Cleaned, TypeOK

LEMMA TypeStep == TypeOK /\ [Next]_vars => TypeOK'
<1> SUFFICES ASSUME TypeOK, [Next]_vars PROVE TypeOK'
  OBVIOUS
<1> USE MemoryAssumption
<1>1. ASSUME NEW a \in Addrs, SetBp(a) PROVE TypeOK'
  <2>1. CASE a \in mapped
    <3>1. mem[a] \in Bytes /\ next_id \notin Ids
      BY DEF TypeOK
    <3>2. bps' \in [Ids \cup {next_id} -> Breakpoints]
      <4>1. \A i \in Ids : bps[i] \in Breakpoints
        BY DEF TypeOK
      <4>2. [addr |-> a, ov |-> mem[a], active |-> TRUE] \in Breakpoints
        BY <3>1 DEF Breakpoints
      <4> QED BY <1>1, <2>1, <4>1, <4>2 DEF SetBp
    <3>3. Ids' = Ids \cup {next_id}
      BY <1>1, <2>1 DEF SetBp, Ids
    <3> QED BY <1>1, <2>1, <3>2, <3>3 DEF SetBp, TypeOK
  <2>2. CASE a \notin mapped
    BY <1>1, <2>2, UnwindType DEF SetBp, TypeOK, Ids
  <2> QED BY <2>1, <2>2
<1>2. ASSUME NEW id \in Ids, RemoveBp(id) PROVE TypeOK'
  <2>1. Ids' \subseteq Ids /\ bps' \in [Ids' -> Breakpoints]
    BY <1>2 DEF RemoveBp, Without, TypeOK, Ids
  <2>2. mem' \in [Addrs -> Bytes]
    BY <1>2, CleanedType DEF RemoveBp, TypeOK
  <2>3. frames' \in Seq(Frames) /\ skipped' \in BOOLEAN
    BY <1>2, UnwindType DEF RemoveBp, TypeOK
  <2> QED BY <1>2, <2>1, <2>2, <2>3 DEF RemoveBp, TypeOK
<1>3. CASE RemoveAllBps
  <2>1. Ids' \subseteq Ids /\ bps' \in [Ids' -> Breakpoints]
    BY <1>3 DEF RemoveAllBps, Without, TypeOK, Ids
  <2>2. mem' \in [Addrs -> Bytes]
    BY <1>3, CleanedType DEF RemoveAllBps
  <2>3. frames' \in Seq(Frames) /\ skipped' \in BOOLEAN /\ crashed' \in BOOLEAN
    BY <1>3, UnwindType DEF RemoveAllBps, TypeOK
  <2> QED BY <1>3, <2>1, <2>2, <2>3 DEF RemoveAllBps, TypeOK
<1>4. ASSUME NEW a \in Addrs, DispatchHit(a) PROVE TypeOK'
  BY <1>4 DEF DispatchHit, TypeOK, Ids, Frames
<1>5. CASE HandlerReturn
  <2> DEFINE bp == bps[Top.id]
  <2>1. Top.id \in Ids /\ bp \in Breakpoints /\ Len(frames) \in 1..Len(frames)
    BY <1>5 DEF HandlerReturn, InHandler, TypeOK
  <2>2. CASE bp.addr \in mapped
    <3>1. mem' \in [Addrs -> Bytes]
      BY <1>5, <2>1, <2>2 DEF HandlerReturn, TypeOK, Breakpoints
    <3>2. Ids' = Ids /\ bps' \in [Ids -> Breakpoints]
      <4>1. bps' = [bps EXCEPT ![Top.id].active = FALSE]
        BY <1>5, <2>2 DEF HandlerReturn
      <4>2. \A i \in Ids : bps[i] \in Breakpoints
        BY DEF TypeOK
      <4>3. [bp EXCEPT !.active = FALSE] \in Breakpoints
        BY <2>1 DEF Breakpoints
      <4>4. bps' = [i \in Ids |-> IF i = Top.id THEN [bp EXCEPT !.active = FALSE]
                                 ELSE bps[i]]
        BY <4>1 DEF TypeOK, Ids
      <4> QED BY <4>2, <4>3, <4>4 DEF Ids
    <3>3. frames' \in Seq(Frames)
      <4>1. frames # <<>> /\ frames \in Seq(Frames)
        BY <1>5 DEF HandlerReturn, InHandler, TypeOK
      <4>2. Len(frames) \in DOMAIN frames /\ Top \in Frames
        BY <4>1 DEF Top
      <4>3. [Top EXCEPT !.phase = "stepping"] \in Frames
        BY <4>2 DEF Frames
      <4>4. frames' = [frames EXCEPT ![Len(frames)] = [Top EXCEPT !.phase = "stepping"]]
        BY <1>5, <2>2 DEF HandlerReturn, Top
      <4> QED BY <4>1, <4>2, <4>3, <4>4
    <3> QED BY <1>5, <2>2, <3>1, <3>2, <3>3 DEF HandlerReturn, TypeOK
  <2>3. CASE bp.addr \notin mapped
    <3>1. PICK k \in 0..Len(frames)-1 : Unwind(k)
      BY <1>5, <2>3 DEF HandlerReturn
    <3>2. frames' \in Seq(Frames) /\ skipped' \in BOOLEAN
      BY <3>1, UnwindType DEF TypeOK
    <3> QED BY <1>5, <2>3, <3>2 DEF HandlerReturn, TypeOK, Ids
  <2> QED BY <2>2, <2>3
<1>6. CASE UseAfterFree
  BY <1>6 DEF UseAfterFree, TypeOK, Ids
<1>7. CASE Throw
  <2>1. PICK k \in 0..Len(frames)-1 : Unwind(k)
    BY <1>7 DEF Throw
  <2>2. frames' \in Seq(Frames) /\ skipped' \in BOOLEAN
    BY <2>1, UnwindType DEF TypeOK
  <2> QED BY <1>7, <2>2 DEF Throw, TypeOK, Ids
<1>8. CASE RestoreBps
  <2>1. \A i \in Ids : Restored(i) \in Breakpoints
    BY DEF Restored, TypeOK, Breakpoints
  <2>2. Ids' = Ids /\ bps' \in [Ids -> Breakpoints]
    BY <1>8, <2>1 DEF RestoreBps, TypeOK, Ids
  <2>3. mem' \in [Addrs -> Bytes]
    BY <1>8 DEF RestoreBps, TypeOK
  <2>4. PICK k \in 0..Len(frames)-1 : frames' = SubSeq(frames, 1, k)
    <3>1. Len(frames) \in Nat \ {0}
      BY <1>8 DEF RestoreBps, InStep, TypeOK
    <3> QED BY <1>8, <3>1 DEF RestoreBps
  <2>5. frames' \in Seq(Frames)
    BY <2>4 DEF TypeOK
  <2>6. skipped' \in BOOLEAN
    BY <1>8 DEF RestoreBps
  <2> QED BY <1>8, <2>2, <2>3, <2>5, <2>6 DEF RestoreBps, TypeOK
<1>9. ASSUME NEW a \in Addrs, Unmap(a) PROVE TypeOK'
  BY <1>9 DEF Unmap, TypeOK, Ids
<1>10. CASE UNCHANGED vars
  BY <1>10 DEF vars, TypeOK, Ids
<1> QED
  BY <1>1, <1>2, <1>3, <1>4, <1>5, <1>6, <1>7, <1>8, <1>9, <1>10 DEF Next

\* The table of breakpoints and the calls in progress are well typed, and the
\* ids of breakpoint_manager.cc:21 stay below next_id_.
THEOREM Typing == Spec => []TypeOK
<1>1. ASSUME Init PROVE TypeOK
  <2>1. Ids = {} /\ bps \in [Ids -> Breakpoints]
    BY <1>1 DEF Init, Ids
  <2>2. frames \in Seq(Frames)
    BY <1>1 DEF Init
  <2>3. Ids \subseteq 1..next_id-1 /\ next_id \in Nat \ {0}
    BY <1>1, <2>1 DEF Init
  <2>4. mem \in [Addrs -> Bytes] /\ mapped \subseteq Addrs
    BY <1>1, MemoryAssumption DEF Init
  <2>5. skipped \in BOOLEAN /\ crashed \in BOOLEAN
    BY <1>1 DEF Init
  <2> QED BY <2>1, <2>2, <2>3, <2>4, <2>5 DEF TypeOK
<1> QED BY <1>1, TypeStep, PTL DEF Spec

-----------------------------------------------------------------------------

\* The invariant behind Shadow: addresses that are not shared tell breakpoints
\* apart, and the byte each one keeps is the target's own, active or not.
OwnBytes ==
  /\ \A i, j \in Ids : bps[i].addr = bps[j].addr /\ bps[i].addr \notin Shared => i = j
  /\ \A i \in Ids : bps[i].addr \notin Shared => bps[i].ov = Code[bps[i].addr]

ShadowInv == OwnBytes /\ Shadow

\* Cleaning up breakpoints of distinct addresses puts their own bytes back.
LEMMA CleanedOwn ==
  ASSUME TypeOK, ShadowInv, NEW S \in SUBSET Ids, NEW a \in Addrs \ Shared
  PROVE  Cleaned(S)[a] = IF \E i \in S : bps[i].active /\ bps[i].addr = a
                         THEN Code[a] ELSE mem[a]
<1>1. CASE \E i \in S : bps[i].active /\ bps[i].addr = a
  <2>1. PICK i \in S : bps[i].active /\ bps[i].addr = a
    BY <1>1
  <2>2. LastOf(S, a) = {i}
    <3>1. \A j \in S : bps[j].addr = a => j = i
      BY <2>1 DEF ShadowInv, OwnBytes
    <3>2. i <= i
      BY <2>1 DEF TypeOK
    <3> QED BY <2>1, <3>1, <3>2 DEF LastOf
  <2>3. (CHOOSE j \in LastOf(S, a) : TRUE) = i
    BY <2>2
  <2> QED BY <1>1, <2>1, <2>2, <2>3 DEF Cleaned, ShadowInv, OwnBytes
<1>2. CASE ~ \E i \in S : bps[i].active /\ bps[i].addr = a
  BY <1>2 DEF Cleaned, LastOf
<1> QED BY <1>1, <1>2

\* Removing breakpoints with a cleanup keeps the shadow of the others.
LEMMA RemovalStep ==
  ASSUME TypeOK, ShadowInv, NEW S \in SUBSET Ids,
         mem' = Cleaned(S), bps' = Without(S)
  PROVE  ShadowInv'
<1>1. Ids' = Ids \ S /\ \A i \in Ids' : bps'[i] = bps[i]
  BY DEF Without, Ids
<1>2. OwnBytes'
  BY <1>1 DEF ShadowInv, OwnBytes
<1>3. ASSUME NEW i \in Ids', bps'[i].active, bps'[i].addr \notin Shared
      PROVE mem'[bps'[i].addr] = Int3
  <2>1. i \in Ids /\ bps[i].addr \in Addrs
    BY <1>1 DEF TypeOK, Breakpoints
  <2>2. ~ \E j \in S : bps[j].active /\ bps[j].addr = bps[i].addr
    BY <1>1, <1>3, <2>1 DEF ShadowInv, OwnBytes
  <2> QED BY <1>1, <1>3, <2>1, <2>2, CleanedOwn DEF ShadowInv, Shadow
<1>4. ASSUME NEW a \in Addrs \ Shared, \A i \in Ids' : bps'[i].active => bps'[i].addr # a
      PROVE mem'[a] = Code[a]
  BY <1>1, <1>4, CleanedOwn DEF ShadowInv, Shadow
<1> QED BY <1>2, <1>3, <1>4 DEF ShadowInv, Shadow, OwnBytes

LEMMA ShadowStep == TypeOK /\ ShadowInv /\ [Next]_vars => ShadowInv'
<1> SUFFICES ASSUME TypeOK, ShadowInv, [Next]_vars PROVE ShadowInv'
  OBVIOUS
<1> USE MemoryAssumption
<1>0. ASSUME UNCHANGED <<mem, bps>> PROVE ShadowInv'
  BY <1>0 DEF ShadowInv, OwnBytes, Shadow, Ids
<1>1. ASSUME NEW a \in Addrs, SetBp(a) PROVE ShadowInv'
  <2>1. CASE a \in mapped
    <3>1. next_id \notin Ids /\ (a \notin Shared => \A i \in Ids : bps[i].addr # a)
      BY <1>1 DEF TypeOK, SetBp
    <3>2. Ids' = Ids \cup {next_id} /\ \A i \in Ids : bps'[i] = bps[i]
      BY <1>1, <2>1, <3>1 DEF SetBp, Ids
    <3>3. bps'[next_id] = [addr |-> a, ov |-> mem[a], active |-> TRUE]
      BY <1>1, <2>1 DEF SetBp
    <3>4. a \notin Shared => mem[a] = Code[a]
      BY <3>1 DEF ShadowInv, Shadow
    <3>5. mem' = [mem EXCEPT ![a] = Int3] /\ mem \in [Addrs -> Bytes]
      BY <1>1, <2>1 DEF SetBp, TypeOK
    <3>6. \A i \in Ids : bps[i].addr \in Addrs
      BY DEF TypeOK, Breakpoints
    <3> QED BY <3>1, <3>2, <3>3, <3>4, <3>5, <3>6 DEF ShadowInv, OwnBytes, Shadow
  <2>2. CASE a \notin mapped
    BY <1>0, <1>1, <2>2 DEF SetBp
  <2> QED BY <2>1, <2>2
<1>2. ASSUME NEW id \in Ids, RemoveBp(id) PROVE ShadowInv'
  BY <1>0, <1>2, RemovalStep DEF RemoveBp
<1>3. CASE RemoveAllBps
  BY <1>3, RemovalStep DEF RemoveAllBps
<1>4. ASSUME NEW a \in Addrs, DispatchHit(a) PROVE ShadowInv'
  BY <1>0, <1>4 DEF DispatchHit
<1>5. CASE HandlerReturn
  <2> DEFINE bp == bps[Top.id]
  <2>1. Top.id \in Ids /\ bp \in Breakpoints
    BY <1>5 DEF HandlerReturn, TypeOK
  <2>2. CASE bp.addr \in mapped
    <3>1. /\ mem' = [mem EXCEPT ![bp.addr] = bp.ov]
          /\ bp.addr \notin Shared => bp.ov = Code[bp.addr]
      BY <1>5, <2>1, <2>2 DEF HandlerReturn, ShadowInv, OwnBytes
    <3>2. bps' = [i \in Ids |-> IF i = Top.id THEN [bp EXCEPT !.active = FALSE]
                               ELSE bps[i]]
      BY <1>5, <2>1, <2>2 DEF HandlerReturn, TypeOK, Ids
    <3>3. Ids' = Ids
      BY <3>2 DEF Ids
    <3>4. \A i \in Ids : bps'[i].addr = bps[i].addr /\ bps'[i].ov = bps[i].ov
      BY <2>1, <3>2 DEF Breakpoints
    <3>5. \A i \in Ids : bps'[i].active => i # Top.id /\ bps[i].active
      BY <2>1, <3>2 DEF Breakpoints
    <3>6. \A i \in Ids : i # Top.id => bps'[i] = bps[i]
      BY <3>2
    <3>7. mem \in [Addrs -> Bytes] /\ \A i \in Ids : bps[i].addr \in Addrs
      BY DEF TypeOK, Breakpoints
    <3> QED BY <2>1, <3>1, <3>3, <3>4, <3>5, <3>6, <3>7
            DEF ShadowInv, OwnBytes, Shadow
  <2>3. CASE bp.addr \notin mapped
    BY <1>0, <1>5, <2>3 DEF HandlerReturn
  <2> QED BY <2>2, <2>3
<1>6. CASE UseAfterFree
  BY <1>0, <1>6 DEF UseAfterFree
<1>7. CASE Throw
  BY <1>0, <1>7 DEF Throw
<1>8. CASE RestoreBps
  <2>1. \A i \in Ids : bps[i].addr \in Addrs
    BY DEF TypeOK, Breakpoints
  <2>2. Ids' = Ids
    BY <1>8 DEF RestoreBps, Ids
  <2>3. \A i \in Restorable : i \in Ids /\ ~bps[i].active
    BY DEF Restorable, Due
  <2>4. \A i \in Restorable :
          /\ bps'[i].addr = bps[i].addr /\ bps'[i].active
          /\ bps[i].addr \notin Shared => bps'[i].ov = Code[bps[i].addr]
    <3>1. ASSUME NEW i \in Restorable, bps[i].addr \notin Shared
          PROVE Restored(i).ov = Code[bps[i].addr]
      <4>1. \A j \in Restorable : bps[j].addr = bps[i].addr => j = i
        BY <2>3, <3>1 DEF ShadowInv, OwnBytes
      <4>2. ~ (i < i)
        <5>1. i \in 1..next_id-1 /\ next_id \in Nat
          BY <2>3 DEF TypeOK
        <5> QED BY <5>1
      <4>3. mem[bps[i].addr] = Code[bps[i].addr]
        BY <2>1, <2>3, <3>1 DEF ShadowInv, OwnBytes, Shadow
      <4> QED BY <4>1, <4>2, <4>3 DEF Restored
    <3> QED BY <1>8, <2>3, <3>1 DEF RestoreBps, Restored
  <2>5. \A i \in Ids \ Restorable : bps'[i] = bps[i]
    BY <1>8 DEF RestoreBps
  <2>6. mem' = [a \in Addrs |-> IF \E i \in Restorable : bps[i].addr = a
                               THEN Int3 ELSE mem[a]]
    BY <1>8 DEF RestoreBps
  <2> QED BY <2>1, <2>2, <2>3, <2>4, <2>5, <2>6 DEF ShadowInv, OwnBytes, Shadow
<1>9. ASSUME NEW a \in Addrs, Unmap(a) PROVE ShadowInv'
  BY <1>0, <1>9 DEF Unmap
<1>10. CASE UNCHANGED vars
  BY <1>0, <1>10 DEF vars
<1> QED
  BY <1>1, <1>2, <1>3, <1>4, <1>5, <1>6, <1>7, <1>8, <1>9, <1>10 DEF Next

\* Where breakpoints do not share an address they never corrupt the target's code,
\* through any nesting of hits, removals, failing accesses and exceptions.
THEOREM TargetCodeIsShadowed == Spec => []Shadow
<1>1. Init => ShadowInv
  BY DEF Init, ShadowInv, OwnBytes, Shadow, Ids
<1>2. ShadowInv => Shadow
  BY DEF ShadowInv
<1> QED BY <1>1, <1>2, ShadowStep, Typing, PTL DEF Spec

-----------------------------------------------------------------------------

\* An exception that costs no restore_bps leaves every step in progress.
LEMMA UnwindRearmed ==
  ASSUME TypeOK, Rearmed, NEW k \in 0..Len(frames), Unwind(k), bps' = bps
  PROVE  Rearmed'
<1>1. Len(frames') = k /\ \A n \in 1..k : frames'[n] = frames[n]
  BY UnwindType
<1>2. frames' \in Seq(Frames) /\ DOMAIN frames' = 1..k /\ DOMAIN frames = 1..Len(frames)
  BY <1>1, UnwindType DEF TypeOK
<1>3. ASSUME NEW n \in DOMAIN frames, frames[n].phase = "stepping"
      PROVE skipped' \/ \E m \in DOMAIN frames' : frames'[m].phase = "stepping"
  <2>1. CASE n \in 1..k
    BY <1>1, <1>2, <1>3, <2>1
  <2>2. CASE n \in k+1..Len(frames)
    BY <1>3, <2>2 DEF Unwind
  <2> QED BY <1>2, <2>1, <2>2
<1> QED BY <1>3 DEF Rearmed, Unwind, Ids

LEMMA RearmedStep == TypeOK /\ Rearmed /\ [Next]_vars => Rearmed'
<1> SUFFICES ASSUME TypeOK, Rearmed, [Next]_vars PROVE Rearmed'
  OBVIOUS
<1>0. ASSUME UNCHANGED <<bps, frames, skipped>> PROVE Rearmed'
  BY <1>0 DEF Rearmed, Ids
<1>1. ASSUME NEW a \in Addrs, SetBp(a) PROVE Rearmed'
  <2>1. CASE a \in mapped
    <3>1. UNCHANGED <<frames, skipped>>
      BY <1>1, <2>1 DEF SetBp
    <3>2. \A i \in Ids' : ~bps'[i].active => i \in Ids /\ ~bps[i].active
      BY <1>1, <2>1 DEF SetBp, Ids
    <3> QED BY <3>1, <3>2 DEF Rearmed
  <2>2. CASE a \notin mapped
    BY <1>1, <2>2, UnwindRearmed DEF SetBp
  <2> QED BY <2>1, <2>2
<1>2. ASSUME NEW S \in SUBSET Ids, bps' = Without(S)
      PROVE \A i \in Ids' : ~bps'[i].active => i \in Ids /\ ~bps[i].active
  BY <1>2 DEF Without, Ids
<1>3. ASSUME NEW S \in SUBSET Ids, bps' = Without(S),
             NEW k \in 0..Len(frames), Unwind(k)
      PROVE Rearmed'
  <2>1. Len(frames') = k /\ frames' \in Seq(Frames) /\ \A n \in 1..k : frames'[n] = frames[n]
    BY <1>3, UnwindType
  <2>2. DOMAIN frames' = 1..k /\ DOMAIN frames = 1..Len(frames)
    BY <2>1 DEF TypeOK
  <2>3. ASSUME NEW n \in DOMAIN frames, frames[n].phase = "stepping"
        PROVE skipped' \/ \E m \in DOMAIN frames' : frames'[m].phase = "stepping"
    <3>1. CASE n \in 1..k
      BY <2>1, <2>2, <2>3, <3>1
    <3>2. CASE n \in k+1..Len(frames)
      BY <1>3, <2>3, <3>2 DEF Unwind
    <3> QED BY <2>2, <2>3, <3>1, <3>2
  <2> QED BY <1>2, <1>3, <2>3 DEF Rearmed, Unwind
<1>4. ASSUME NEW id \in Ids, RemoveBp(id) PROVE Rearmed'
  <2>1. CASE bps' = Without({id}) /\ UNCHANGED <<frames, skipped>>
    BY <1>2, <2>1 DEF Rearmed
  <2> QED BY <1>4, <2>1, UnwindRearmed DEF RemoveBp
<1>5. CASE RemoveAllBps
  <2>1. PICK S \in SUBSET Ids :
          /\ bps' = Without(S)
          /\ UNCHANGED <<frames, skipped>> \/ \E k \in 0..Len(frames) : Unwind(k)
    BY <1>5 DEF RemoveAllBps
  <2>2. CASE UNCHANGED <<frames, skipped>>
    BY <1>2, <2>1, <2>2 DEF Rearmed
  <2> QED BY <1>3, <2>1, <2>2
<1>6. ASSUME NEW a \in Addrs, DispatchHit(a) PROVE Rearmed'
  <2>1. PICK f \in Frames : frames' = Append(frames, f)
    BY <1>6 DEF DispatchHit, Frames, TypeOK
  <2>2. \A n \in DOMAIN frames : n \in DOMAIN frames' /\ frames'[n] = frames[n]
    BY <2>1 DEF TypeOK
  <2> QED BY <1>6, <2>2 DEF DispatchHit, Rearmed, Ids
<1>7. CASE HandlerReturn
  <2>1. frames \in Seq(Frames) /\ frames # <<>> /\ Len(frames) \in DOMAIN frames
    BY <1>7 DEF HandlerReturn, InHandler, TypeOK
  <2>2. CASE frames' = [frames EXCEPT ![Len(frames)].phase = "stepping"]
    <3>1. Len(frames) \in DOMAIN frames' /\ frames[Len(frames)] \in Frames
      BY <2>1, <2>2
    <3>2. frames'[Len(frames)].phase = "stepping"
      BY <2>1, <2>2, <3>1 DEF Frames
    <3> QED BY <3>1, <3>2 DEF Rearmed
  <2>3. CASE bps' = bps /\ \E k \in 0..Len(frames)-1 : Unwind(k)
    <3>1. PICK k \in 0..Len(frames)-1 : Unwind(k)
      BY <2>3
    <3>2. k \in 0..Len(frames)
      BY <3>1, <2>1
    <3> QED BY <2>3, <3>1, <3>2, UnwindRearmed
  <2> QED BY <1>7, <2>2, <2>3 DEF HandlerReturn
<1>8. CASE UseAfterFree
  BY <1>0, <1>8 DEF UseAfterFree
<1>9. CASE Throw
  <2>1. PICK k \in 0..Len(frames)-1 : Unwind(k)
    BY <1>9 DEF Throw
  <2>2. k \in 0..Len(frames)
    BY <2>1 DEF TypeOK
  <2> QED BY <1>9, <2>1, <2>2, UnwindRearmed DEF Throw
<1>10. CASE RestoreBps
  <2>1. CASE Failing # {}
    BY <1>10, <2>1 DEF RestoreBps, Rearmed
  <2>2. CASE Failing = {}
    <3>1. \A i \in Ids : ~bps[i].active => i \in Restorable
      BY <2>2 DEF Restorable, Due
    <3>2. \A i \in Ids : bps'[i].active
      BY <1>10, <3>1 DEF RestoreBps, Restored
    <3>3. Ids' = Ids
      BY <1>10 DEF RestoreBps, Ids
    <3> QED BY <3>2, <3>3 DEF Rearmed
  <2> QED BY <2>1, <2>2
<1>11. ASSUME NEW a \in Addrs, Unmap(a) PROVE Rearmed'
  BY <1>0, <1>11 DEF Unmap
<1>12. CASE UNCHANGED vars
  BY <1>0, <1>12 DEF vars
<1> QED
  BY <1>1, <1>4, <1>5, <1>6, <1>7, <1>8, <1>9, <1>10, <1>11, <1>12 DEF Next

\* A breakpoint is never forgotten: it is inactive only while a step is in
\* progress, or after an exception has cost the manager a restore_bps.
THEOREM InactiveOnlyWhileStepping == Spec => []Rearmed
<1>1. Init => Rearmed
  BY DEF Init, Rearmed, Ids
<1> QED BY <1>1, RearmedStep, Typing, PTL DEF Spec
=============================================================================
