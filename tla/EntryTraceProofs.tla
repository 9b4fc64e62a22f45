-------------------------- MODULE EntryTraceProofs --------------------------
(***************************************************************************)
(* What EntryTrace promises, for every image, every program and every      *)
(* place of the entry point.                                               *)
(***************************************************************************)
EXTENDS EntryTrace, SelectionProofs, FiniteSetTheorems

-----------------------------------------------------------------------------
(* The elements of a sequence                                              *)

LEMMA ConcatSet ==
  ASSUME NEW A, NEW s \in Seq(A), NEW t \in Seq(A)
  PROVE  ToSet(s \o t) = ToSet(s) \cup ToSet(t)
<1>1. /\ DOMAIN (s \o t) = 1 .. Len(s) + Len(t) /\ DOMAIN s = 1 .. Len(s) /\ DOMAIN t = 1 .. Len(t)
      /\ Len(s) \in Nat /\ Len(t) \in Nat
      /\ \A i \in 1 .. Len(s) : (s \o t)[i] = s[i]
      /\ \A i \in 1 .. Len(t) : (s \o t)[Len(s) + i] = t[i]
  OBVIOUS
<1>2. \A i \in 1 .. Len(s) + Len(t) : i \in 1 .. Len(s) \/ \E j \in 1 .. Len(t) : i = Len(s) + j
  <2> TAKE i \in 1 .. Len(s) + Len(t)
  <2>1. i \notin 1 .. Len(s) => i - Len(s) \in 1 .. Len(t) /\ i = Len(s) + (i - Len(s))
    BY <1>1
  <2> QED
    BY <2>1
<1>3. \A j \in 1 .. Len(t) : Len(s) + j \in 1 .. Len(s) + Len(t)
  BY <1>1
<1>4. 1 .. Len(s) \subseteq 1 .. Len(s) + Len(t)
  BY <1>1
<1>5. ASSUME NEW x \in ToSet(s \o t) PROVE x \in ToSet(s) \cup ToSet(t)
  <2>1. PICK i \in 1 .. Len(s) + Len(t) : x = (s \o t)[i]
    BY <1>1 DEF ToSet
  <2>2. CASE i \in 1 .. Len(s)
    BY <1>1, <2>1, <2>2 DEF ToSet
  <2>3. ASSUME NEW j \in 1 .. Len(t), i = Len(s) + j PROVE x \in ToSet(t)
    BY <1>1, <2>1, <2>3 DEF ToSet
  <2> QED
    BY <1>2, <2>2, <2>3
<1>6. ASSUME NEW x \in ToSet(s) PROVE x \in ToSet(s \o t)
  BY <1>1, <1>4 DEF ToSet
<1>7. ASSUME NEW x \in ToSet(t) PROVE x \in ToSet(s \o t)
  BY <1>1, <1>3 DEF ToSet
<1> QED
  BY <1>5, <1>6, <1>7

LEMMA TailSet ==
  ASSUME NEW A, NEW s \in Seq(A), s # <<>>
  PROVE  /\ Head(s) \in A /\ Tail(s) \in Seq(A)
         /\ ToSet(s) = {Head(s)} \cup ToSet(Tail(s))
<1>1. /\ Head(s) \in A /\ Tail(s) \in Seq(A) /\ Head(s) = s[1]
      /\ Len(s) \in Nat \ {0} /\ Len(Tail(s)) = Len(s) - 1
      /\ DOMAIN s = 1 .. Len(s) /\ DOMAIN Tail(s) = 1 .. Len(s) - 1
      /\ \A i \in 1 .. Len(s) - 1 : Tail(s)[i] = s[i + 1]
  OBVIOUS
<1>2. \A i \in 1 .. Len(s) : i = 1 \/ \E j \in 1 .. Len(s) - 1 : i = j + 1
  <2> TAKE i \in 1 .. Len(s)
  <2>1. i # 1 => i - 1 \in 1 .. Len(s) - 1 /\ i = (i - 1) + 1
    BY <1>1
  <2> QED
    BY <2>1
<1>3. 1 \in 1 .. Len(s) /\ \A j \in 1 .. Len(s) - 1 : j + 1 \in 1 .. Len(s)
  BY <1>1
<1>4. ASSUME NEW x \in ToSet(s) PROVE x \in {Head(s)} \cup ToSet(Tail(s))
  <2>1. PICK i \in 1 .. Len(s) : x = s[i]
    BY <1>1 DEF ToSet
  <2>2. CASE i = 1
    BY <1>1, <2>1, <2>2
  <2>3. ASSUME NEW j \in 1 .. Len(s) - 1, i = j + 1 PROVE x \in ToSet(Tail(s))
    BY <1>1, <2>1, <2>3 DEF ToSet
  <2> QED
    BY <1>2, <2>2, <2>3
<1>5. ASSUME NEW x \in {Head(s)} \cup ToSet(Tail(s)) PROVE x \in ToSet(s)
  BY <1>1, <1>3 DEF ToSet
<1> QED
  BY <1>1, <1>4, <1>5

LEMMA OneElement ==
  ASSUME NEW t, NEW f \in [1 .. 1 -> {t}]
  PROVE  f \in Seq({t}) /\ ToSet(f) = {t}
<1>1. DOMAIN f = 1 .. 1
  OBVIOUS
<1>2. f[1] \in {t}
  OBVIOUS
<1>3. \A T : \A n \in Nat : \A g \in [1 .. n -> T] : g \in Seq(T)
  OBVIOUS
<1>4. 1 \in Nat /\ f \in Seq({t})
  BY <1>3
<1>5. ToSet(f) = {f[i] : i \in 1 .. 1}
  BY <1>1 DEF ToSet
<1>6. \A i \in 1 .. 1 : i = 1
  OBVIOUS
<1> QED
  BY <1>2, <1>4, <1>5, <1>6

LEMMA ElementsIn ==
  ASSUME NEW A, NEW s \in Seq(A)
  PROVE  ToSet(s) \subseteq A
<1>1. \A i \in DOMAIN s : s[i] \in A
  OBVIOUS
<1> QED
  BY <1>1 DEF ToSet

(* A set of one element at most, as a sequence *)
LEMMA SmallSet ==
  ASSUME NEW S, NEW t, S \subseteq {t}
  PROVE  SetToSeq(S) \in Seq(S) /\ ToSet(SetToSeq(S)) = S
<1> DEFINE Inj(f) == f \in [1 .. Cardinality(S) -> S] /\ IsInjective(f)
<1>1. \E f : Inj(f)
  <2>1. CASE S = {}
    <3>1. Cardinality(S) = 0
      BY <2>1, FS_EmptySet
    <3>2. Inj([i \in 1 .. 0 |-> t])
      BY <2>1, <3>1 DEF IsInjective
    <3> QED
      BY <3>2
  <2>2. CASE S = {t}
    <3>1. Cardinality(S) = 1
      BY <2>2, FS_Singleton
    <3>2. Inj([i \in 1 .. 1 |-> t])
      BY <2>2, <3>1 DEF IsInjective
    <3> QED
      BY <3>2
  <2> QED
    BY <2>1, <2>2
<1>2. PICK f \in [1 .. Cardinality(S) -> S] : f = SetToSeq(S)
  BY <1>1 DEF SetToSeq
<1>3. CASE S = {}
  <2>1. Cardinality(S) = 0
    BY <1>3, FS_EmptySet
  <2> QED
    BY <1>2, <1>3, <2>1 DEF ToSet
<1>4. CASE S = {t}
  <2>1. Cardinality(S) = 1
    BY <1>4, FS_Singleton
  <2>2. f \in [1 .. 1 -> {t}]
    BY <1>2, <1>4, <2>1
  <2>3. f \in Seq(S) /\ ToSet(f) = S
    BY <1>4, <2>2, OneElement
  <2> QED
    BY <1>2, <2>3
<1> QED
  BY <1>3, <1>4

(* The least of some numbers *)
LEMMA Least ==
  ASSUME NEW S \in SUBSET Nat, S # {}
  PROVE  \E m \in S : \A k \in S : m <= k
<1> DEFINE R == {p \in Nat \X Nat : p[1] < p[2]}
<1>1. IsWellFoundedOn(R, Nat)
  BY NatLessThanWellFounded DEF OpToRel
<1>2. PICK m \in S : \A k \in S : ~(<<k, m>> \in R)
  BY <1>1, WFMin
<1>3. ASSUME NEW k \in S PROVE m <= k
  <2>1. m \in Nat /\ k \in Nat /\ ~(<<k, m>> \in R)
    BY <1>2
  <2> QED
    BY <2>1
<1> QED
  BY <1>3

LEMMA MinIsLeast ==
  ASSUME NEW S \in SUBSET Nat, S # {}
  PROVE  Min(S) \in S /\ \A k \in S : Min(S) <= k
<1>1. \E m \in S : \A k \in S : m <= k
  BY Least
<1> QED
  BY <1>1 DEF Min

-----------------------------------------------------------------------------
(* The code                                                                *)

LEMMA Piece ==
  /\ Size \in Nat \ {0} /\ End = Size + 1 /\ Addresses = 1 .. Size
  /\ Outside \subseteq Nat \ Addresses /\ End \in Outside
  /\ \A a \in Addresses : a \in Nat /\ a # NoPath /\ a # End /\ a <= Size
  /\ Size \in Addresses
BY TracerAssumption DEF Addresses, End, NoPath

LEMMA CodeIs ==
  ASSUME code \in Codes
  PROVE  \A a \in Addresses :
           /\ code[a] \in Instructions \cup {Prefix}
           /\ code[a] = Prefix => a = Size
<1> DEFINE whole == [Addresses -> Instructions]
<1>1. CASE code \in whole
  <2>1. \A i \in Instructions : i # Prefix
    BY DEF Instructions, Prefix
  <2> QED
    BY <1>1, <2>1
<1>2. CASE \E c \in whole : code = [c EXCEPT ![Size] = Prefix]
  <2>1. PICK c \in whole : code = [c EXCEPT ![Size] = Prefix]
    BY <1>2
  <2>2. \A i \in Instructions : i # Prefix
    BY DEF Instructions, Prefix
  <2>3. \A a \in Addresses : code[a] = IF a = Size THEN Prefix ELSE c[a]
    BY <2>1
  <2> QED
    BY <2>2, <2>3
<1> QED
  BY <1>1, <1>2 DEF Codes

LEMMA InstructionIs ==
  ASSUME NEW i \in Instructions \cup {Prefix}
  PROVE  /\ i.kind = "prefix" => i = Prefix
         /\ i = Prefix => i.kind = "prefix"
         /\ Goes(i) \subseteq Addresses \cup Outside
         /\ \E t : Goes(i) \subseteq {t}
         /\ i.kind \in {"plain", "prefix"} => Goes(i) = {} /\ ~Ends(i)
<1>1. CASE i = Prefix
  BY <1>1 DEF Prefix, Goes, Ends
<1>2. CASE i \in [kind : {"plain", "ret"}]
  BY <1>2 DEF Prefix, Goes, Ends
<1>3. CASE i \in [kind : {"jump", "branch"}, to : Addresses \cup Outside]
  BY <1>3 DEF Prefix, Goes, Ends
<1> QED
  BY <1>1, <1>2, <1>3 DEF Instructions

LEMMA FlowIs ==
  ASSUME code \in Codes
  PROVE  \A a \in Addresses : Flow(a) \subseteq Addresses \cup Outside
<1> TAKE a \in Addresses
<1>1. Goes(code[a]) \subseteq Addresses \cup Outside
  BY CodeIs, InstructionIs
<1>2. a + 1 \in Addresses \cup Outside
  <2>1. a + 1 \in Addresses \/ a + 1 = End
    BY Piece
  <2> QED
    BY <2>1, Piece
<1> QED
  BY <1>1, <1>2 DEF Flow

(* The first instruction from a on that directs the flow *)
LEMMA FlowFromIs ==
  ASSUME NEW a \in Addresses, FlowFrom(a) # {}
  PROVE  /\ Min(FlowFrom(a)) \in FlowFrom(a) /\ \A p \in FlowFrom(a) : Min(FlowFrom(a)) <= p
         /\ Min(FlowFrom(a)) \in Addresses /\ a <= Min(FlowFrom(a))
<1>1. FlowFrom(a) \subseteq a .. Size /\ FlowFrom(a) \in SUBSET Nat
  BY Piece DEF FlowFrom
<1>2. Min(FlowFrom(a)) \in FlowFrom(a) /\ \A p \in FlowFrom(a) : Min(FlowFrom(a)) <= p
  BY <1>1, MinIsLeast
<1> QED
  BY <1>1, <1>2, Piece

LEMMA FlowFromNext ==
  ASSUME NEW a \in Addresses, a # Size, a \notin FlowFrom(a)
  PROVE  a + 1 \in Addresses /\ FlowFrom(a + 1) = FlowFrom(a)
<1>1. a + 1 \in Addresses
  BY Piece
<1>2. \A p \in a .. Size : p # a => p \in a + 1 .. Size
  BY Piece
<1>3. \A p \in a + 1 .. Size : p \in a .. Size
  BY Piece
<1> QED
  BY <1>1, <1>2, <1>3 DEF FlowFrom

(* A path that enters a block ends where the block does *)
LEMMA InBlock ==
  ASSUME NEW b, b[1] \in Addresses, Shaped(b),
         NEW a \in Addresses, b[1] <= a, a < b[2]
  PROVE  /\ FlowFrom(a) # {} /\ Min(FlowFrom(a)) = b[2] - 1
         /\ a \in FlowFrom(a) => a = b[2] - 1
<1> DEFINE m == Min(FlowFrom(b[1]))
<1>1. /\ m \in FlowFrom(b[1]) /\ \A p \in FlowFrom(b[1]) : m <= p
      /\ m \in Addresses /\ b[2] = m + 1
  BY FlowFromIs DEF Shaped
<1> HIDE DEF m
<1>2. a <= m /\ m \in a .. Size
  BY <1>1, Piece
<1>3. m \in FlowFrom(a)
  BY <1>1, <1>2 DEF FlowFrom
<1>4. \A p \in FlowFrom(a) : p \in FlowFrom(b[1])
  BY Piece DEF FlowFrom
<1>5. /\ Min(FlowFrom(a)) \in FlowFrom(a) /\ Min(FlowFrom(a)) \in Addresses
      /\ \A p \in FlowFrom(a) : Min(FlowFrom(a)) <= p
  BY <1>3, FlowFromIs
<1>6. Min(FlowFrom(a)) = m
  BY <1>1, <1>3, <1>4, <1>5, Piece
<1>7. a \in FlowFrom(a) => a = m
  BY <1>1, <1>2, <1>4, Piece
<1> QED
  BY <1>1, <1>3, <1>6, <1>7, Piece

-----------------------------------------------------------------------------
(* The steps of run_trace                                                  *)

LEMMA SameCode ==
  ASSUME code' = code
  PROVE  /\ \A a : FlowFrom(a)' = FlowFrom(a) /\ Flow(a)' = Flow(a)
         /\ \A b : Shaped(b)' <=> Shaped(b)
<1>1. \A a : FlowFrom(a)' = FlowFrom(a)
  BY DEF FlowFrom
<1>2. \A a : Flow(a)' = Flow(a)
  BY DEF Flow
<1> QED
  BY <1>1, <1>2 DEF Shaped

(* What is covered stays so *)
LEMMA CoveredStays ==
  ASSUME code' = code, blocks \subseteq blocks',
         code[Size] = Prefix /\ offset = Size => offset' = Size,
         offset = End \/ End \in ToSet(code_paths) => offset' = End \/ End \in ToSet(code_paths')
  PROVE  \A a : Covered(a) => Covered(a)'
<1> SUFFICES ASSUME NEW a, Covered(a) PROVE Covered(a)'
  OBVIOUS
<1>1. FlowFrom(a)' = FlowFrom(a)
  BY SameCode
<1>2. \A p : Found(p, blocks) => Found(p, blocks')
  BY DEF Found
<1> QED
  BY <1>1, <1>2 DEF Covered

(* When every address that was kept still is, only the new blocks matter *)
LEMMA TraceInvStays ==
  ASSUME TraceInv, code' = code, entries' = entries,
         \A a : Kept(a) => Kept(a)',
         \A b \in blocks' : b \in blocks \/ (Shaped(b) /\ \A a \in Flow(b[2] - 1) : Kept(a)'),
         done' => traceable' = <<>> /\ offset' = NoPath /\ ToSet(code_paths') \cap Addresses = {}
  PROVE  TraceInv'
<1>1. \A b \in blocks' : Shaped(b)' /\ \A a \in Flow(b[2] - 1)' : Kept(a)'
  <2> TAKE b \in blocks'
  <2>1. (Shaped(b)' <=> Shaped(b)) /\ Flow(b[2] - 1)' = Flow(b[2] - 1)
    BY SameCode
  <2>2. Shaped(b) /\ \A a \in Flow(b[2] - 1) : Kept(a)'
    BY DEF TraceInv
  <2> QED
    BY <2>1, <2>2
<1>2. \A a \in entries' : Kept(a)'
  BY DEF TraceInv
<1> QED
  BY <1>1, <1>2 DEF TraceInv

LEMMA RoundKeeps ==
  ASSUME TypeOK, TraceInv, Round
  PROVE  TypeOK' /\ TraceInv'
<1>1. /\ code' = code /\ entries' = entries /\ offset' = offset /\ blocks' = blocks
      /\ offset = NoPath /\ traceable = <<>> /\ done' = (traceable' = <<>>)
      /\ traceable' = Those(code_paths, Addresses) /\ code_paths' = Those(code_paths, Outside)
  BY DEF Round
<1>2. /\ traceable' \in Seq((Addresses \cup Outside) \cap Addresses)
      /\ ToSet(traceable') = ToSet(code_paths) \cap Addresses
      /\ code_paths' \in Seq((Addresses \cup Outside) \cap Outside)
      /\ ToSet(code_paths') = ToSet(code_paths) \cap Outside
  BY <1>1, ThoseInOrder DEF TypeOK
<1>3. traceable' \in Seq(Addresses) /\ code_paths' \in Seq(Addresses \cup Outside)
  <2>1. (Addresses \cup Outside) \cap Addresses = Addresses
    OBVIOUS
  <2>2. (Addresses \cup Outside) \cap Outside \subseteq Addresses \cup Outside
    OBVIOUS
  <2> QED
    BY <1>2, <2>1, <2>2, SeqMonotonic
<1>4. TypeOK'
  <2> HIDE DEF Codes
  <2> QED
    BY <1>1, <1>3 DEF TypeOK
<1>5. ToSet(code_paths) \subseteq Addresses \cup Outside
  BY ElementsIn DEF TypeOK
<1>6. ASSUME NEW a, Kept(a) PROVE Kept(a)'
  <2>1. ~Tracing /\ ToSet(traceable) = {}
    BY <1>1 DEF Tracing, ToSet
  <2>2. ASSUME a \in ToSet(code_paths) PROVE a \in ToSet(traceable') \cup ToSet(code_paths')
    BY <1>2, <1>5, <2>2
  <2>3. Covered(a) => Covered(a)'
    <3>1. End \in ToSet(code_paths) => End \in ToSet(code_paths')
      BY <1>2, Piece
    <3>2. offset # Size /\ offset # End
      BY <1>1, Piece DEF NoPath
    <3> QED
      BY <1>1, <3>1, <3>2, CoveredStays
  <2> QED
    BY <1>6, <2>1, <2>2, <2>3 DEF Kept
<1>7. ToSet(code_paths') \cap Addresses = {}
  BY <1>2, Piece
<1>8. TraceInv'
  BY <1>1, <1>6, <1>7, TraceInvStays
<1> QED
  BY <1>4, <1>8

LEMMA StartPathKeeps ==
  ASSUME TypeOK, TraceInv, StartPath
  PROVE  TypeOK' /\ TraceInv'
<1>1. /\ code' = code /\ entries' = entries /\ blocks' = blocks /\ code_paths' = code_paths
      /\ done' = done /\ offset = NoPath /\ traceable # <<>>
      /\ offset' = Head(traceable) /\ traceable' = Tail(traceable)
  BY DEF StartPath
<1>2. /\ Head(traceable) \in Addresses /\ Tail(traceable) \in Seq(Addresses)
      /\ ToSet(traceable) = {Head(traceable)} \cup ToSet(Tail(traceable))
  BY <1>1, TailSet DEF TypeOK
<1>3. offset' \in 1 .. End /\ offset' # NoPath
  BY <1>1, <1>2, Piece
<1>4. TypeOK'
  BY <1>1, <1>2, <1>3 DEF TypeOK
<1>5. ASSUME NEW a, Kept(a) PROVE Kept(a)'
  <2>1. ~Tracing /\ Tracing'
    BY <1>1, <1>3 DEF Tracing
  <2>2. Covered(a) => Covered(a)'
    <3>1. offset # Size /\ offset # End
      BY <1>1, Piece DEF NoPath
    <3> QED
      BY <1>1, <3>1, CoveredStays
  <2> QED
    BY <1>1, <1>2, <1>5, <2>1, <2>2 DEF Kept
<1>6. ~done
  BY <1>1 DEF TraceInv
<1>7. TraceInv'
  BY <1>1, <1>5, <1>6, TraceInvStays
<1> QED
  BY <1>4, <1>7

(* The instruction that the decoder stops at *)
LEMMA AtFlowIs ==
  ASSUME TypeOK, TraceInv, NEW p \in Addresses, AtFlow(p)
  PROVE  /\ offset \in Addresses /\ Tracing /\ ~done
         /\ FlowFrom(offset) # {} /\ p = Min(FlowFrom(offset)) /\ p \in FlowFrom(offset)
         /\ offset <= p /\ p + 1 \in 1 .. End /\ p + 1 # NoPath
         /\ code[Size] = Prefix => offset # Size
<1>1. offset \in Addresses /\ Tracing /\ FlowFrom(offset) # {} /\ p = Min(FlowFrom(offset))
  BY Piece DEF TypeOK, AtFlow, Tracing
<1>2. p \in FlowFrom(offset) /\ offset <= p
  BY <1>1, FlowFromIs
<1>3. ~done
  BY <1>1 DEF TraceInv, Tracing
<1>4. p + 1 \in 1 .. End /\ p + 1 # NoPath
  BY Piece DEF NoPath
<1>5. code[Size] = Prefix => FlowFrom(Size) = {}
  <2>1. \A q \in Size .. Size : q = Size
    BY Piece
  <2> QED
    BY <2>1 DEF FlowFrom, Prefix
<1> QED
  BY <1>1, <1>2, <1>3, <1>4, <1>5

LEMMA PassOverKeeps ==
  ASSUME TypeOK, TraceInv, PassOver
  PROVE  TypeOK' /\ TraceInv'
<1>1. PICK p \in Addresses : /\ AtFlow(p) /\ Found(p, blocks) /\ offset' = p + 1
                             /\ UNCHANGED <<code, entries, code_paths, traceable, blocks, done>>
  BY DEF PassOver
<1>2. /\ offset \in Addresses /\ Tracing /\ ~done
      /\ FlowFrom(offset) # {} /\ p = Min(FlowFrom(offset))
      /\ p + 1 \in 1 .. End /\ p + 1 # NoPath
      /\ code[Size] = Prefix => offset # Size
  BY <1>1, AtFlowIs
<1>3. TypeOK'
  BY <1>1, <1>2 DEF TypeOK
<1>4. \A a : Covered(a) => Covered(a)'
  <2>1. offset # End
    BY <1>2, Piece
  <2> QED
    BY <1>1, <1>2, <2>1, CoveredStays
<1>5. Covered(offset)
  BY <1>1, <1>2 DEF Covered
<1>6. ASSUME NEW a, Kept(a) PROVE Kept(a)'
  BY <1>1, <1>4, <1>5, <1>6 DEF Kept
<1>7. TraceInv'
  BY <1>1, <1>2, <1>6, TraceInvStays
<1> QED
  BY <1>3, <1>7

LEMMA TraceBlockKeeps ==
  ASSUME TypeOK, TraceInv, TraceBlock
  PROVE  TypeOK' /\ TraceInv'
<1>1. PICK p \in Addresses :
        /\ AtFlow(p) /\ blocks' = blocks \cup {<<offset, p + 1>>}
        /\ code_paths' = code_paths \o SetToSeq(Targets(p, blocks'))
        /\ offset' = IF Ends(code[p]) THEN NoPath ELSE p + 1
        /\ UNCHANGED <<code, entries, traceable, done>>
  BY DEF TraceBlock
<1>2. /\ offset \in Addresses /\ Tracing /\ ~done
      /\ FlowFrom(offset) # {} /\ p = Min(FlowFrom(offset)) /\ offset <= p
      /\ p + 1 \in 1 .. End /\ p + 1 # NoPath
      /\ code[Size] = Prefix => offset # Size
  BY <1>1, AtFlowIs
<1> DEFINE b == <<offset, p + 1>>
           ts == SetToSeq(Targets(p, blocks'))
<1>3. b[1] = offset /\ b[2] = p + 1 /\ b[2] - 1 = p
  BY Piece
<1>4. Shaped(b)
  BY <1>2, <1>3 DEF Shaped
<1>5. Goes(code[p]) \subseteq Addresses \cup Outside /\ \E t : Goes(code[p]) \subseteq {t}
  <2>1. code[p] \in Instructions \cup {Prefix}
    BY CodeIs DEF TypeOK
  <2> QED
    BY <2>1, InstructionIs
<1>6. ts \in Seq(Addresses \cup Outside) /\ ToSet(ts) = Targets(p, blocks')
  <2>1. Targets(p, blocks') \subseteq Goes(code[p])
    BY DEF Targets
  <2>2. PICK t : Targets(p, blocks') \subseteq {t}
    BY <1>5, <2>1
  <2>3. ts \in Seq(Targets(p, blocks')) /\ ToSet(ts) = Targets(p, blocks')
    BY <2>2, SmallSet
  <2> QED
    BY <1>5, <2>1, <2>3, SeqMonotonic
<1> HIDE DEF b, ts
<1>7. /\ code_paths' \in Seq(Addresses \cup Outside)
      /\ ToSet(code_paths') = ToSet(code_paths) \cup Targets(p, blocks')
  <2>1. code_paths \in Seq(Addresses \cup Outside) /\ code_paths' = code_paths \o ts
    BY <1>1 DEF TypeOK, ts
  <2>2. code_paths \o ts \in Seq(Addresses \cup Outside)
    BY <1>6, <2>1
  <2> QED
    BY <1>6, <2>1, <2>2, ConcatSet
<1>8. /\ offset' = (IF Ends(code[p]) THEN NoPath ELSE p + 1)
      /\ code' = code /\ entries' = entries /\ traceable' = traceable /\ done' = done
      /\ blocks' = blocks \cup {b}
  BY <1>1 DEF b
<1>9. b[1] \in Addresses /\ b[2] \in 2 .. End /\ b[1] < b[2]
  BY <1>2, <1>3, Piece
<1>10. TypeOK'
  <2>1. offset' \in {NoPath} \cup 1 .. End
    BY <1>2, <1>8
  <2>2. \A c \in blocks' : c[1] \in Addresses /\ c[2] \in 2 .. End /\ c[1] < c[2]
    BY <1>8, <1>9 DEF TypeOK
  <2> QED
    BY <1>7, <1>8, <2>1, <2>2 DEF TypeOK
<1>11. \A a : Covered(a) => Covered(a)'
  <2>1. offset # End
    BY <1>2, Piece
  <2> QED
    BY <1>2, <1>7, <1>8, <2>1, CoveredStays
<1>12. PICK o : o = offset
  OBVIOUS
<1>13. Covered(o)'
  <2>1. FlowFrom(o)' = FlowFrom(o)
    BY <1>8, SameCode
  <2>2. Found(p, blocks')
    BY <1>2, <1>3, <1>8, Piece DEF Found
  <2> QED
    BY <1>2, <1>12, <2>1, <2>2 DEF Covered
<1>14. ASSUME NEW a, Kept(a) PROVE Kept(a)'
  BY <1>7, <1>8, <1>11, <1>12, <1>13, <1>14 DEF Kept
<1>15. ASSUME NEW a \in Flow(p) PROVE Kept(a)'
  <2>1. CASE a \in Targets(p, blocks')
    BY <1>7, <2>1 DEF Kept
  <2>2. CASE a \in Goes(code[p]) /\ Found(a, blocks')
    <3>1. PICK c \in blocks' : c[1] <= a /\ a < c[2]
      BY <2>2 DEF Found
    <3>2. c[1] \in Addresses /\ c[2] \in 2 .. End /\ Shaped(c)
      BY <1>4, <1>8, <1>10 DEF TypeOK, TraceInv
    <3>3. a \in Addresses
      <4>1. /\ a \in Nat
            /\ c[2] \in Nat /\ c[1] \in Nat /\ 1 <= c[1] /\ c[2] <= Size + 1
        <5>1. a \in Addresses \cup Outside
          BY <1>5, <2>2
        <5>2. a \in Nat
          BY <5>1, Piece
        <5>3. c[1] \in 1 .. Size /\ c[2] \in 2 .. Size + 1 /\ Size \in Nat
          BY <3>2, Piece
        <5> QED
          BY <5>2, <5>3
      <4>2. 1 <= a /\ a <= Size
        BY <3>1, <4>1, Piece
      <4> QED
        BY <4>1, <4>2, Piece
    <3>4. FlowFrom(a) # {} /\ Min(FlowFrom(a)) = c[2] - 1
      BY <3>1, <3>2, <3>3, InBlock
    <3>5. Found(c[2] - 1, blocks')
      BY <3>1, <3>2, <3>3, Piece DEF Found
    <3>6. FlowFrom(a)' = FlowFrom(a)
      BY <1>8, SameCode
    <3>7. Covered(a)'
      BY <3>3, <3>4, <3>5, <3>6 DEF Covered
    <3> QED
      BY <3>7 DEF Kept
  <2>3. CASE ~Ends(code[p]) /\ a = p + 1
    <3>1. offset' = a /\ Tracing'
      BY <1>2, <1>8, <2>3 DEF Tracing
    <3> QED
      BY <3>1 DEF Kept
  <2> QED
    BY <2>1, <2>2, <2>3 DEF Flow, Targets
<1>16. \A c \in blocks' : c \in blocks \/ (Shaped(c) /\ \A a \in Flow(c[2] - 1) : Kept(a)')
  BY <1>3, <1>4, <1>8, <1>15
<1>17. TraceInv'
  BY <1>2, <1>8, <1>14, <1>16, TraceInvStays
<1> QED
  BY <1>10, <1>17

LEMMA RestKeeps ==
  ASSUME TypeOK, TraceInv, Rest
  PROVE  TypeOK' /\ TraceInv'
<1>1. /\ Tracing /\ offset <= Size /\ FlowFrom(offset) = {}
      /\ offset' = IF code[Size] = Prefix THEN Size ELSE End
      /\ code' = code /\ entries' = entries /\ code_paths' = code_paths
      /\ traceable' = traceable /\ blocks' = blocks /\ done' = done
  BY DEF Rest
<1>2. offset \in Addresses /\ offset' \in 1 .. End /\ ~done
  BY <1>1, Piece DEF TypeOK, TraceInv, Tracing
<1>3. TypeOK'
  BY <1>1, <1>2 DEF TypeOK
<1>4. \A a : Covered(a) => Covered(a)'
  <2>1. offset # End
    BY <1>2, Piece
  <2> QED
    BY <1>1, <2>1, CoveredStays
<1>5. PICK o : o = offset
  OBVIOUS
<1>6. Covered(o)'
  <2>1. FlowFrom(o)' = FlowFrom(o)
    BY <1>1, SameCode
  <2> QED
    BY <1>1, <1>2, <1>5, <2>1 DEF Covered
<1>7. ASSUME NEW a, Kept(a) PROVE Kept(a)'
  BY <1>1, <1>4, <1>5, <1>6, <1>7 DEF Kept
<1>8. TraceInv'
  BY <1>1, <1>2, <1>7, TraceInvStays
<1> QED
  BY <1>3, <1>8

LEMMA PathEndsKeeps ==
  ASSUME TypeOK, TraceInv, PathEnds
  PROVE  TypeOK' /\ TraceInv'
<1>1. /\ offset = End /\ offset' = NoPath /\ code_paths' = Append(code_paths, End)
      /\ code' = code /\ entries' = entries /\ traceable' = traceable
      /\ blocks' = blocks /\ done' = done
  BY DEF PathEnds
<1>2. /\ code_paths' \in Seq(Addresses \cup Outside)
      /\ ToSet(code_paths') = ToSet(code_paths) \cup {End}
  <2>1. code_paths \in Seq(Addresses \cup Outside) /\ End \in Addresses \cup Outside
    BY Piece DEF TypeOK
  <2> QED
    BY <1>1, <2>1, AppendSet
<1>3. TypeOK'
  BY <1>1, <1>2 DEF TypeOK
<1>4. \A a : Covered(a) => Covered(a)'
  <2>1. offset # Size
    BY <1>1, Piece
  <2> QED
    BY <1>1, <1>2, <2>1, CoveredStays
<1>5. ASSUME NEW a, Kept(a) PROVE Kept(a)'
  BY <1>1, <1>2, <1>4, <1>5 DEF Kept
<1>6. ~done
  BY <1>1, Piece DEF TraceInv, NoPath
<1>7. TraceInv'
  BY <1>1, <1>5, <1>6, TraceInvStays
<1> QED
  BY <1>3, <1>7

LEMMA TraceStep ==
  ASSUME TypeOK, TraceInv, Next
  PROVE  TypeOK' /\ TraceInv'
BY RoundKeeps, StartPathKeeps, PassOverKeeps, TraceBlockKeeps, RestKeeps, PathEndsKeeps DEF Next

-----------------------------------------------------------------------------
(* What has been traced in the end                                         *)

(* Reach is the least: it lies in every set that has the entries and is     *)
(* closed under the flow                                                   *)
LEMMA ReachIn ==
  ASSUME NEW C, entries \subseteq C, \A a \in C : Flow(a) \subseteq C
  PROVE  Reach \subseteq C
<1> DEFINE Eq(f) == f = [n \in 0 .. Size + 1 |-> IF n = 0 THEN entries
                           ELSE f[n - 1] \cup UNION {Flow(a) : a \in f[n - 1]}]
<1>1. PICK N \in Nat : N = Size + 1
  BY Piece
<1>2. PICK V : V = SUBSET C
  OBVIOUS
<1>3. PICK step : step = [p \in V \X (1 .. N) |-> p[1] \cup UNION {Flow(a) : a \in p[1]}]
  OBVIOUS
<1>4. step \in [V \X (1 .. N) -> V]
  <2>1. ASSUME NEW p \in V \X (1 .. N) PROVE p[1] \cup UNION {Flow(a) : a \in p[1]} \in V
    <3>1. p[1] \subseteq C
      BY <1>2
    <3>2. \A a \in p[1] : Flow(a) \subseteq C
      BY <3>1
    <3>3. UNION {Flow(a) : a \in p[1]} \subseteq C
      BY <3>2
    <3> QED
      BY <1>2, <3>1, <3>3
  <2> QED
    BY <1>3, <2>1
<1>5. \A v \in V, n \in 1 .. N : step[<<v, n>>] = v \cup UNION {Flow(a) : a \in v}
  BY <1>3
<1>6. PICK base \in V : base = entries
  BY <1>2
<1>7. PICK f \in [0 .. N -> V] : Recurs(f, N, base, step)
  BY <1>4, Recursion, Zenon
<1>8. \A n \in 0 .. N : f[n] = IF n = 0 THEN entries
                               ELSE f[n - 1] \cup UNION {Flow(a) : a \in f[n - 1]}
  <2> TAKE n \in 0 .. N
  <2>1. CASE n = 0
    BY <1>6, <1>7, <2>1 DEF Recurs
  <2>2. CASE n # 0
    <3>1. n \in 1 .. N /\ f[n - 1] \in V
      BY <2>2
    <3>2. f[n] = step[<<f[n - 1], n>>]
      BY <1>7, <3>1 DEF Recurs
    <3> QED
      BY <1>5, <2>2, <3>1, <3>2
  <2> QED
    BY <2>1, <2>2
<1>9. Eq(f)
  <2>1. f = [n \in 0 .. N |-> f[n]]
    OBVIOUS
  <2> QED
    BY <1>1, <1>8, <2>1
<1>10. PICK h : h = CHOOSE g : Eq(g)
  OBVIOUS
<1>11. Eq(h)
  <2> HIDE DEF Eq
  <2> QED
    BY <1>9, <1>10
<1>12. Reach = h[N]
  BY <1>1, <1>10 DEF Reach
<1>13. h = [n \in 0 .. N |-> h[n]]
  BY <1>1, <1>11
<1>14. RecursIn(h, N, V, base, step)
  <2>1. \A n \in 0 .. N : h[n] = IF n = 0 THEN entries
                                 ELSE h[n - 1] \cup UNION {Flow(a) : a \in h[n - 1]}
    BY <1>1, <1>11
  <2>2. h[0] = base
    <3>1. 0 \in 0 .. N
      OBVIOUS
    <3>2. h[0] = entries
      BY <2>1, <3>1
    <3> QED
      BY <1>6, <3>2
  <2>3. ASSUME NEW n \in 1 .. N, h[n - 1] \in V PROVE h[n] = step[<<h[n - 1], n>>]
    <3>1. n \in 0 .. N /\ n # 0
      OBVIOUS
    <3>2. h[n] = h[n - 1] \cup UNION {Flow(a) : a \in h[n - 1]}
      BY <2>1, <3>1
    <3> QED
      BY <1>5, <2>3, <3>2
  <2> QED
    BY <2>2, <2>3 DEF RecursIn
<1>15. h \in [0 .. N -> V]
  BY <1>4, <1>13, <1>14, RecursiveFunction, Zenon
<1>16. h[N] \in V
  BY <1>15
<1> QED
  BY <1>2, <1>12, <1>16

LEMMA InTheEnd ==
  ASSUME TypeOK, TraceInv, done
  PROVE  /\ Reach \subseteq {a \in Addresses : Covered(a)} \cup ToSet(code_paths)
         /\ ToSet(code_paths) \cap Addresses = {}
         /\ \A a \in Addresses : Covered(a) /\ code[a].kind # "plain" => Found(a, blocks)
<1> DEFINE C == {a \in Addresses : Covered(a)} \cup ToSet(code_paths)
<1>1. ~Tracing /\ offset = NoPath /\ ToSet(traceable) = {} /\ ToSet(code_paths) \cap Addresses = {}
  BY DEF TraceInv, Tracing, ToSet
<1>2. \A a : Kept(a) => a \in C
  BY <1>1 DEF Kept, Covered
<1>3. offset # Size /\ offset # End
  BY <1>1, Piece DEF NoPath
<1>4. \A a \in Addresses :
        /\ code[a] \in Instructions \cup {Prefix}
        /\ code[a].kind = "prefix" <=> code[a] = Prefix
        /\ code[a] = Prefix => a = Size
        /\ code[a].kind \in {"plain", "prefix"} => Goes(code[a]) = {} /\ ~Ends(code[a])
  BY CodeIs, InstructionIs DEF TypeOK
(* A covered instruction that directs the flow is the last of a block *)
<1>5. ASSUME NEW a \in Addresses, Covered(a), code[a].kind \notin {"plain", "prefix"}
      PROVE  \E b \in blocks : b[2] - 1 = a /\ Found(a, blocks)
  <2>1. a \in FlowFrom(a) /\ Min(FlowFrom(a)) = a
    <3>1. a \in FlowFrom(a)
      BY <1>5, Piece DEF FlowFrom
    <3>2. Min(FlowFrom(a)) <= a /\ a <= Min(FlowFrom(a)) /\ Min(FlowFrom(a)) \in Addresses
      BY <3>1, FlowFromIs
    <3> QED
      BY <3>1, <3>2, Piece
  <2>2. Found(a, blocks)
    BY <1>5, <2>1 DEF Covered
  <2>3. PICK b \in blocks : b[1] <= a /\ a < b[2]
    BY <2>2 DEF Found
  <2>4. b[1] \in Addresses /\ Shaped(b)
    BY DEF TypeOK, TraceInv
  <2> QED
    BY <2>1, <2>2, <2>3, <2>4, InBlock
(* No covered path comes to a prefix at the end *)
<1>6. ASSUME NEW a \in Addresses, Covered(a), code[a].kind \in {"plain", "prefix"}
      PROVE  code[a].kind = "plain" /\ a + 1 \in C
  <2>1. CASE a = Size
    <3>1. FlowFrom(a) = {}
      <4>1. \A p \in Size .. Size : p = Size
        BY Piece
      <4> QED
        BY <1>6, <2>1, <4>1 DEF FlowFrom
    <3>2. code[Size] # Prefix /\ End \in ToSet(code_paths)
      BY <1>3, <1>6, <3>1 DEF Covered
    <3> QED
      BY <1>4, <1>6, <2>1, <3>2, Piece
  <2>2. CASE a # Size
    <3>1. a \notin FlowFrom(a)
      BY <1>6 DEF FlowFrom
    <3>2. a + 1 \in Addresses /\ FlowFrom(a + 1) = FlowFrom(a)
      BY <2>2, <3>1, FlowFromNext
    <3>3. Covered(a + 1)
      BY <1>6, <3>2 DEF Covered
    <3> QED
      BY <1>4, <1>6, <2>2, <3>2, <3>3
  <2> QED
    BY <2>1, <2>2
<1>7. ASSUME NEW a \in C PROVE Flow(a) \subseteq C
  <2>1. CASE a \notin Addresses
    BY <2>1 DEF Flow
  <2>2. CASE a \in Addresses /\ code[a].kind \notin {"plain", "prefix"}
    <3>1. PICK b \in blocks : b[2] - 1 = a
      BY <1>1, <1>5, <1>7, <2>2
    <3>2. \A t \in Flow(a) : Kept(t)
      BY <3>1 DEF TraceInv
    <3> QED
      BY <1>2, <3>2
  <2>3. CASE a \in Addresses /\ code[a].kind \in {"plain", "prefix"}
    <3>1. a + 1 \in C /\ Goes(code[a]) = {}
      BY <1>1, <1>4, <1>6, <1>7, <2>3
    <3> QED
      BY <3>1 DEF Flow
  <2> QED
    BY <2>1, <2>2, <2>3
<1>8. entries \subseteq C
  BY <1>2 DEF TraceInv
<1>9. Reach \subseteq C
  <2> HIDE DEF C
  <2> QED
    BY <1>7, <1>8, ReachIn
<1>10. ASSUME NEW a \in Addresses, Covered(a), code[a].kind # "plain" PROVE Found(a, blocks)
  BY <1>5, <1>6, <1>10
<1> QED
  BY <1>1, <1>9, <1>10

LEMMA TracedAll ==
  ASSUME TypeOK, TraceInv
  PROVE  Complete /\ Handover
<1> SUFFICES ASSUME done PROVE Complete /\ Handover
  BY DEF Complete, Handover
<1> QED
  BY InTheEnd DEF Complete, Handover

-----------------------------------------------------------------------------
(* The image                                                               *)

LEMMA MaxAddrIs == Elf!MaxAddr \in Nat
BY SMT DEF Elf!MaxAddr

LEMMA ElfStart ==
  Elf!Init => Elf!ElfInv
<1> SUFFICES ASSUME Elf!Init PROVE Elf!ElfInv
  OBVIOUS
<1>1. /\ image \in Images /\ bias \in Biases /\ state = "new"
      /\ prf_base = Elf!MaxAddr /\ visited = 0 /\ sections = <<>>
  BY DEF Elf!Init
<1>2. Elf!WellFormed(image) /\ bias \in Int
  BY <1>1, ImagesAssumption
<1>3. Elf!TypeOK
  <2>1. image.phdrs \in Seq(Elf!Phdrs)
    BY <1>2 DEF Elf!WellFormed
  <2> QED
    BY <1>1, <2>1, MaxAddrIs DEF Elf!TypeOK
<1> QED
  BY <1>1, <1>2, <1>3 DEF Elf!ElfInv, Elf!Ready

LEMMA PhdrIs ==
  ASSUME Elf!ElfInv
  PROVE  /\ Len(image.phdrs) \in Nat
         /\ DOMAIN image.phdrs = 1 .. Len(image.phdrs)
         /\ \A k \in 1 .. Len(image.phdrs) :
              /\ image.phdrs[k] \in Elf!Phdrs
              /\ image.phdrs[k].vaddr \in Nat /\ image.phdrs[k].vaddr < Elf!MaxAddr
              /\ image.phdrs[k].memsz \in Nat
              /\ image.phdrs[k].flags \in SUBSET {"R", "W", "X"}
<1>1. image.phdrs \in Seq(Elf!Phdrs)
  BY DEF Elf!ElfInv, Elf!WellFormed
<1>2. \A k \in 1 .. Len(image.phdrs) : image.phdrs[k] \in Elf!Phdrs
  BY <1>1
<1>3. \A p \in Elf!Phdrs : /\ p.vaddr \in Nat /\ p.vaddr < Elf!MaxAddr /\ p.memsz \in Nat
                           /\ p.flags \in SUBSET {"R", "W", "X"}
  BY MaxAddrIs DEF Elf!Phdrs
<1> QED
  BY <1>1, <1>2, <1>3

(* One program header more *)
LEMMA NextHeader ==
  ASSUME Elf!ElfInv, Elf!Visiting
  PROVE  /\ visited + 1 \in 1 .. Len(image.phdrs)
         /\ Elf!Phdr = image.phdrs[visited + 1]
         /\ Elf!SelectedOf(visited + 1)
              = Elf!SelectedOf(visited) \cup (IF Elf!Selected(Elf!Phdr) THEN {visited + 1} ELSE {})
<1>1. visited \in Nat /\ visited + 1 \in 1 .. Len(image.phdrs)
  BY PhdrIs DEF Elf!ElfInv, Elf!TypeOK, Elf!Visiting
<1>2. Elf!Phdr = image.phdrs[visited + 1]
  BY DEF Elf!Phdr
<1>3. 1 .. visited + 1 = (1 .. visited) \cup {visited + 1}
  BY <1>1
<1> QED
  BY <1>1, <1>2, <1>3 DEF Elf!SelectedOf

LEMMA CheckMagicKeeps == Elf!ElfInv /\ Elf!CheckMagic => Elf!ElfInv'
<1> SUFFICES ASSUME Elf!ElfInv, Elf!CheckMagic PROVE Elf!ElfInv'
  OBVIOUS
<1>1. /\ state = "new" /\ state' \in {"magic", "thrown"} /\ image' = image /\ bias' = bias
      /\ prf_base' = prf_base /\ visited' = visited /\ sections' = sections
  BY DEF Elf!CheckMagic
<1>2. Elf!WellFormed(image)' /\ bias' \in Int
  BY <1>1 DEF Elf!ElfInv, Elf!WellFormed, Elf!Loads
<1>3. Elf!TypeOK'
  BY <1>1 DEF Elf!ElfInv, Elf!TypeOK
<1> QED
  BY <1>1, <1>2, <1>3 DEF Elf!ElfInv, Elf!Ready

LEMMA ReadHeaderKeeps == Elf!ElfInv /\ Elf!ReadHeader => Elf!ElfInv'
<1> SUFFICES ASSUME Elf!ElfInv, Elf!ReadHeader PROVE Elf!ElfInv'
  OBVIOUS
<1>1. /\ state = "magic" /\ state' = "header" /\ image' = image /\ bias' = bias
      /\ prf_base' = Elf!MaxAddr /\ visited' = 0 /\ sections' = sections
  BY DEF Elf!ReadHeader
<1>2. Elf!WellFormed(image)' /\ bias' \in Int
  BY <1>1 DEF Elf!ElfInv, Elf!WellFormed, Elf!Loads
<1>3. Elf!TypeOK'
  <2>1. sections = <<>> /\ Len(sections) = 0
    BY <1>1 DEF Elf!ElfInv, Elf!Ready
  <2> QED
    BY <1>1, <2>1, PhdrIs, MaxAddrIs DEF Elf!ElfInv, Elf!TypeOK
<1>4. Elf!BaseOf(visited)'
  BY <1>1 DEF Elf!BaseOf, Elf!SelectedOf
<1> QED
  BY <1>1, <1>2, <1>3, <1>4 DEF Elf!ElfInv, Elf!Ready

LEMMA NoImageKeeps == Elf!ElfInv /\ Elf!NoImage => Elf!ElfInv'
<1> SUFFICES ASSUME Elf!ElfInv, Elf!NoImage PROVE Elf!ElfInv'
  OBVIOUS
<1>1. /\ state = "magic" /\ state' = "null" /\ image' = image /\ bias' = bias
      /\ prf_base' = prf_base /\ visited' = visited /\ sections' = sections
  BY DEF Elf!NoImage
<1>2. Elf!WellFormed(image)' /\ bias' \in Int
  BY <1>1 DEF Elf!ElfInv, Elf!WellFormed, Elf!Loads
<1>3. Elf!TypeOK'
  BY <1>1 DEF Elf!ElfInv, Elf!TypeOK
<1> QED
  BY <1>1, <1>2, <1>3 DEF Elf!ElfInv, Elf!Ready

LEMMA ReadFailsKeeps == Elf!ElfInv /\ Elf!ReadFails => Elf!ElfInv'
<1> SUFFICES ASSUME Elf!ElfInv, Elf!ReadFails PROVE Elf!ElfInv'
  OBVIOUS
<1>1. /\ image' = image /\ bias' = bias
      /\ prf_base' = prf_base /\ visited' = visited /\ sections' = sections
      /\ \/ state \in {"magic", "header"} /\ state' = "thrown"
         \/ state = "listing" /\ state' = "ready"
  BY DEF Elf!ReadFails
<1>2. Elf!WellFormed(image)' /\ bias' \in Int
  BY <1>1 DEF Elf!ElfInv, Elf!WellFormed, Elf!Loads
<1>3. Elf!TypeOK'
  BY <1>1 DEF Elf!ElfInv, Elf!TypeOK
<1>4. Elf!BaseOf(Len(image.phdrs)) => Elf!BaseOf(Len(image.phdrs))'
  BY <1>1 DEF Elf!BaseOf, Elf!SelectedOf
<1> QED
  BY <1>1, <1>2, <1>3, <1>4 DEF Elf!ElfInv, Elf!Ready

LEMMA VisitForBaseKeeps == Elf!ElfInv /\ Elf!VisitForBase => Elf!ElfInv'
<1> SUFFICES ASSUME Elf!ElfInv, Elf!VisitForBase PROVE Elf!ElfInv'
  OBVIOUS
<1> DEFINE phdr == Elf!Phdr
<1>1. /\ state = "header" /\ state' = "header" /\ Elf!Visiting /\ image' = image /\ bias' = bias
      /\ visited' = visited + 1 /\ sections' = sections
      /\ prf_base' = IF Elf!Selected(phdr) /\ phdr.vaddr < prf_base THEN phdr.vaddr ELSE prf_base
  BY DEF Elf!VisitForBase, Elf!Visited
<1>2. /\ visited + 1 \in 1 .. Len(image.phdrs) /\ phdr = image.phdrs[visited + 1]
      /\ Elf!SelectedOf(visited + 1)
           = Elf!SelectedOf(visited) \cup (IF Elf!Selected(phdr) THEN {visited + 1} ELSE {})
  BY <1>1, NextHeader
<1> HIDE DEF phdr
<1>3. phdr.vaddr \in Nat /\ phdr.vaddr < Elf!MaxAddr
  BY <1>2, PhdrIs
<1>4. prf_base \in Nat /\ prf_base <= Elf!MaxAddr
  BY MaxAddrIs DEF Elf!ElfInv, Elf!TypeOK
<1>5. Elf!WellFormed(image)' /\ bias' \in Int
  BY <1>1 DEF Elf!ElfInv, Elf!WellFormed, Elf!Loads
<1>6. Elf!TypeOK'
  <2>1. prf_base' \in 0 .. Elf!MaxAddr
    BY <1>1, <1>3, <1>4, MaxAddrIs
  <2>2. visited' \in 0 .. Len(image.phdrs) /\ Len(sections) <= visited'
    BY <1>1, <1>2, PhdrIs DEF Elf!ElfInv, Elf!TypeOK
  <2> QED
    BY <1>1, <2>1, <2>2 DEF Elf!ElfInv, Elf!TypeOK
<1>7. Elf!BaseOf(visited)'
  <2>1. Elf!BaseOf(visited)
    BY <1>1 DEF Elf!ElfInv
  <2>2. Elf!SelectedOf(visited)' = Elf!SelectedOf(visited + 1)
    BY <1>1 DEF Elf!SelectedOf
  <2>3. \A k \in Elf!SelectedOf(visited) :
          image.phdrs[k].vaddr \in Nat /\ prf_base <= image.phdrs[k].vaddr
    BY <1>2, <2>1, PhdrIs DEF Elf!BaseOf, Elf!SelectedOf
  <2>4. CASE Elf!Selected(phdr) /\ phdr.vaddr < prf_base
    <3>1. prf_base' = phdr.vaddr /\ visited + 1 \in Elf!SelectedOf(visited + 1)
      BY <1>1, <1>2, <2>4
    <3>2. \A k \in Elf!SelectedOf(visited + 1) : prf_base' <= image.phdrs[k].vaddr
      BY <1>2, <1>3, <1>4, <2>3, <2>4, <3>1
    <3> QED
      BY <1>1, <1>2, <2>2, <3>1, <3>2 DEF Elf!BaseOf
  <2>5. CASE ~(Elf!Selected(phdr) /\ phdr.vaddr < prf_base)
    <3>1. prf_base' = prf_base
      BY <1>1, <2>5
    <3>2. \A k \in Elf!SelectedOf(visited + 1) : prf_base <= image.phdrs[k].vaddr
      BY <1>2, <1>3, <1>4, <2>3, <2>5
    <3>3. Elf!SelectedOf(visited) \subseteq Elf!SelectedOf(visited + 1)
      BY <1>2
    <3>4. Elf!MaxAddr' = Elf!MaxAddr
      OBVIOUS
    <3> QED
      BY <1>1, <2>1, <2>2, <3>1, <3>2, <3>3, <3>4 DEF Elf!BaseOf
  <2> QED
    BY <2>4, <2>5
<1> QED
  BY <1>1, <1>5, <1>6, <1>7 DEF Elf!ElfInv, Elf!Ready

LEMMA BaseFoundKeeps == Elf!ElfInv /\ Elf!BaseFound => Elf!ElfInv'
<1> SUFFICES ASSUME Elf!ElfInv, Elf!BaseFound PROVE Elf!ElfInv'
  OBVIOUS
<1>1. /\ state = "header" /\ state' = "ready" /\ ~Elf!Visiting /\ image' = image /\ bias' = bias
      /\ prf_base' = prf_base /\ visited' = visited /\ sections' = sections
  BY DEF Elf!BaseFound
<1>2. visited = Len(image.phdrs)
  BY <1>1, PhdrIs DEF Elf!ElfInv, Elf!TypeOK, Elf!Visiting
<1>3. Elf!WellFormed(image)' /\ bias' \in Int
  BY <1>1 DEF Elf!ElfInv, Elf!WellFormed, Elf!Loads
<1>4. Elf!TypeOK'
  BY <1>1 DEF Elf!ElfInv, Elf!TypeOK
<1>5. Elf!BaseOf(Len(image.phdrs))'
  <2>1. Elf!BaseOf(Len(image.phdrs))
    BY <1>1, <1>2 DEF Elf!ElfInv
  <2> QED
    BY <1>1, <2>1 DEF Elf!BaseOf, Elf!SelectedOf
<1> QED
  BY <1>1, <1>3, <1>4, <1>5 DEF Elf!ElfInv, Elf!Ready

LEMMA ListSectionsKeeps == Elf!ElfInv /\ Elf!ListSections => Elf!ElfInv'
<1> SUFFICES ASSUME Elf!ElfInv, Elf!ListSections PROVE Elf!ElfInv'
  OBVIOUS
<1>1. /\ state \in {"ready", "listed"} /\ state' = "listing" /\ image' = image /\ bias' = bias
      /\ prf_base' = prf_base /\ visited' = 0 /\ sections' = <<>>
  BY DEF Elf!ListSections
<1>2. Elf!WellFormed(image)' /\ bias' \in Int
  BY <1>1 DEF Elf!ElfInv, Elf!WellFormed, Elf!Loads
<1>3. Elf!TypeOK'
  <2>1. <<>> \in Seq([flags : SUBSET {"R", "W", "X"}, vaddr : Int, vsize : Nat]) /\ Len(<<>>) = 0
    OBVIOUS
  <2> QED
    BY <1>1, <2>1, PhdrIs DEF Elf!ElfInv, Elf!TypeOK
<1>4. Elf!BaseOf(Len(image.phdrs))'
  <2>1. Elf!BaseOf(Len(image.phdrs))
    BY <1>1 DEF Elf!ElfInv, Elf!Ready
  <2> QED
    BY <1>1, <2>1 DEF Elf!BaseOf, Elf!SelectedOf
<1>5. Elf!SectionsOf(visited)'
  <2>1. DOMAIN <<>> = {}
    OBVIOUS
  <2>2. 1 .. 0 = {}
    OBVIOUS
  <2> QED
    BY <1>1, <2>1, <2>2 DEF Elf!SectionsOf, Elf!SelectedOf, Elf!ToSet
<1> QED
  BY <1>1, <1>2, <1>3, <1>4, <1>5 DEF Elf!ElfInv, Elf!Ready

LEMMA VisitForSectionsKeeps == Elf!ElfInv /\ Elf!VisitForSections => Elf!ElfInv'
<1> SUFFICES ASSUME Elf!ElfInv, Elf!VisitForSections PROVE Elf!ElfInv'
  OBVIOUS
<1> DEFINE phdr == Elf!Phdr
           s == [flags |-> phdr.flags, vaddr |-> phdr.vaddr - prf_base, vsize |-> phdr.memsz]
           Sections == [flags : SUBSET {"R", "W", "X"}, vaddr : Int, vsize : Nat]
<1>1. /\ state = "listing" /\ state' = "listing" /\ Elf!Visiting /\ image' = image /\ bias' = bias
      /\ visited' = visited + 1 /\ prf_base' = prf_base
      /\ sections' = IF Elf!Selected(phdr) THEN Append(sections, s) ELSE sections
  BY DEF Elf!VisitForSections, Elf!Visited
<1>2. /\ visited + 1 \in 1 .. Len(image.phdrs) /\ phdr = image.phdrs[visited + 1]
      /\ Elf!SelectedOf(visited + 1)
           = Elf!SelectedOf(visited) \cup (IF Elf!Selected(phdr) THEN {visited + 1} ELSE {})
  BY <1>1, NextHeader
<1>3. s = Elf!SectionOf(visited + 1)
  BY <1>2 DEF Elf!SectionOf
<1>4. s \in Sections
  <2>1. phdr.vaddr \in Nat /\ phdr.memsz \in Nat /\ phdr.flags \in SUBSET {"R", "W", "X"}
    BY <1>2, PhdrIs
  <2>2. prf_base \in Nat
    BY MaxAddrIs DEF Elf!ElfInv, Elf!TypeOK
  <2> HIDE DEF phdr
  <2> QED
    BY <2>1, <2>2
<1> HIDE DEF s, phdr
<1>5. sections \in Seq(Sections) /\ Len(sections) \in Nat /\ Len(sections) <= visited /\ visited \in Nat
  <2>1. sections \in Seq(Sections)
    BY DEF Elf!ElfInv, Elf!TypeOK
  <2> QED
    BY <2>1, PhdrIs DEF Elf!ElfInv, Elf!TypeOK
<1>6. /\ sections' \in Seq(Sections) /\ Len(sections') <= visited + 1
      /\ Elf!ToSet(sections') = Elf!ToSet(sections) \cup (IF Elf!Selected(phdr) THEN {s} ELSE {})
  <2>1. CASE Elf!Selected(phdr)
    <3>1. sections' = Append(sections, s)
      BY <1>1, <2>1
    <3>2. Append(sections, s) \in Seq(Sections) /\ Len(Append(sections, s)) = Len(sections) + 1
      <4> HIDE DEF Sections
      <4> QED
        BY <1>4, <1>5
    <3>3. ToSet(Append(sections, s)) = ToSet(sections) \cup {s}
      <4> HIDE DEF Sections
      <4> QED
        BY <1>5, AppendSet
    <3>4. \A q : Elf!ToSet(q) = ToSet(q)
      BY DEF Elf!ToSet, ToSet
    <3> QED
      BY <1>5, <2>1, <3>1, <3>2, <3>3, <3>4
  <2>2. CASE ~Elf!Selected(phdr)
    BY <1>1, <1>5, <2>2
  <2> QED
    BY <2>1, <2>2
<1>7. Elf!WellFormed(image)' /\ bias' \in Int
  BY <1>1 DEF Elf!ElfInv, Elf!WellFormed, Elf!Loads
<1>8. Elf!TypeOK'
  <2>1. visited' \in 0 .. Len(image.phdrs)
    BY <1>1, <1>2, PhdrIs
  <2> QED
    BY <1>1, <1>6, <2>1 DEF Elf!ElfInv, Elf!TypeOK
<1>9. Elf!BaseOf(Len(image.phdrs))'
  <2>1. Elf!BaseOf(Len(image.phdrs))
    BY <1>1 DEF Elf!ElfInv, Elf!Ready
  <2> QED
    BY <1>1, <2>1 DEF Elf!BaseOf, Elf!SelectedOf
<1>10. Elf!SectionsOf(visited)'
  <2>1. Elf!SectionsOf(visited)
    BY <1>1 DEF Elf!ElfInv
  <2>2. /\ Elf!SelectedOf(visited)' = Elf!SelectedOf(visited + 1)
        /\ \A k : Elf!SectionOf(k)' = Elf!SectionOf(k)
    BY <1>1 DEF Elf!SelectedOf, Elf!SectionOf
  <2>3. Elf!ToSet(sections') = {Elf!SectionOf(k) : k \in Elf!SelectedOf(visited + 1)}
    BY <1>2, <1>3, <1>6, <2>1 DEF Elf!SectionsOf
  <2> QED
    BY <2>2, <2>3 DEF Elf!SectionsOf
<1> QED
  BY <1>1, <1>7, <1>8, <1>9, <1>10 DEF Elf!ElfInv, Elf!Ready

LEMMA SectionsListedKeeps == Elf!ElfInv /\ Elf!SectionsListed => Elf!ElfInv'
<1> SUFFICES ASSUME Elf!ElfInv, Elf!SectionsListed PROVE Elf!ElfInv'
  OBVIOUS
<1>1. /\ state = "listing" /\ state' = "listed" /\ ~Elf!Visiting /\ image' = image /\ bias' = bias
      /\ prf_base' = prf_base /\ visited' = visited /\ sections' = sections
  BY DEF Elf!SectionsListed
<1>2. visited = Len(image.phdrs)
  BY <1>1, PhdrIs DEF Elf!ElfInv, Elf!TypeOK, Elf!Visiting
<1>3. Elf!WellFormed(image)' /\ bias' \in Int
  BY <1>1 DEF Elf!ElfInv, Elf!WellFormed, Elf!Loads
<1>4. Elf!TypeOK'
  BY <1>1 DEF Elf!ElfInv, Elf!TypeOK
<1>5. Elf!BaseOf(Len(image.phdrs))'
  <2>1. Elf!BaseOf(Len(image.phdrs))
    BY <1>1 DEF Elf!ElfInv, Elf!Ready
  <2> QED
    BY <1>1, <2>1 DEF Elf!BaseOf, Elf!SelectedOf
<1>6. Elf!SectionsOf(Len(image.phdrs))'
  <2>1. Elf!SectionsOf(Len(image.phdrs))
    BY <1>1, <1>2 DEF Elf!ElfInv
  <2>2. /\ Elf!SelectedOf(Len(image.phdrs))' = Elf!SelectedOf(Len(image.phdrs))
        /\ \A k : Elf!SectionOf(k)' = Elf!SectionOf(k)
    BY <1>1 DEF Elf!SelectedOf, Elf!SectionOf
  <2> QED
    BY <1>1, <2>1, <2>2 DEF Elf!SectionsOf
<1> QED
  BY <1>1, <1>3, <1>4, <1>5, <1>6 DEF Elf!ElfInv, Elf!Ready

LEMMA ElfStep == Elf!ElfInv /\ Elf!Next => Elf!ElfInv'
BY CheckMagicKeeps, ReadHeaderKeeps, NoImageKeeps, ReadFailsKeeps, VisitForBaseKeeps, BaseFoundKeeps,
   ListSectionsKeeps, VisitForSectionsKeeps, SectionsListedKeeps DEF Elf!Next

LEMMA SegmentIs ==
  ASSUME Elf!ElfInv
  PROVE  /\ \A k \in Elf!Loads(image) : k \in 1 .. Len(image.phdrs) /\ image.phdrs[k].type = "LOAD"
         /\ Elf!Lowest(image) \in Nat
         /\ \E k \in Elf!Loads(image) : image.phdrs[k].vaddr = Elf!Lowest(image)
         /\ \A k \in Elf!Loads(image) : Elf!Lowest(image) <= image.phdrs[k].vaddr
<1> DEFINE S == {image.phdrs[k].vaddr : k \in Elf!Loads(image)}
<1>1. \A k \in Elf!Loads(image) : k \in 1 .. Len(image.phdrs) /\ image.phdrs[k].type = "LOAD"
  BY PhdrIs DEF Elf!Loads
<1>2. S \in SUBSET Nat
  BY <1>1, PhdrIs
<1>3. S # {}
  <2>1. Elf!Loads(image) # {}
    BY DEF Elf!ElfInv, Elf!WellFormed
  <2> QED
    BY <2>1
<1>4. PICK m \in S : \A k \in S : m <= k
  BY <1>2, <1>3, Least
<1>5. Elf!Lowest(image) \in S /\ \A k \in S : Elf!Lowest(image) <= k
  <2>1. Elf!Lowest(image) = CHOOSE x \in S : \A y \in S : x <= y
    BY DEF Elf!Lowest, Elf!Min
  <2> HIDE DEF S
  <2> QED
    BY <1>4, <2>1
<1> QED
  BY <1>1, <1>2, <1>5

(* The base is the lowest of the segments in a classic file *)
LEMMA BaseIsLowest ==
  ASSUME Elf!ElfInv, Elf!Ready, Elf!Classic
  PROVE  /\ prf_base = Elf!Lowest(image)
         /\ \A k \in Elf!SelectedOf(Len(image.phdrs)) : k \in Elf!Loads(image)
<1> DEFINE all == Elf!SelectedOf(Len(image.phdrs))
<1>1. ASSUME NEW k \in all PROVE k \in Elf!Loads(image)
  <2>1. k \in DOMAIN image.phdrs /\ "X" \in image.phdrs[k].flags
    BY PhdrIs DEF Elf!SelectedOf, Elf!Selected
  <2>2. image.phdrs[k].type = "LOAD"
    BY <2>1 DEF Elf!Classic
  <2> QED
    BY <2>1, <2>2 DEF Elf!Loads
<1>2. PICK k \in Elf!Loads(image) : image.phdrs[k].vaddr = Elf!Lowest(image)
  BY SegmentIs
<1>3. k \in all
  <2>1. k \in DOMAIN image.phdrs /\ k \in 1 .. Len(image.phdrs) /\ image.phdrs[k].type = "LOAD"
    BY <1>2, SegmentIs, PhdrIs
  <2>2. "X" \in image.phdrs[k].flags
    BY <1>2, <2>1 DEF Elf!Classic
  <2> QED
    BY <2>1, <2>2 DEF Elf!SelectedOf, Elf!Selected
<1>4. Elf!BaseOf(Len(image.phdrs))
  BY DEF Elf!ElfInv
<1>5. prf_base <= Elf!Lowest(image)
  BY <1>2, <1>3, <1>4 DEF Elf!BaseOf
<1>6. prf_base \in Nat /\ prf_base # Elf!MaxAddr
  <2>1. Elf!Lowest(image) < Elf!MaxAddr /\ Elf!Lowest(image) \in Nat
    BY <1>2, SegmentIs, PhdrIs
  <2> QED
    BY <1>5, <2>1, MaxAddrIs DEF Elf!ElfInv, Elf!TypeOK
<1>7. Elf!Lowest(image) <= prf_base
  <2>1. PICK j \in all : prf_base = image.phdrs[j].vaddr
    BY <1>4, <1>6 DEF Elf!BaseOf
  <2> QED
    BY <1>1, <2>1, SegmentIs
<1> QED
  BY <1>1, <1>5, <1>6, <1>7, SegmentIs

LEMMA ImageSays ==
  ASSUME Elf!ElfInv
  PROVE  Elf!EntryAddress /\ Elf!EntryListed /\ Elf!SectionsInPlace
<1>1. image.entry \in Int /\ bias \in Int /\ prf_base \in Int /\ Elf!Lowest(image) \in Int
  BY SegmentIs, MaxAddrIs DEF Elf!ElfInv, Elf!WellFormed, Elf!TypeOK
<1>2. Elf!EntryAddress
  <2> SUFFICES ASSUME Elf!Ready, Elf!Classic PROVE Elf!ImageBase + Elf!EntryPoint = bias + image.entry
    BY DEF Elf!EntryAddress
  <2>1. prf_base = Elf!Lowest(image)
    BY BaseIsLowest
  <2> QED
    BY <1>1, <2>1 DEF Elf!ImageBase, Elf!EntryPoint
<1>3. ASSUME state = "listed"
      PROVE  Elf!ToSet(sections) = {Elf!SectionOf(k) : k \in Elf!SelectedOf(Len(image.phdrs))}
  BY <1>3 DEF Elf!ElfInv, Elf!SectionsOf
<1>4. Elf!EntryListed
  <2> SUFFICES ASSUME state = "listed"
               PROVE  \E k \in DOMAIN sections :
                        /\ {"R", "X"} \subseteq sections[k].flags
                        /\ sections[k].vaddr < Elf!EntryPoint
                        /\ Elf!EntryPoint <= sections[k].vaddr + sections[k].vsize
    BY DEF Elf!EntryListed
  <2>1. PICK k \in Elf!Loads(image) :
          /\ {"R", "X"} \subseteq image.phdrs[k].flags
          /\ image.phdrs[k].vaddr < image.entry
          /\ image.entry <= image.phdrs[k].vaddr + image.phdrs[k].memsz
    BY DEF Elf!ElfInv, Elf!WellFormed
  <2>2. k \in Elf!SelectedOf(Len(image.phdrs))
    BY <2>1, SegmentIs DEF Elf!SelectedOf, Elf!Selected
  <2>3. PICK j \in DOMAIN sections : sections[j] = Elf!SectionOf(k)
    <3>1. Elf!SectionOf(k) \in Elf!ToSet(sections)
      BY <1>3, <2>2
    <3> QED
      BY <3>1 DEF Elf!ToSet
  <2>4. /\ sections[j].flags = image.phdrs[k].flags /\ sections[j].vsize = image.phdrs[k].memsz
        /\ sections[j].vaddr = image.phdrs[k].vaddr - prf_base
    BY <2>3 DEF Elf!SectionOf
  <2>5. image.phdrs[k].vaddr \in Int /\ image.phdrs[k].memsz \in Int
    BY <2>1, SegmentIs, PhdrIs
  <2> QED
    BY <1>1, <2>1, <2>4, <2>5 DEF Elf!EntryPoint
<1>5. Elf!SectionsInPlace
  <2> SUFFICES ASSUME state = "listed", Elf!Classic, NEW j \in DOMAIN sections
               PROVE  Elf!Place(sections[j]) \in Elf!LoadPlaces
    BY DEF Elf!SectionsInPlace
  <2>1. PICK k \in Elf!SelectedOf(Len(image.phdrs)) : sections[j] = Elf!SectionOf(k)
    <3>1. sections[j] \in Elf!ToSet(sections)
      BY DEF Elf!ToSet
    <3> QED
      BY <1>3, <3>1
  <2>2. Elf!Ready
    BY DEF Elf!Ready
  <2>3. prf_base = Elf!Lowest(image) /\ k \in Elf!Loads(image)
    BY <2>1, <2>2, BaseIsLowest
  <2>4. sections[j].vsize = image.phdrs[k].memsz /\ sections[j].vaddr = image.phdrs[k].vaddr - prf_base
    BY <2>1 DEF Elf!SectionOf
  <2>5. image.phdrs[k].vaddr \in Int
    BY <2>3, SegmentIs, PhdrIs
  <2>6. Elf!Place(sections[j]) = <<bias + image.phdrs[k].vaddr, image.phdrs[k].memsz>>
    <3>1. Elf!ImageBase + sections[j].vaddr = bias + image.phdrs[k].vaddr
      BY <1>1, <2>3, <2>4, <2>5 DEF Elf!ImageBase
    <3> QED
      BY <2>4, <3>1 DEF Elf!Place
  <2> QED
    BY <2>3, <2>6 DEF Elf!LoadPlaces
<1> QED
  BY <1>2, <1>4, <1>5

-----------------------------------------------------------------------------
(* The client                                                              *)

LEMMA NoCode == \A c \in Codes : c # <<>>
<1>1. ASSUME NEW c \in Codes PROVE DOMAIN c = Addresses
  BY <1>1 DEF Codes
<1>2. DOMAIN <<>> = {} /\ Addresses # {}
  <2>1. DOMAIN <<>> = {}
    OBVIOUS
  <2> QED
    BY <2>1, Piece
<1> QED
  BY <1>1, <1>2

LEMMA ClientStart == ClientInit => ClientInv
<1> SUFFICES ASSUME ClientInit PROVE ClientInv
  OBVIOUS
<1>1. Elf!ElfInv
  BY ElfStart DEF ClientInit
<1>2. state = "new"
  BY DEF ClientInit, Elf!Init
<1> QED
  BY <1>1, <1>2 DEF ClientInit, ClientInv, Unread

LEMMA FindEntryKeeps ==
  ASSUME ClientInv, FindEntry
  PROVE  ClientInv'
<1>1. /\ Unread /\ state' = "gone"
      /\ code' = code /\ traceable' = traceable /\ offset' = offset
      /\ blocks' = blocks /\ done' = done
      /\ \E a \in Addresses : entries' = {a} /\ code_paths' = <<a>>
  BY DEF FindEntry
<1>2. Unread'
  BY <1>1 DEF Unread
<1> QED
  BY <1>1, <1>2 DEF ClientInv

LEMMA ReadSectionKeeps ==
  ASSUME ClientInv, ReadSection
  PROVE  ClientInv'
<1>1. /\ Unread /\ state = "gone" /\ code' \in Codes /\ state' = state /\ entries' = entries
      /\ code_paths' = code_paths /\ traceable' = traceable /\ offset' = offset
      /\ blocks' = blocks /\ done' = done
  BY DEF ReadSection, elf
<1>2. ~Unread'
  BY <1>1, NoCode DEF Unread
<1>3. traceable = <<>> /\ offset = NoPath /\ blocks = {} /\ done = FALSE
  BY <1>1 DEF ClientInv
<1>4. PICK a \in Addresses : entries = {a} /\ code_paths = <<a>>
  BY <1>1 DEF ClientInv
<1>5. TypeOK'
  <2>1. code_paths' \in Seq(Addresses \cup Outside)
    BY <1>1, <1>4
  <2>2. traceable' \in Seq(Addresses) /\ offset' \in {NoPath} \cup 1 .. End
    BY <1>1, <1>3
  <2>3. entries' \subseteq Addresses /\ blocks' = {} /\ done' = FALSE
    BY <1>1, <1>3, <1>4
  <2> QED
    BY <1>1, <2>1, <2>2, <2>3 DEF TypeOK
<1>6. TraceInv'
  <2>1. Kept(a)'
    <3>1. ToSet(<<a>>) = {a}
      BY DEF ToSet
    <3> QED
      BY <1>1, <1>4, <3>1 DEF Kept
  <2> QED
    BY <1>1, <1>3, <1>4, <2>1 DEF TraceInv
<1> QED
  BY <1>1, <1>2, <1>5, <1>6 DEF ClientInv

LEMMA ClientStep == ClientInv /\ [ClientNext]_<<vars, elf>> => ClientInv'
<1> SUFFICES ASSUME ClientInv, [ClientNext]_<<vars, elf>> PROVE ClientInv'
  OBVIOUS
<1>1. CASE UseImage
  <2>1. /\ Unread /\ Elf!Next /\ UNCHANGED vars
    BY <1>1 DEF UseImage
  <2>2. state # "gone" /\ state' # "gone"
    BY <2>1 DEF Elf!Next, Elf!CheckMagic, Elf!ReadHeader, Elf!NoImage, Elf!ReadFails,
                Elf!VisitForBase, Elf!BaseFound,
                Elf!ListSections, Elf!VisitForSections, Elf!SectionsListed
  <2>3. Elf!ElfInv'
    BY <2>1, <2>2, ElfStep DEF ClientInv
  <2>4. Unread' /\ traceable' = traceable /\ offset' = offset /\ blocks' = blocks /\ done' = done
    BY <2>1 DEF Unread, vars
  <2> QED
    BY <2>1, <2>2, <2>3, <2>4 DEF ClientInv
<1>2. CASE FindEntry
  BY <1>2, FindEntryKeeps
<1>3. CASE ReadSection
  BY <1>3, ReadSectionKeeps
<1>4. CASE Trace
  <2>1. ~Unread /\ Next /\ state' = state /\ TypeOK /\ TraceInv /\ state = "gone"
    BY <1>4 DEF Trace, elf, ClientInv
  <2>2. TypeOK' /\ TraceInv'
    BY <2>1, TraceStep
  <2>3. ~Unread'
    BY <2>2, NoCode DEF Unread, TypeOK
  <2> QED
    BY <2>1, <2>2, <2>3 DEF ClientInv
<1>5. CASE UNCHANGED <<vars, elf>>
  <2>1. /\ UNCHANGED <<code, entries, code_paths, traceable, offset, blocks, done>>
        /\ UNCHANGED <<image, bias, state, prf_base, visited, sections>>
    BY <1>5 DEF vars, elf
  <2>2. Unread' <=> Unread
    BY <2>1 DEF Unread
  <2>3. CASE Unread /\ state # "gone"
    <3>1. Elf!ElfInv
      BY <2>3 DEF ClientInv
    <3>2. Elf!ElfInv'
      BY <2>1, <3>1 DEF Elf!ElfInv, Elf!WellFormed, Elf!Loads, Elf!TypeOK, Elf!Ready, Elf!BaseOf,
                        Elf!SelectedOf, Elf!SectionsOf, Elf!SectionOf
    <3> QED
      BY <2>1, <2>2, <2>3, <3>2 DEF ClientInv
  <2>4. CASE Unread /\ state = "gone"
    BY <2>1, <2>2, <2>4 DEF ClientInv
  <2>5. CASE ~Unread
    <3>1. TypeOK /\ TraceInv /\ state = "gone"
      BY <2>5 DEF ClientInv
    <3>2. TypeOK'
      BY <2>1, <3>1 DEF TypeOK
    <3>3. \A a : Kept(a) => Kept(a)'
      <4>1. \A a : Covered(a) => Covered(a)'
        BY <2>1, CoveredStays
      <4> QED
        BY <2>1, <4>1 DEF Kept, Tracing
    <3>4. TraceInv'
      <4>1. done => traceable = <<>> /\ offset = NoPath /\ ToSet(code_paths) \cap Addresses = {}
        BY <3>1 DEF TraceInv
      <4> QED
        BY <2>1, <3>1, <3>3, <4>1, TraceInvStays
    <3> QED
      BY <2>1, <2>2, <2>5, <3>1, <3>2, <3>4 DEF ClientInv
  <2> QED
    BY <2>3, <2>4, <2>5
<1> QED
  BY <1>1, <1>2, <1>3, <1>4, <1>5 DEF ClientNext

(* The invariant of the client, of the image before it reads the section   *)
(* and of run_trace after                                                   *)
THEOREM ClientInvariant == ClientSpec => []ClientInv
<1> QED
  BY ClientStart, ClientStep, PTL DEF ClientSpec

LEMMA ClientKnows ==
  ClientInv => /\ ClientTypeOK /\ EntryAddress /\ EntryListed /\ SectionsInPlace
               /\ Complete /\ Handover
<1> SUFFICES ASSUME ClientInv
             PROVE  /\ ClientTypeOK /\ EntryAddress /\ EntryListed /\ SectionsInPlace
                    /\ Complete /\ Handover
  OBVIOUS
<1>1. CASE Unread /\ state # "gone"
  <2>1. Elf!ElfInv /\ ~done
    BY <1>1 DEF ClientInv
  <2>2. Elf!TypeOK
    BY <2>1 DEF Elf!ElfInv
  <2> QED
    BY <1>1, <2>1, <2>2, ImageSays
      DEF ClientTypeOK, EntryAddress, EntryListed, SectionsInPlace, Complete, Handover
<1>2. CASE state = "gone"
  <2>1. Elf!EntryAddress /\ Elf!EntryListed /\ Elf!SectionsInPlace
    BY <1>2 DEF Elf!EntryAddress, Elf!EntryListed, Elf!SectionsInPlace, Elf!Ready
  <2>2. CASE Unread
    BY <1>2, <2>1, <2>2
      DEF ClientInv, ClientTypeOK, EntryAddress, EntryListed, SectionsInPlace, Complete, Handover
  <2>3. CASE ~Unread
    <3>1. TypeOK /\ Complete /\ Handover
      BY <2>3, TracedAll DEF ClientInv
    <3> QED
      BY <1>2, <2>1, <3>1 DEF ClientTypeOK, EntryAddress, EntryListed, SectionsInPlace
  <2> QED
    BY <2>2, <2>3
<1>3. ~Unread => state = "gone"
  BY DEF ClientInv
<1> QED
  BY <1>1, <1>2, <1>3

(* Every variable of the image and of the tracer holds a value of its type *)
THEOREM ClientTypes == ClientSpec => []ClientTypeOK
<1> QED
  BY ClientInvariant, ClientKnows, PTL

(* image_base() + entry_point() is where the program starts, in every classic file *)
THEOREM ProgramStarts == ClientSpec => []EntryAddress
<1> QED
  BY ClientInvariant, ClientKnows, PTL

(* sections() has one that the entry point is in, which can be read and executed *)
THEOREM EntryIsListed == ClientSpec => []EntryListed
<1> QED
  BY ClientInvariant, ClientKnows, PTL

(* image_base() + vaddr is where a section is in the process, in every classic file *)
THEOREM SectionsAreThere == ClientSpec => []SectionsInPlace
<1> QED
  BY ClientInvariant, ClientKnows, PTL

(* run_trace misses no control flow, in every piece of code *)
THEOREM TraceIsComplete == ClientSpec => []Complete
<1> QED
  BY ClientInvariant, ClientKnows, PTL

(* run_trace leaves every address the flow goes on at, and none it has been to *)
THEOREM TraceHandsOver == ClientSpec => []Handover
<1> QED
  BY ClientInvariant, ClientKnows, PTL
=============================================================================
