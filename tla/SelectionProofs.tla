-------------------------- MODULE SelectionProofs --------------------------
(***************************************************************************)
(* What a selection from a sequence gives: in order, the elements of it    *)
(* that are in a set.  Those is a recursive function; that it has values   *)
(* at all comes from the recursion theorem proved here first.              *)
(***************************************************************************)
EXTENDS Selection, SequencesExt, SequenceTheorems, WellFoundedInduction, TLAPS

-----------------------------------------------------------------------------
(* Recursion over the numbers up to N                                      *)

LEMMA Induct ==
  ASSUME NEW T, 0 \in T, \A n \in Nat : n \in T => n + 1 \in T
  PROVE  Nat \subseteq T
<1> DEFINE U == Nat \ T
<1> SUFFICES ASSUME U # {} PROVE FALSE
  OBVIOUS
<1>1. PICK m \in U : \A k \in U : ~(k < m)
  <2> DEFINE R == {p \in Nat \X Nat : p[1] < p[2]}
  <2>1. IsWellFoundedOn(R, Nat)
    BY NatLessThanWellFounded DEF OpToRel
  <2>2. PICK m \in U : \A k \in U : ~(<<k, m>> \in R)
    BY <2>1, WFMin
  <2> QED
    BY <2>2
<1>2. m - 1 \in Nat /\ m - 1 < m
  OBVIOUS
<1>3. m - 1 \notin U
  BY <1>1, <1>2
<1> QED
  BY <1>2, <1>3

Recurs(f, N, base, step) == f[0] = base /\ \A n \in 1 .. N : f[n] = step[<<f[n - 1], n>>]

LEMMA Recursion ==
  ASSUME NEW N \in Nat, NEW V, NEW base \in V, NEW step \in [V \X (1 .. N) -> V]
  PROVE  \E f \in [0 .. N -> V] : Recurs(f, N, base, step)
<1> DEFINE Upto(m) == \E f \in [0 .. m -> V] :
                        f[0] = base /\ \A n \in 1 .. m : f[n] = step[<<f[n - 1], n>>]
           T == {m \in Nat : m <= N => Upto(m)}
<1>1. 0 \in T
  <2>1. [n \in 0 .. 0 |-> base] \in [0 .. 0 -> V]
    OBVIOUS
  <2>2. [k \in 0 .. 0 |-> base][0] = base /\ 1 .. 0 = {}
    OBVIOUS
  <2>3. Upto(0)
    BY <2>1, <2>2
  <2> QED
    BY <2>3
<1>2. ASSUME NEW m \in Nat, m \in T PROVE m + 1 \in T
  <2> SUFFICES ASSUME m + 1 <= N PROVE Upto(m + 1)
    OBVIOUS
  <2>1. PICK f \in [0 .. m -> V] :
          f[0] = base /\ \A n \in 1 .. m : f[n] = step[<<f[n - 1], n>>]
    BY <1>2
  <2> DEFINE g == [n \in 0 .. m + 1 |-> IF n <= m THEN f[n] ELSE step[<<f[m], m + 1>>]]
  <2>2. f[m] \in V /\ <<f[m], m + 1>> \in V \X (1 .. N)
    BY <2>1
  <2>3. step[<<f[m], m + 1>>] \in V
    BY <2>2
  <2>4. g \in [0 .. m + 1 -> V]
    BY <2>1, <2>3
  <2>5. ASSUME NEW n \in 1 .. m + 1 PROVE g[n] = step[<<g[n - 1], n>>]
    <3>1. CASE n \in 1 .. m
      <4>1. g[n] = f[n] /\ g[n - 1] = f[n - 1]
        BY <3>1
      <4>2. f[n] = step[<<f[n - 1], n>>]
        BY <2>1, <3>1
      <4> HIDE DEF g
      <4> QED
        BY <4>1, <4>2
    <3>2. CASE n = m + 1
      <4>1. g[n] = step[<<f[m], m + 1>>] /\ g[n - 1] = f[m]
        BY <3>2
      <4> QED
        BY <3>2, <4>1
    <3> QED
      BY <3>1, <3>2
  <2>6. g[0] = base
    BY <2>1
  <2> HIDE DEF g
  <2> QED
    BY <2>4, <2>5, <2>6
<1> HIDE DEF T
<1>3. Nat \subseteq T
  BY <1>1, <1>2, Induct
<1>4. N \in T /\ N <= N
  BY <1>3
<1>5. Upto(N)
  <2> HIDE DEF Upto
  <2> QED
    BY <1>4 DEF T
<1> QED
  BY <1>5 DEF Recurs

RecursIn(h, N, V, base, step) ==
  h[0] = base /\ \A n \in 1 .. N : h[n - 1] \in V => h[n] = step[<<h[n - 1], n>>]

(* A function that satisfies the recursion as far as it has the values for it *)
LEMMA RecursiveFunction ==
  ASSUME NEW N \in Nat, NEW V, NEW base \in V, NEW step \in [V \X (1 .. N) -> V],
         NEW h, h = [n \in 0 .. N |-> h[n]], RecursIn(h, N, V, base, step)
  PROVE  h \in [0 .. N -> V]
<1> DEFINE T == {n \in Nat : n <= N => h[n] \in V}
<1>1. 0 \in T
  BY DEF RecursIn
<1>2. ASSUME NEW n \in Nat, n \in T PROVE n + 1 \in T
  <2> SUFFICES ASSUME n + 1 <= N PROVE h[n + 1] \in V
    OBVIOUS
  <2>1. PICK k \in 1 .. N : k = n + 1 /\ k - 1 = n
    OBVIOUS
  <2>2. h[k - 1] \in V
    BY <1>2, <2>1
  <2>3. h[k] = step[<<h[k - 1], k>>] /\ <<h[k - 1], k>> \in V \X (1 .. N)
    BY <2>2 DEF RecursIn
  <2>4. h[k] \in V
    BY <2>3
  <2> QED
    BY <2>1, <2>4
<1> HIDE DEF T
<1>3. Nat \subseteq T
  BY <1>1, <1>2, Induct
<1>4. \A n \in 0 .. N : h[n] \in V
  BY <1>3 DEF T
<1> QED
  BY <1>4

-----------------------------------------------------------------------------
(* Selections                                                              *)

LEMMA AppendSet ==
  ASSUME NEW A, NEW s \in Seq(A), NEW e
  PROVE  ToSet(Append(s, e)) = ToSet(s) \cup {e}
<1>1. /\ DOMAIN Append(s, e) = 1 .. Len(s) + 1 /\ DOMAIN s = 1 .. Len(s) /\ Len(s) \in Nat
      /\ \A i \in 1 .. Len(s) : Append(s, e)[i] = s[i]
      /\ Append(s, e)[Len(s) + 1] = e
  OBVIOUS
<1> QED
  BY <1>1 DEF ToSet

(* Those recurs over a sequence *)
Selects(f, s, S) ==
  /\ Those(s, S) = f[Len(s)] /\ f[0] = <<>>
  /\ \A n \in 1 .. Len(s) : f[n] = IF s[n] \in S THEN Append(f[n - 1], s[n]) ELSE f[n - 1]

LEMMA ThoseRecurs ==
  ASSUME NEW A, NEW s \in Seq(A), NEW S
  PROVE  \E f \in [0 .. Len(s) -> Seq(A \cap S)] : Selects(f, s, S)
<1> DEFINE Eq(f) == f = [n \in 0 .. Len(s) |-> IF n = 0 THEN <<>>
                           ELSE IF s[n] \in S THEN Append(f[n - 1], s[n]) ELSE f[n - 1]]
<1>1. PICK N \in Nat : N = Len(s)
  OBVIOUS
<1>2. PICK V : V = Seq(A \cap S)
  OBVIOUS
<1>3. PICK step : step = [p \in V \X (1 .. N) |->
                            IF s[p[2]] \in S THEN Append(p[1], s[p[2]]) ELSE p[1]]
  OBVIOUS
<1>4. step \in [V \X (1 .. N) -> V]
  <2>1. ASSUME NEW p \in V \X (1 .. N)
        PROVE  (IF s[p[2]] \in S THEN Append(p[1], s[p[2]]) ELSE p[1]) \in V
    <3>1. p[1] \in V /\ s[p[2]] \in A
      BY <1>1
    <3> QED
      BY <1>2, <3>1
  <2> QED
    BY <1>3, <2>1
<1>5. \A v \in V, n \in 1 .. N :
        step[<<v, n>>] = IF s[n] \in S THEN Append(v, s[n]) ELSE v
  BY <1>3
<1>6. PICK base \in V : base = <<>>
  <2>1. <<>> \in Seq(A \cap S)
    OBVIOUS
  <2> QED
    BY <1>2, <2>1
<1>7. PICK f \in [0 .. N -> V] : Recurs(f, N, base, step)
  BY <1>4, Recursion, Zenon
<1>8. \A n \in 0 .. N : f[n] = IF n = 0 THEN <<>>
                               ELSE IF s[n] \in S THEN Append(f[n - 1], s[n]) ELSE f[n - 1]
  <2> TAKE n \in 0 .. N
  <2>1. n # 0 => n \in 1 .. N /\ f[n - 1] \in V
    OBVIOUS
  <2> QED
    BY <1>5, <1>6, <1>7, <2>1 DEF Recurs
<1>9. Eq(f)
  <2>1. f = [n \in 0 .. N |-> f[n]]
    OBVIOUS
  <2> QED
    BY <1>1, <1>8, <2>1
<1>10. PICK h : h = CHOOSE g : Eq(g)
  OBVIOUS
<1>11. Eq(h)
  <2> HIDE DEF Eq
  <2> QED
    BY <1>9, <1>10
<1>12. Those(s, S) = h[Len(s)]
  BY <1>10 DEF Those
<1>13. /\ h = [n \in 0 .. N |-> h[n]] /\ h[0] = <<>>
       /\ \A n \in 1 .. N : h[n] = IF s[n] \in S THEN Append(h[n - 1], s[n]) ELSE h[n - 1]
  <2>1. \A n \in 0 .. N : h[n] = IF n = 0 THEN <<>>
                                 ELSE IF s[n] \in S THEN Append(h[n - 1], s[n]) ELSE h[n - 1]
    BY <1>1, <1>11
  <2>2. h = [n \in 0 .. N |-> h[n]]
    BY <1>1, <1>11
  <2>3. \A n \in 1 .. N : n \in 0 .. N /\ n # 0
    OBVIOUS
  <2> QED
    BY <2>1, <2>2, <2>3
<1>14. h \in [0 .. N -> V]
  <2>1. h = [n \in 0 .. N |-> h[n]]
    BY <1>13
  <2>2. RecursIn(h, N, V, base, step)
    BY <1>5, <1>6, <1>13 DEF RecursIn
  <2> QED
    BY <1>4, <2>1, <2>2, RecursiveFunction, Zenon
<1>15. Selects(h, s, S)
  BY <1>1, <1>12, <1>13 DEF Selects
<1> QED
  BY <1>1, <1>2, <1>14, <1>15

(* and has those elements of the sequence that are in the set *)
LEMMA ThoseInOrder ==
  ASSUME NEW A, NEW s \in Seq(A), NEW S
  PROVE  Those(s, S) \in Seq(A \cap S) /\ ToSet(Those(s, S)) = ToSet(s) \cap S
<1>1. PICK N \in Nat : N = Len(s)
  OBVIOUS
<1>2. PICK f \in [0 .. N -> Seq(A \cap S)] : Selects(f, s, S)
  BY <1>1, ThoseRecurs, Zenon
<1> DEFINE T == {n \in Nat : n <= N => ToSet(f[n]) = {s[i] : i \in 1 .. n} \cap S}
<1>3. 0 \in T
  <2>1. f[0] = <<>> /\ ToSet(<<>>) = {} /\ 1 .. 0 = {}
    BY <1>2 DEF ToSet, Selects
  <2> QED
    BY <2>1
<1>4. ASSUME NEW n \in Nat, n \in T PROVE n + 1 \in T
  <2> SUFFICES ASSUME n + 1 <= N PROVE ToSet(f[n + 1]) = {s[i] : i \in 1 .. n + 1} \cap S
    OBVIOUS
  <2>1. /\ f[n] \in Seq(A \cap S) /\ ToSet(f[n]) = {s[i] : i \in 1 .. n} \cap S
        /\ f[n + 1] = IF s[n + 1] \in S THEN Append(f[n], s[n + 1]) ELSE f[n]
    <3>1. PICK k \in 1 .. Len(s) : k = n + 1 /\ k - 1 = n
      BY <1>1
    <3>2. f[k] = IF s[k] \in S THEN Append(f[k - 1], s[k]) ELSE f[k - 1]
      BY <1>2 DEF Selects
    <3>3. f[n] \in Seq(A \cap S)
      <4>1. n \in 0 .. N
        OBVIOUS
      <4> QED
        BY <4>1
    <3>4. ToSet(f[n]) = {s[i] : i \in 1 .. n} \cap S
      BY <1>4
    <3> QED
      BY <3>1, <3>2, <3>3, <3>4
  <2>2. {s[i] : i \in 1 .. n + 1} = {s[i] : i \in 1 .. n} \cup {s[n + 1]}
    <3>1. 1 .. n + 1 = (1 .. n) \cup {n + 1}
      OBVIOUS
    <3>2. PICK m : m = n + 1
      OBVIOUS
    <3>3. \A J : {s[i] : i \in J \cup {m}} = {s[i] : i \in J} \cup {s[m]}
      OBVIOUS
    <3> QED
      BY <3>1, <3>2, <3>3
  <2>3. CASE s[n + 1] \in S
    <3>1. ToSet(Append(f[n], s[n + 1])) = ToSet(f[n]) \cup {s[n + 1]}
      BY <2>1, <2>3, AppendSet
    <3> QED
      BY <2>1, <2>2, <2>3, <3>1
  <2>4. CASE s[n + 1] \notin S
    BY <2>1, <2>2, <2>4
  <2> QED
    BY <2>3, <2>4
<1> HIDE DEF T
<1>5. N \in T
  BY <1>3, <1>4, Induct
<1>6. ToSet(f[N]) = {s[i] : i \in 1 .. N} \cap S
  BY <1>5 DEF T
<1>7. DOMAIN s = 1 .. N /\ Those(s, S) = f[N] /\ f[N] \in Seq(A \cap S)
  BY <1>1, <1>2 DEF Selects
<1>8. ToSet(s) = {s[i] : i \in 1 .. N}
  BY <1>7 DEF ToSet
<1> QED
  BY <1>6, <1>7, <1>8

(* One more element *)
LEMMA ThoseAppend ==
  ASSUME NEW A, NEW s \in Seq(A), NEW e \in A, NEW S
  PROVE  Those(Append(s, e), S) = IF e \in S THEN Append(Those(s, S), e) ELSE Those(s, S)
<1>1. PICK t \in Seq(A) : t = Append(s, e)
  BY AppendProperties
<1>2. PICK N \in Nat : N = Len(s) /\ Len(t) = N + 1
  BY <1>1, AppendProperties, LenProperties
<1>3. t[N + 1] = e /\ \A n \in 1 .. N : t[n] = s[n]
  BY <1>1, <1>2, AppendProperties
<1>4. PICK f : Selects(f, s, S)
  BY ThoseRecurs, Zenon
<1>5. PICK g : Selects(g, t, S)
  BY ThoseRecurs, Zenon
<1>6. /\ Those(s, S) = f[N] /\ f[0] = <<>>
      /\ \A n \in 1 .. N : f[n] = IF s[n] \in S THEN Append(f[n - 1], s[n]) ELSE f[n - 1]
  BY <1>2, <1>4 DEF Selects
<1>7. /\ Those(t, S) = g[N + 1] /\ g[0] = <<>>
      /\ \A n \in 1 .. N + 1 : g[n] = IF t[n] \in S THEN Append(g[n - 1], t[n]) ELSE g[n - 1]
  BY <1>2, <1>5 DEF Selects
<1> DEFINE T == {n \in Nat : n <= N => g[n] = f[n]}
<1>8. 0 \in T
  BY <1>6, <1>7
<1>9. ASSUME NEW n \in Nat, n \in T PROVE n + 1 \in T
  <2> SUFFICES ASSUME n + 1 <= N PROVE g[n + 1] = f[n + 1]
    OBVIOUS
  <2>1. PICK k \in 1 .. N : k = n + 1 /\ k - 1 = n
    OBVIOUS
  <2>2. k \in 1 .. N + 1 /\ t[k] = s[k] /\ g[k - 1] = f[k - 1]
    BY <1>3, <1>9, <2>1
  <2> QED
    BY <1>6, <1>7, <2>1, <2>2
<1> HIDE DEF T
<1>10. N \in T
  BY <1>8, <1>9, Induct
<1>11. g[N] = f[N]
  BY <1>10 DEF T
<1>12. g[N + 1] = IF t[N + 1] \in S THEN Append(g[N], t[N + 1]) ELSE g[N]
  <2>1. PICK k \in 1 .. N + 1 : k = N + 1 /\ k - 1 = N
    OBVIOUS
  <2> QED
    BY <1>7, <2>1
<1> QED
  BY <1>1, <1>3, <1>6, <1>7, <1>11, <1>12

LEMMA ThoseOfNone == \A S : Those(<<>>, S) = <<>>
<1> TAKE S
<1>1. <<>> \in Seq({}) /\ Len(<<>>) = 0
  OBVIOUS
<1>2. PICK f : Selects(f, <<>>, S)
  BY <1>1, ThoseRecurs, Zenon
<1> QED
  BY <1>1, <1>2 DEF Selects

(* A sequence is empty or has a last element *)
LEMMA EmptyOrAppend ==
  ASSUME NEW A, NEW n \in Nat, NEW t \in Seq(A), Len(t) = n + 1
  PROVE  \E u \in Seq(A), e \in A : t = Append(u, e) /\ Len(u) = n
<1>1. t # <<>>
  OBVIOUS
<1>2. PICK u \in Seq(A), e \in A : t = Append(u, e)
  BY <1>1, SequenceEmptyOrAppend
<1>3. Len(t) = Len(u) + 1 /\ Len(u) \in Nat
  BY <1>2, AppendProperties, LenProperties
<1> QED
  BY <1>2, <1>3

(* Two sequences in a row *)
LEMMA ThoseConcat ==
  ASSUME NEW A, NEW s \in Seq(A), NEW t \in Seq(A), NEW S
  PROVE  Those(s \o t, S) = Those(s, S) \o Those(t, S)
<1> DEFINE P(v) == Those(s \o v, S) = Those(s, S) \o Those(v, S)
           T == {n \in Nat : \A v \in Seq(A) : Len(v) = n => P(v)}
<1>1. PICK r \in Seq(A \cap S) : r = Those(s, S)
  BY ThoseInOrder
<1>2. 0 \in T
  <2> SUFFICES ASSUME NEW v \in Seq(A), Len(v) = 0 PROVE P(v)
    OBVIOUS
  <2>1. v = <<>>
    BY EmptySeq
  <2>2. s \o <<>> = s /\ r \o <<>> = r
    BY ConcatEmptySeq
  <2> QED
    BY <1>1, <2>1, <2>2, ThoseOfNone
<1>3. ASSUME NEW n \in Nat, n \in T PROVE n + 1 \in T
  <2> SUFFICES ASSUME NEW v \in Seq(A), Len(v) = n + 1 PROVE P(v)
    OBVIOUS
  <2>1. PICK u \in Seq(A), e \in A : v = Append(u, e) /\ Len(u) = n
    BY EmptyOrAppend
  <2>2. Those(s \o u, S) = r \o Those(u, S)
    BY <1>1, <1>3, <2>1
  <2>3. PICK q \in Seq(A \cap S) : q = Those(u, S)
    BY ThoseInOrder
  <2>4. PICK w \in Seq(A) : w = s \o u /\ s \o v = Append(w, e)
    <3>1. s \o u \in Seq(A) /\ s \o Append(u, e) = Append(s \o u, e)
      OBVIOUS
    <3> QED
      BY <2>1, <3>1
  <2>5. Those(s \o v, S) = IF e \in S THEN Append(r \o q, e) ELSE r \o q
    <3>1. Those(Append(w, e), S) = IF e \in S THEN Append(Those(w, S), e) ELSE Those(w, S)
      BY ThoseAppend
    <3> QED
      BY <2>2, <2>3, <2>4, <3>1
  <2>6. Those(v, S) = IF e \in S THEN Append(q, e) ELSE q
    <3>1. Those(Append(u, e), S) = IF e \in S THEN Append(Those(u, S), e) ELSE Those(u, S)
      BY ThoseAppend
    <3> QED
      BY <2>1, <2>3, <3>1
  <2>7. Append(r \o q, e) = r \o Append(q, e)
    <3>1. r \in Seq(A) /\ q \in Seq(A)
      BY SeqMonotonic
    <3> QED
      BY <3>1, SMTT(20)
  <2> QED
    BY <1>1, <2>5, <2>6, <2>7
<1> HIDE DEF T
<1>4. PICK n \in Nat : n = Len(t)
  OBVIOUS
<1>5. n \in T
  BY <1>2, <1>3, Induct
<1> QED
  BY <1>4, <1>5 DEF T

(* A selection from a selection *)
LEMMA ThoseOfThose ==
  ASSUME NEW A, NEW s \in Seq(A), NEW S, NEW R
  PROVE  Those(Those(s, S), R) = Those(s, S \cap R)
<1> DEFINE P(v) == Those(Those(v, S), R) = Those(v, S \cap R)
           T == {n \in Nat : \A v \in Seq(A) : Len(v) = n => P(v)}
<1>1. 0 \in T
  <2> SUFFICES ASSUME NEW v \in Seq(A), Len(v) = 0 PROVE P(v)
    OBVIOUS
  <2>1. v = <<>>
    BY EmptySeq
  <2> QED
    BY <2>1, ThoseOfNone
<1>2. ASSUME NEW n \in Nat, n \in T PROVE n + 1 \in T
  <2> SUFFICES ASSUME NEW v \in Seq(A), Len(v) = n + 1 PROVE P(v)
    <3> HIDE DEF P
    <3> QED
      OBVIOUS
  <2>1. PICK u \in Seq(A), e \in A : v = Append(u, e) /\ Len(u) = n
    BY EmptyOrAppend
  <2>2. Those(Those(u, S), R) = Those(u, S \cap R)
    BY <1>2, <2>1
  <2>3. PICK q \in Seq(A) : q = Those(u, S)
    <3>1. Those(u, S) \in Seq(A \cap S)
      BY ThoseInOrder
    <3> QED
      BY <3>1, SeqMonotonic
  <2>4. Those(v, S) = IF e \in S THEN Append(q, e) ELSE q
    BY <2>1, <2>3, ThoseAppend
  <2>5. Those(v, S \cap R) = IF e \in S \cap R THEN Append(Those(u, S \cap R), e) ELSE Those(u, S \cap R)
    BY <2>1, ThoseAppend
  <2>6. Those(Append(q, e), R) = IF e \in R THEN Append(Those(q, R), e) ELSE Those(q, R)
    BY ThoseAppend
  <2> QED
    BY <2>2, <2>3, <2>4, <2>5, <2>6
<1> HIDE DEF T
<1>3. PICK n \in Nat : n = Len(s)
  OBVIOUS
<1>4. n \in T
  BY <1>1, <1>2, Induct
<1> QED
  BY <1>3, <1>4 DEF T

(* None of the elements is in the set *)
LEMMA NoneOfThose ==
  ASSUME NEW A, NEW s \in Seq(A), NEW S, \A i \in 1 .. Len(s) : s[i] \notin S
  PROVE  Those(s, S) = <<>>
<1>1. PICK r \in Seq(A \cap S) : r = Those(s, S) /\ ToSet(r) = ToSet(s) \cap S
  BY ThoseInOrder
<1>2. DOMAIN s = 1 .. Len(s) /\ DOMAIN r = 1 .. Len(r) /\ Len(r) \in Nat
  BY LenProperties
<1>3. ToSet(s) \cap S = {}
  BY <1>2 DEF ToSet
<1>4. ASSUME r # <<>> PROVE FALSE
  <2>1. 1 \in DOMAIN r
    BY <1>2, <1>4, EmptySeq
  <2>2. r[1] \in ToSet(r)
    BY <2>1 DEF ToSet
  <2> QED
    BY <1>1, <1>3, <2>2
<1> QED
  BY <1>1, <1>4

(* A single element *)
LEMMA OneOfThose ==
  ASSUME NEW A, NEW e \in A, NEW S
  PROVE  Those(<<e>>, S) = IF e \in S THEN <<e>> ELSE <<>>
<1>1. PICK n \in Seq(A) : n = <<>> /\ Append(n, e) = <<e>>
  <2>1. <<>> \in Seq(A) /\ Append(<<>>, e) = <<e>>
    OBVIOUS
  <2> QED
    BY <2>1
<1>2. Those(Append(n, e), S) = IF e \in S THEN Append(Those(n, S), e) ELSE Those(n, S)
  BY ThoseAppend
<1>3. Append(<<>>, e) = <<e>>
  OBVIOUS
<1> QED
  BY <1>1, <1>2, <1>3, ThoseOfNone

-----------------------------------------------------------------------------
(* Selections and the parts of a sequence                                  *)

LEMMA Part ==
  ASSUME NEW A, NEW s \in Seq(A), NEW m \in Nat \ {0}, NEW n \in 0 .. Len(s)
  PROVE  /\ SubSeq(s, m, n) \in Seq(A)
         /\ Len(SubSeq(s, m, n)) = IF m <= n THEN n - m + 1 ELSE 0
         /\ \A i \in 1 .. n - m + 1 : SubSeq(s, m, n)[i] = s[m + i - 1]
<1>1. m \in Int /\ n \in Int /\ \A i \in m .. n : s[i] \in A
  OBVIOUS
<1> QED
  BY <1>1, SubSeqProperties

LEMMA SameParts ==
  ASSUME NEW A, NEW s \in Seq(A), NEW t \in Seq(A), NEW m \in Nat \ {0},
         NEW n \in 0 .. Len(s), Len(t) = Len(s), \A i \in m .. n : t[i] = s[i]
  PROVE  SubSeq(t, m, n) = SubSeq(s, m, n)
<1>1. PICK p \in Seq(A) : p = SubSeq(s, m, n)
  BY Part
<1>2. PICK q \in Seq(A) : q = SubSeq(t, m, n)
  BY Part
<1>3. Len(p) = (IF m <= n THEN n - m + 1 ELSE 0) /\ \A i \in 1 .. n - m + 1 : p[i] = s[m + i - 1]
  BY <1>1, Part
<1>4. Len(q) = (IF m <= n THEN n - m + 1 ELSE 0) /\ \A i \in 1 .. n - m + 1 : q[i] = t[m + i - 1]
  BY <1>2, Part
<1>5. ASSUME NEW i \in 1 .. Len(p) PROVE p[i] = q[i]
  <2>1. i \in 1 .. n - m + 1 /\ m + i - 1 \in m .. n
    BY <1>3
  <2> QED
    BY <1>3, <1>4, <2>1
<1>6. p = q
  <2>1. Len(p) = Len(q)
    BY <1>3, <1>4
  <2> QED
    BY <1>5, <2>1, SeqEqual
<1> QED
  BY <1>1, <1>2, <1>6

(* A part that is cut in two *)
LEMMA ThoseSplit ==
  ASSUME NEW A, NEW s \in Seq(A), NEW S,
         NEW m \in 1 .. Len(s) + 1, NEW k \in m - 1 .. Len(s), NEW n \in k .. Len(s)
  PROVE  Those(SubSeq(s, m, n), S) = Those(SubSeq(s, m, k), S) \o Those(SubSeq(s, k + 1, n), S)
<1>1. SubSeq(s, m, k) \o SubSeq(s, k + 1, n) = SubSeq(s, m, n)
  BY ConcatAdjacentSubSeq
<1>2. PICK p \in Seq(A) : p = SubSeq(s, m, k)
  <2>1. m \in Nat \ {0} /\ k \in 0 .. Len(s)
    OBVIOUS
  <2> QED
    BY <2>1, Part
<1>3. PICK q \in Seq(A) : q = SubSeq(s, k + 1, n)
  <2>1. k + 1 \in Nat \ {0} /\ n \in 0 .. Len(s)
    OBVIOUS
  <2> QED
    BY <2>1, Part
<1>4. Those(p \o q, S) = Those(p, S) \o Those(q, S)
  <2>1. p \in Seq(A) /\ q \in Seq(A)
    OBVIOUS
  <2> QED
    BY ONLY <2>1, ThoseConcat, SMTT(20)
<1> QED
  BY <1>1, <1>2, <1>3, <1>4

LEMMA NoneOfPart ==
  ASSUME NEW A, NEW s \in Seq(A), NEW S, NEW m \in Nat \ {0}, NEW n \in 0 .. Len(s),
         \A i \in m .. n : s[i] \notin S
  PROVE  Those(SubSeq(s, m, n), S) = <<>>
<1>1. PICK p \in Seq(A) : p = SubSeq(s, m, n)
  BY Part
<1>2. Len(p) = (IF m <= n THEN n - m + 1 ELSE 0) /\ \A i \in 1 .. n - m + 1 : p[i] = s[m + i - 1]
  BY <1>1, Part
<1>3. ASSUME NEW i \in 1 .. Len(p) PROVE p[i] \notin S
  <2>1. i \in 1 .. n - m + 1 /\ m + i - 1 \in m .. n
    BY <1>2
  <2> QED
    BY <1>2, <2>1
<1> QED
  BY <1>1, <1>3, NoneOfThose

(* The first element of a part *)
LEMMA ThoseFirst ==
  ASSUME NEW A, NEW s \in Seq(A), NEW S, NEW m \in 1 .. Len(s), NEW n \in m .. Len(s)
  PROVE  Those(SubSeq(s, m, n), S) =
           IF s[m] \in S THEN <<s[m]>> \o Those(SubSeq(s, m + 1, n), S)
           ELSE Those(SubSeq(s, m + 1, n), S)
<1>1. SubSeq(s, m, n) = <<s[m]>> \o SubSeq(s, m + 1, n)
  BY SubSeqRecursiveFirst
<1>2. PICK q \in Seq(A) : q = SubSeq(s, m + 1, n)
  <2>1. m + 1 \in Nat \ {0} /\ n \in 0 .. Len(s)
    OBVIOUS
  <2> QED
    BY <2>1, Part
<1>3. PICK e \in A : e = s[m]
  OBVIOUS
<1>4. PICK o \in Seq(A) : o = <<e>>
  <2>1. <<e>> \in Seq(A)
    OBVIOUS
  <2> QED
    BY <2>1
<1>5. Those(o \o q, S) = Those(o, S) \o Those(q, S)
  BY ThoseConcat
<1>6. Those(o, S) = IF e \in S THEN <<e>> ELSE <<>>
  BY <1>4, OneOfThose
<1>7. PICK r \in Seq(A \cap S) : r = Those(q, S)
  BY ThoseInOrder
<1>8. <<>> \o r = r
  BY ConcatEmptySeq
<1> QED
  BY <1>1, <1>2, <1>3, <1>4, <1>5, <1>6, <1>7, <1>8

(* std::remove_if moves an element forward over others that are not in the set *)
LEMMA MoveInvisible ==
  ASSUME NEW A, NEW s \in Seq(A), NEW t \in Seq(A), NEW S, Len(t) = Len(s),
         NEW r \in 1 .. Len(s), NEW f \in 1 .. Len(s), r < f,
         s[f] \in S, t[r] = s[f],
         \A i \in r .. f - 1 : s[i] \notin S, \A i \in r + 1 .. f : t[i] \notin S,
         \A i \in 1 .. Len(s) : i < r \/ f < i => t[i] = s[i]
  PROVE  Those(t, S) = Those(s, S)
<1> DEFINE L(u, m, n) == Those(SubSeq(u, m, n), S)
<1>1. PICK N \in Nat : N = Len(s) /\ N = Len(t)
  OBVIOUS
<1>2. \A u \in {s, t}, m \in 1 .. N + 1 : \A k \in m - 1 .. N : \A n \in k .. N :
        L(u, m, n) = L(u, m, k) \o L(u, k + 1, n)
  <2> TAKE u \in {s, t}, m \in 1 .. N + 1
  <2> TAKE k \in m - 1 .. N
  <2> TAKE n \in k .. N
  <2>1. PICK v \in Seq(A) : v = u /\ Len(v) = N
    BY <1>1
  <2>2. m \in 1 .. Len(v) + 1 /\ k \in m - 1 .. Len(v) /\ n \in k .. Len(v)
    BY <2>1
  <2>3. L(v, m, n) = L(v, m, k) \o L(v, k + 1, n)
    <3>1. Those(SubSeq(v, m, n), S) = Those(SubSeq(v, m, k), S) \o Those(SubSeq(v, k + 1, n), S)
      BY <2>2, ThoseSplit
    <3> QED
      BY <3>1
  <2> QED
    BY <2>1, <2>3
<1>3. L(s, 1, N) = L(s, 1, r - 1) \o L(s, r, N) /\ L(t, 1, N) = L(t, 1, r - 1) \o L(t, r, N)
  <2>1. /\ 1 \in 1 .. N + 1 /\ r - 1 \in 1 - 1 .. N /\ N \in r - 1 .. N /\ (r - 1) + 1 = r
    BY <1>1
  <2>2. L(s, 1, N) = L(s, 1, r - 1) \o L(s, (r - 1) + 1, N)
    BY <1>2, <2>1, s \in {s, t}, t \in {s, t}
  <2>3. L(t, 1, N) = L(t, 1, r - 1) \o L(t, (r - 1) + 1, N)
    BY <1>2, <2>1, s \in {s, t}, t \in {s, t}
  <2> QED
    BY <2>1, <2>2, <2>3
<1>4. L(s, r, N) = L(s, r, f - 1) \o L(s, f, N) /\ L(s, r, f - 1) = <<>>
  <2>1. /\ r \in 1 .. N + 1 /\ f - 1 \in r - 1 .. N /\ N \in f - 1 .. N /\ (f - 1) + 1 = f
        /\ r \in Nat \ {0} /\ f - 1 \in 0 .. N
    BY <1>1
  <2>2. L(s, r, N) = L(s, r, f - 1) \o L(s, (f - 1) + 1, N)
    BY <1>2, <2>1, s \in {s, t}, t \in {s, t}
  <2>3. L(s, r, f - 1) = <<>>
    BY <1>1, <2>1, NoneOfPart
  <2> QED
    BY <2>1, <2>2, <2>3
<1>5. L(s, f, N) = <<s[f]>> \o L(s, f + 1, N)
  <2>1. f \in 1 .. Len(s) /\ N \in f .. Len(s)
    BY <1>1
  <2> QED
    BY <2>1, ThoseFirst
<1>6. L(t, r, N) = <<t[r]>> \o L(t, r + 1, N)
  <2>1. PICK v \in Seq(A) : v = t /\ Len(v) = N
    BY <1>1
  <2>2. r \in 1 .. Len(v) /\ N \in r .. Len(v) /\ v[r] \in S
    BY <1>1, <2>1
  <2>3. L(v, r, N) = <<v[r]>> \o L(v, r + 1, N)
    BY <2>2, ThoseFirst
  <2> QED
    BY <2>1, <2>3
<1>7. L(t, r + 1, N) = L(t, r + 1, f) \o L(t, f + 1, N) /\ L(t, r + 1, f) = <<>>
  <2>1. /\ r + 1 \in 1 .. N + 1 /\ f \in (r + 1) - 1 .. N /\ N \in f .. N
        /\ r + 1 \in Nat \ {0} /\ f \in 0 .. N
    BY <1>1
  <2>2. L(t, r + 1, N) = L(t, r + 1, f) \o L(t, f + 1, N)
    BY <1>2, <2>1, s \in {s, t}, t \in {s, t}
  <2>3. L(t, r + 1, f) = <<>>
    BY <1>1, <2>1, NoneOfPart
  <2> QED
    BY <2>2, <2>3
<1>8. SubSeq(t, 1, r - 1) = SubSeq(s, 1, r - 1) /\ SubSeq(t, f + 1, N) = SubSeq(s, f + 1, N)
  <2>1. /\ 1 \in Nat \ {0} /\ r - 1 \in 0 .. Len(s) /\ f + 1 \in Nat \ {0} /\ N \in 0 .. Len(s)
    BY <1>1
  <2>2. \A i \in 1 .. r - 1 : t[i] = s[i]
    BY <1>1
  <2>3. \A i \in f + 1 .. N : t[i] = s[i]
    BY <1>1
  <2>4. SubSeq(t, 1, r - 1) = SubSeq(s, 1, r - 1)
    BY <2>1, <2>2, SameParts
  <2>5. SubSeq(t, f + 1, N) = SubSeq(s, f + 1, N)
    BY <2>1, <2>3, SameParts
  <2> QED
    BY <2>4, <2>5
<1>9. \A u \in {s, t} : \A m \in Nat \ {0}, n \in 0 .. N : L(u, m, n) \in Seq(A)
  <2> TAKE u \in {s, t}
  <2> TAKE m \in Nat \ {0}, n \in 0 .. N
  <2>1. SubSeq(u, m, n) \in Seq(A)
    BY <1>1, Part
  <2>2. L(u, m, n) \in Seq(A \cap S)
    BY <2>1, ThoseInOrder
  <2> QED
    BY <2>2, SeqMonotonic
<1>10. PICK q \in Seq(A) : q = L(s, f + 1, N)
  <2>1. s \in {s, t} /\ f + 1 \in Nat \ {0} /\ N \in 0 .. N
    OBVIOUS
  <2> HIDE DEF L
  <2> QED
    BY <1>9, <2>1
<1>11. PICK o \in Seq(A) : o = <<s[f]>> \o q
  <2>1. <<s[f]>> \o q \in Seq(A)
    OBVIOUS
  <2> QED
    BY <2>1
<1>12. <<>> \o o = o /\ <<>> \o q = q
  BY ConcatEmptySeq
<1> HIDE DEF L
<1>13. L(s, r, N) = o
  BY <1>4, <1>5, <1>10, <1>11, <1>12
<1>14. L(t, f + 1, N) = q /\ L(t, 1, r - 1) = L(s, 1, r - 1)
  BY <1>8, <1>10 DEF L
<1>15. L(t, r, N) = o
  BY <1>6, <1>7, <1>11, <1>12, <1>14
<1>16. L(t, 1, N) = L(s, 1, N)
  BY <1>3, <1>13, <1>14, <1>15
<1>17. SubSeq(s, 1, N) = s /\ SubSeq(t, 1, N) = t
  BY <1>1, SubSeqFull
<1> QED
  BY <1>16, <1>17 DEF L

(* and erases what is left at the end *)
LEMMA EraseInvisible ==
  ASSUME NEW A, NEW s \in Seq(A), NEW S, NEW r \in 1 .. Len(s) + 1,
         \A i \in r .. Len(s) : s[i] \notin S
  PROVE  Those(SubSeq(s, 1, r - 1), S) = Those(s, S)
<1>1. PICK N \in Nat : N = Len(s)
  OBVIOUS
<1>2. /\ 1 \in 1 .. N + 1 /\ r - 1 \in 1 - 1 .. N /\ N \in r - 1 .. N /\ (r - 1) + 1 = r
      /\ 1 \in Nat \ {0} /\ r \in Nat \ {0} /\ r - 1 \in 0 .. N /\ N \in 0 .. N
  BY <1>1
<1>3. SubSeq(s, 1, N) = s
  BY <1>1, SubSeqFull
<1>4. Those(SubSeq(s, 1, N), S) = Those(SubSeq(s, 1, r - 1), S) \o Those(SubSeq(s, (r - 1) + 1, N), S)
  <2>1. /\ 1 \in 1 .. Len(s) + 1 /\ r - 1 \in 1 - 1 .. Len(s)
        /\ N \in r - 1 .. Len(s)
    BY <1>1, <1>2
  <2> QED
    BY <2>1, ThoseSplit, Zenon
<1>5. Those(SubSeq(s, r, N), S) = <<>>
  BY <1>1, <1>2, NoneOfPart
<1>6. PICK p \in Seq(A \cap S) : p = Those(SubSeq(s, 1, r - 1), S)
  <2>1. SubSeq(s, 1, r - 1) \in Seq(A)
    BY <1>1, <1>2, Part
  <2> QED
    BY <2>1, ThoseInOrder
<1>7. p \o <<>> = p
  BY ConcatEmptySeq
<1> QED
  BY <1>2, <1>3, <1>4, <1>5, <1>6, <1>7
=============================================================================
