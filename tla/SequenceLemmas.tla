---------------------------- MODULE SequenceLemmas ----------------------------
(***************************************************************************)
(* Facts about numbers, queues kept as sequences, and the loops of module  *)
(* Selection, on which the proofs about the components rest.               *)
(***************************************************************************)
EXTENDS Selection, FiniteSetsExt, SequenceTheorems, FiniteSetTheorems, TLAPS

-----------------------------------------------------------------------------
(***************************************************************************)
(* Induction.  The provers cannot use a theorem with an operator as its    *)
(* parameter, so it is stated for sets of numbers.                         *)
(***************************************************************************)
\* A set of naturals that is not empty has a least element.
LEMMA LeastNatural ==
  ASSUME NEW T \in SUBSET Nat, T # {}
  PROVE  \E x \in T : \A y \in T : x <= y
<1> DEFINE R == {ss \in Nat \X Nat : ss[1] < ss[2]}
<1>1. R = OpToRel(<, Nat)
  BY DEF OpToRel
<1>2. IsWellFoundedOn(R, Nat)
  BY <1>1, NatLessThanWellFounded
<1>3. PICK x \in T : \A y \in T : ~ (<<y, x>> \in R)
  <2> HIDE DEF R
  <2> QED
    BY <1>2, WFMin
<1>4. \A y \in T : ~(y < x)
  BY <1>3
<1> QED
  BY <1>4

\* Min finds it.
LEMMA LeastOfNaturals ==
  ASSUME NEW S \in SUBSET Nat, S # {}
  PROVE  Min(S) \in S /\ \A y \in S : Min(S) <= y
<1>1. \E x \in S : \A y \in S : x <= y
  BY LeastNatural
<1> QED
  BY <1>1 DEF Min

\* The smaller of two numbers.
LEMMA LeastOfTwo ==
  ASSUME NEW a \in Nat, NEW b \in Nat
  PROVE  Min({a, b}) = IF a <= b THEN a ELSE b
<1>1. Min({a, b}) \in {a, b} /\ \A y \in {a, b} : Min({a, b}) <= y
  BY LeastOfNaturals
<1> QED
  BY <1>1

\* What holds of 0 and goes from each number to the next holds of all.
LEMMA SetInduction ==
  ASSUME NEW T \in SUBSET Nat, 0 \in T, \A n \in T : n + 1 \in T
  PROVE  T = Nat
<1> SUFFICES ASSUME Nat \ T # {} PROVE FALSE
  OBVIOUS
<1>1. PICK x \in Nat \ T : \A y \in Nat \ T : x <= y
  <2> DEFINE U == Nat \ T
  <2>1. U \in SUBSET Nat /\ U # {}
    OBVIOUS
  <2> HIDE DEF U
  <2>2. \E x \in U : \A y \in U : x <= y
    BY <2>1, LeastNatural
  <2> QED
    BY <2>2 DEF U
<1>2. x # 0 /\ x - 1 \in Nat
  BY <1>1
<1>3. x - 1 \in T
  BY <1>1, <1>2
<1>4. (x - 1) + 1 = x
  BY <1>1
<1> QED
  BY <1>1, <1>3, <1>4

-----------------------------------------------------------------------------
(***************************************************************************)
(* A queue, behind the sequence of what has already left it.               *)
(***************************************************************************)
\* Taking the front moves one message from the queue to the taken ones.
LEMMA MoveFront ==
  ASSUME NEW S, NEW s \in Seq(S), NEW t \in Seq(S), t # <<>>
  PROVE  s \o t = Append(s, Head(t)) \o Tail(t)
<1>1. /\ Len(s \o t) = Len(Append(s, Head(t)) \o Tail(t))
      /\ Head(t) \in S /\ Tail(t) \in Seq(S) /\ Len(t) >= 1
  OBVIOUS
<1>2. \A i \in 1 .. Len(s \o t) :
        (s \o t)[i] = (Append(s, Head(t)) \o Tail(t))[i]
  BY <1>1
<1>3. s \o t \in Seq(S) /\ Append(s, Head(t)) \o Tail(t) \in Seq(S)
  BY <1>1
<1> QED
  BY <1>1, <1>2, <1>3, SeqEqual

\* Appending to the queue appends to the whole.
LEMMA AppendBehind ==
  ASSUME NEW S, NEW s \in Seq(S), NEW t \in Seq(S), NEW e \in S
  PROVE  Append(s \o t, e) = s \o Append(t, e)
<1>1. Len(Append(s \o t, e)) = Len(s \o Append(t, e))
  OBVIOUS
<1>2. \A i \in 1 .. Len(s \o t) + 1 :
        Append(s \o t, e)[i] = (s \o Append(t, e))[i]
  OBVIOUS
<1>3. Append(s \o t, e) \in Seq(S) /\ s \o Append(t, e) \in Seq(S)
  OBVIOUS
<1> QED
  BY <1>1, <1>2, <1>3, SeqEqual

\* An element goes from the front of a queue to the hands of its taker.
LEMMA MoveToHand ==
  ASSUME NEW S, NEW s \in Seq(S), NEW t \in Seq(S), t # <<>>
  PROVE  (s \o <<>>) \o t = (s \o <<Head(t)>>) \o Tail(t)
<1>1. s \o <<>> = s /\ Head(t) \in S
  OBVIOUS
<1>2. Append(s, Head(t)) = s \o <<Head(t)>>
  BY <1>1, AppendIsConcat
<1> QED
  BY <1>1, <1>2, MoveFront

\* It goes from there behind what has left the queue.
LEMMA MoveOutOfHand ==
  ASSUME NEW S, NEW s \in Seq(S), NEW h \in Seq(S), NEW t \in Seq(S)
  PROVE  (s \o h) \o t = ((s \o h) \o <<>>) \o t
<1>1. s \o h \in Seq(S)
  OBVIOUS
<1> QED
  BY <1>1, ConcatEmptySeq

\* A single element in hand is what comes next, and going behind s appends it.
LEMMA SingleInHand ==
  ASSUME NEW S, NEW s \in Seq(S), NEW h \in Seq(S), NEW t \in Seq(S),
         Len(h) = 1
  PROVE  /\ s \o h = Append(s, h[1])
         /\ Len((s \o h) \o t) = Len(s) + 1 + Len(t)
         /\ ((s \o h) \o t)[Len(s) + 1] = h[1]
<1>1. /\ h[1] \in S /\ Len(s) \in Nat /\ Len(t) \in Nat
      /\ s \o h \in Seq(S) /\ Append(s, h[1]) \in Seq(S)
      /\ Len(s \o h) = Len(s) + 1 /\ Len(Append(s, h[1])) = Len(s) + 1
  <2>1. h[1] \in S /\ Len(s) \in Nat /\ Len(t) \in Nat /\ s \o h \in Seq(S)
    BY ElementOfSeq, LenProperties, ConcatProperties
  <2>2. Append(s, h[1]) \in Seq(S) /\ Len(Append(s, h[1])) = Len(s) + 1
    BY <2>1
  <2>3. Len(s \o h) = Len(s) + Len(h)
    BY ConcatProperties
  <2> QED
    BY <2>1, <2>2, <2>3
<1>2. s \o h = Append(s, h[1])
  <2>1. \A i \in 1 .. Len(s \o h) : (s \o h)[i] = Append(s, h[1])[i]
    BY <1>1
  <2> QED
    BY <1>1, <2>1, SeqEqual
<1>3. (s \o h)[Len(s) + 1] = h[1]
  BY <1>1
<1>4. ((s \o h) \o t)[Len(s) + 1] = (s \o h)[Len(s) + 1]
  BY <1>1
<1>5. Len((s \o h) \o t) = Len(s \o h) + Len(t)
  BY <1>1
<1> QED
  BY <1>1, <1>2, <1>3, <1>4, <1>5

\* What has left the queue is where the whole begins.
LEMMA ConcatBegins ==
  ASSUME NEW S, NEW s \in Seq(S), NEW h \in Seq(S), NEW t \in Seq(S)
  PROVE  \A k \in DOMAIN s :
           k \in DOMAIN ((s \o h) \o t) /\ ((s \o h) \o t)[k] = s[k]
<1>1. /\ s \o h \in Seq(S) /\ Len(s \o h) = Len(s) + Len(h)
      /\ \A k \in DOMAIN s : (s \o h)[k] = s[k]
  OBVIOUS
<1>2. /\ Len((s \o h) \o t) = Len(s \o h) + Len(t)
      /\ \A k \in DOMAIN (s \o h) : ((s \o h) \o t)[k] = (s \o h)[k]
  BY <1>1
<1>3. \A k \in DOMAIN s : k \in DOMAIN (s \o h) /\ k \in DOMAIN ((s \o h) \o t)
  BY <1>1, <1>2
<1> QED
  BY <1>1, <1>2, <1>3

-----------------------------------------------------------------------------
(***************************************************************************)
(* Selection.                                                              *)
(***************************************************************************)
\* g holds, for each n, what the loop has copied behind its n-th turn.
Turn(s, I, g, n) ==
  IF n = 0 THEN <<>> ELSE IF n \in I THEN Append(g[n - 1], s[n]) ELSE g[n - 1]
CopiesOf(s, I, g) == g = [n \in 0 .. Len(s) |-> Turn(s, I, g, n)]

\* The loop can be run to its end.
LEMMA CopiesExist ==
  ASSUME NEW S, NEW s \in Seq(S), NEW I
  PROVE  \E g \in [0 .. Len(s) -> Seq(S)] : CopiesOf(s, I, g)
<1> USE DEF Turn
<1> DEFINE Good(m) == \E g \in [0 .. m -> Seq(S)] : \A n \in 0 .. m : g[n] = Turn(s, I, g, n)
         T == {m \in Nat : m <= Len(s) => Good(m)}
<1>1. 0 \in T
  <2>1. [n \in 0 .. 0 |-> <<>>] \in [0 .. 0 -> Seq(S)]
    OBVIOUS
  <2>2. \A n \in 0 .. 0 : [k \in 0 .. 0 |-> <<>>][n] = Turn(s, I, [k \in 0 .. 0 |-> <<>>], n)
    OBVIOUS
  <2> QED
    BY <2>1, <2>2
<1>2. ASSUME NEW m \in T PROVE m + 1 \in T
  <2>0. m \in Nat /\ m + 1 \in Nat
    OBVIOUS
  <2> SUFFICES ASSUME m + 1 <= Len(s) PROVE Good(m + 1)
    BY <2>0
  <2>1. PICK g \in [0 .. m -> Seq(S)] : \A n \in 0 .. m : g[n] = Turn(s, I, g, n)
    BY <2>0
  <2>2. Turn(s, I, g, m + 1) \in Seq(S)
    <3>1. g[m] \in Seq(S) /\ s[m + 1] \in S /\ (m + 1) - 1 = m /\ m + 1 # 0
      BY <2>0
    <3> QED
      BY <3>1
  <2> HIDE DEF Turn
  <2> DEFINE h == [n \in 0 .. m + 1 |-> IF n <= m THEN g[n] ELSE Turn(s, I, g, n)]
  <2>3. h \in [0 .. m + 1 -> Seq(S)]
    <3>1. ASSUME NEW n \in 0 .. m + 1 PROVE (IF n <= m THEN g[n] ELSE Turn(s, I, g, n)) \in Seq(S)
      BY <2>0, <2>2
    <3> QED
      BY <3>1
  <2>4. ASSUME NEW n \in 0 .. m + 1 PROVE h[n] = Turn(s, I, h, n)
    <3>1. n # 0 => n - 1 \in 0 .. m /\ h[n - 1] = g[n - 1]
      BY <2>0
    <3>2. Turn(s, I, h, n) = Turn(s, I, g, n)
      BY <3>1 DEF Turn
    <3>3. n <= m => g[n] = Turn(s, I, g, n)
      BY <2>0, <2>1
    <3> QED
      BY <3>2, <3>3
  <2> HIDE DEF h
  <2> QED
    BY <2>3, <2>4
<1>3. T = Nat
  <2> HIDE DEF T
  <2>1. T \in SUBSET Nat
    BY DEF T
  <2> QED
    BY <1>1, <1>2, <2>1, SetInduction
<1>4. PICK g \in [0 .. Len(s) -> Seq(S)] : \A n \in 0 .. Len(s) : g[n] = Turn(s, I, g, n)
  <2>1. Len(s) \in Nat
    OBVIOUS
  <2>2. Len(s) \in T
    <3> HIDE DEF T
    <3> QED
      BY <1>3, <2>1
  <2> QED
    BY <2>1, <2>2
<1>5. g = [n \in 0 .. Len(s) |-> Turn(s, I, g, n)]
  <2> HIDE DEF Turn
  <2> QED
   BY <1>4
<1> QED
  BY <1>5 DEF CopiesOf

\* KeptUpTo is what it holds then.
LEMMA KeptUpToCopies ==
  ASSUME NEW S, NEW s \in Seq(S), NEW I
  PROVE  CopiesOf(s, I, KeptUpTo(s, I))
<1>1. KeptUpTo(s, I) = CHOOSE g : CopiesOf(s, I, g)
  BY Zenon DEF KeptUpTo, CopiesOf, Turn
<1>2. \E g : CopiesOf(s, I, g)
  BY CopiesExist
<1> QED
  BY <1>1, <1>2, Zenon

\* Its turns, one by one.
LEMMA KeptUpToTurns ==
  ASSUME NEW S, NEW s \in Seq(S), NEW I
  PROVE  /\ KeptUpTo(s, I)[0] = <<>>
         /\ \A n \in 1 .. Len(s) :
              KeptUpTo(s, I)[n] = IF n \in I THEN Append(KeptUpTo(s, I)[n - 1], s[n])
                                  ELSE KeptUpTo(s, I)[n - 1]
<1> DEFINE g == KeptUpTo(s, I)
<1>1. g = [n \in 0 .. Len(s) |-> Turn(s, I, g, n)]
  BY KeptUpToCopies DEF CopiesOf
<1> HIDE DEF g
<1>2. Len(s) \in Nat /\ 0 \in 0 .. Len(s) /\ 1 .. Len(s) \subseteq 0 .. Len(s)
  OBVIOUS
<1>3. \A n \in 0 .. Len(s) : g[n] = Turn(s, I, g, n)
  BY <1>1
<1>4. g[0] = <<>> /\ \A n \in 1 .. Len(s) : n # 0 /\ g[n] = Turn(s, I, g, n)
  BY <1>2, <1>3 DEF Turn
<1>5. \A n \in 1 .. Len(s) :
        g[n] = IF n \in I THEN Append(g[n - 1], s[n]) ELSE g[n - 1]
  BY <1>4 DEF Turn
<1> QED
  BY <1>4, <1>5 DEF g

\* Kept is s at an ascending row of places, which are those in I.
LEMMA KeptPlaces ==
  ASSUME NEW S, NEW s \in Seq(S), NEW I \in SUBSET (1 .. Len(s))
  PROVE  /\ Kept(s, I) \in Seq(S)
         /\ \E at \in [1 .. Len(Kept(s, I)) -> I] :
              /\ \A i \in 1 .. Len(Kept(s, I)) : Kept(s, I)[i] = s[at[i]]
              /\ \A i, j \in 1 .. Len(Kept(s, I)) : i < j => at[i] < at[j]
              /\ \A p \in I : \E i \in 1 .. Len(Kept(s, I)) : at[i] = p
<1> DEFINE g == KeptUpTo(s, I)
           J(n) == {p \in I : p <= n}
           Places(k, n, at) ==
             /\ \A i \in 1 .. Len(k) : k[i] = s[at[i]]
             /\ \A i, j \in 1 .. Len(k) : i < j => at[i] < at[j]
             /\ \A p \in J(n) : \E i \in 1 .. Len(k) : at[i] = p
           Good(n) == /\ g[n] \in Seq(S)
                      /\ \E at \in [1 .. Len(g[n]) -> J(n)] : Places(g[n], n, at)
           T == {n \in Nat : n <= Len(s) => Good(n)}
<1>1. /\ g[0] = <<>> /\ Len(s) \in Nat
      /\ \A n \in 1 .. Len(s) :
           g[n] = IF n \in I THEN Append(g[n - 1], s[n]) ELSE g[n - 1]
  BY KeptUpToTurns
<1> HIDE DEF g
<1>2. \A p \in I : p \in Nat /\ 1 <= p /\ p <= Len(s)
  BY <1>1
<1>3. 0 \in T
  <2>1. J(0) = {}
    <3>1. \A p \in I : ~(p <= 0)
      BY <1>2
    <3> QED
      BY <3>1, Zenon
  <2>2. 1 .. Len(g[0]) = {} /\ g[0] \in Seq(S)
    BY <1>1
  <2>3. [i \in {} |-> 0] \in [1 .. Len(g[0]) -> J(0)]
    BY <2>1, <2>2
  <2> QED
    BY <2>1, <2>2, <2>3
<1>4. ASSUME NEW n \in T PROVE n + 1 \in T
  <2>1. n \in Nat /\ n + 1 \in Nat /\ (n + 1) - 1 = n
    OBVIOUS
  <2> SUFFICES ASSUME n + 1 <= Len(s) PROVE Good(n + 1)
    BY <2>1
  <2>2. /\ g[n + 1] = (IF n + 1 \in I THEN Append(g[n], s[n + 1]) ELSE g[n])
        /\ s[n + 1] \in S
    BY <1>1, <2>1
  <2>3. g[n] \in Seq(S)
    BY <2>1
  <2>4. PICK at \in [1 .. Len(g[n]) -> J(n)] : Places(g[n], n, at)
    BY <2>1
  <2>5. CASE n + 1 \notin I
    <3>1. J(n + 1) = J(n)
      <4>1. \A p \in I : p <= n + 1 <=> p <= n
        BY <1>2, <2>1, <2>5
      <4> QED
        BY <4>1, Zenon
    <3>2. g[n + 1] = g[n]
      BY <2>2, <2>5
    <3>3. at \in [1 .. Len(g[n + 1]) -> J(n + 1)] /\ Places(g[n + 1], n + 1, at)
      BY <2>4, <3>1, <3>2
    <3> HIDE DEF Places
    <3> QED
      BY <2>3, <3>2, <3>3
  <2>6. CASE n + 1 \in I
    <3> DEFINE k == g[n]
               l == Append(k, s[n + 1])
               to == [i \in 1 .. Len(k) + 1 |-> IF i <= Len(k) THEN at[i] ELSE n + 1]
    <3>1. g[n + 1] = l /\ k \in Seq(S) /\ Places(k, n, at)
      BY <2>2, <2>3, <2>4, <2>6
    <3>2. /\ l \in Seq(S) /\ Len(l) = Len(k) + 1 /\ Len(k) \in Nat
          /\ l[Len(k) + 1] = s[n + 1] /\ \A i \in 1 .. Len(k) : l[i] = k[i]
      BY <2>2, <2>3
    <3>3. J(n + 1) = J(n) \cup {n + 1}
      <4>1. \A p \in I : p <= n + 1 <=> p <= n \/ p = n + 1
        BY <1>2, <2>1
      <4> QED
        BY <2>6, <4>1, Zenon
    <3> HIDE DEF k, l
    <3>4. to \in [1 .. Len(l) -> J(n + 1)]
      <4>1. ASSUME NEW i \in 1 .. Len(k) + 1
            PROVE  (IF i <= Len(k) THEN at[i] ELSE n + 1) \in J(n + 1)
        <5>1. i <= Len(k) => i \in 1 .. Len(k)
          BY <3>2
        <5>2. i <= Len(k) => at[i] \in J(n)
          BY <2>4, <5>1 DEF k
        <5> QED
          BY <3>3, <5>2
      <4> QED
        BY <3>2, <4>1
    <3>5. \A i \in 1 .. Len(l) : (i \in 1 .. Len(k) /\ to[i] = at[i])
                                \/ (i = Len(k) + 1 /\ to[i] = n + 1)
      BY <3>2
    <3>6. \A i \in 1 .. Len(l) : l[i] = s[to[i]]
      BY <3>1, <3>2, <3>5
    <3>7. \A i, j \in 1 .. Len(l) : i < j => to[i] < to[j]
      <4> SUFFICES ASSUME NEW i \in 1 .. Len(l), NEW j \in 1 .. Len(l), i < j
                   PROVE  to[i] < to[j]
        OBVIOUS
      <4>1. i \in 1 .. Len(k) /\ to[i] = at[i]
        BY <3>2, <3>5
      <4>2. CASE j \in 1 .. Len(k) /\ to[j] = at[j]
        BY <3>1, <4>1, <4>2
      <4>3. CASE j = Len(k) + 1 /\ to[j] = n + 1
        <5>1. at[i] \in J(n)
          BY <2>4, <4>1 DEF k
        <5>2. at[i] \in Nat /\ at[i] <= n
          BY <1>2, <5>1
        <5> QED
          BY <2>1, <4>1, <4>3, <5>2
      <4> QED
        BY <3>5, <4>2, <4>3
    <3>8. \A p \in J(n + 1) : \E i \in 1 .. Len(l) : to[i] = p
      <4> SUFFICES ASSUME NEW p \in J(n + 1) PROVE \E i \in 1 .. Len(l) : to[i] = p
        OBVIOUS
      <4>1. CASE p \in J(n)
        <5>1. PICK i \in 1 .. Len(k) : at[i] = p
          BY <3>1, <4>1
        <5>2. i \in 1 .. Len(l) /\ to[i] = at[i]
          BY <3>2
        <5> QED
          BY <5>1, <5>2
      <4>2. CASE p = n + 1
        <5>1. Len(k) + 1 \in 1 .. Len(l) /\ to[Len(k) + 1] = n + 1
          BY <3>2
        <5> QED
          BY <4>2, <5>1
      <4> QED
        BY <3>3, <4>1, <4>2
    <3>9. Places(l, n + 1, to)
      <4> HIDE DEF to
      <4> QED
        BY <3>6, <3>7, <3>8
    <3> HIDE DEF to, Places
    <3> QED
      BY <3>1, <3>2, <3>4, <3>9
  <2> QED
    BY <2>5, <2>6
<1>5. T = Nat
  <2> HIDE DEF T
  <2>1. T \in SUBSET Nat
    BY DEF T
  <2> QED
    BY <1>3, <1>4, <2>1, SetInduction
<1>6. Good(Len(s))
  <2>1. Len(s) \in T
    <3> HIDE DEF T
    <3> QED
      BY <1>1, <1>5
  <2> QED
    BY <1>1, <2>1
<1>7. J(Len(s)) = I
  BY <1>2
<1> QED
  BY <1>6, <1>7 DEF Kept, g
=============================================================================
