---------------------------- MODULE CommonLemmas ----------------------------
(***************************************************************************)
(* What the proofs of several components need: of numbers and sequences,   *)
(* and of the merge by which both physics worlds tell the game who touches *)
(* whom.                                                                   *)
(***************************************************************************)
EXTENDS ContactEvents, Integers, SequencesExt, SequenceTheorems, WellFoundedInduction, TLAPS

\* A set of numbers that is not empty has a least element.
LEMMA Least ==
    ASSUME NEW T \in SUBSET Nat, T # {}
    PROVE  \E m \in T : \A d \in T : m <= d
  <1> DEFINE Below == OpToRel(<, Nat)
  <1>1. \A i, j \in Nat : i < j => <<i, j>> \in Below
    BY DEF OpToRel
  <1>2. IsWellFoundedOn(Below, Nat)
    BY NatLessThanWellFounded
  <1> HIDE DEF Below
  <1>3. PICK m \in T : \A d \in T : ~(<<d, m>> \in Below)
    BY <1>2, WFMin
  <1>4. SUFFICES ASSUME NEW d \in T PROVE m <= d
    OBVIOUS
  <1>5. ~(<<d, m>> \in Below)
    BY <1>3
  <1>6. ~(d < m)
    BY <1>1, <1>5
  <1> QED
    BY <1>6

\* erase(): one element goes, the later ones move up.
LEMMA EraseProperties ==
    ASSUME NEW T, NEW s \in Seq(T), NEW k \in 1..Len(s)
    PROVE  /\ RemoveAt(s, k) \in Seq(T)
           /\ Len(RemoveAt(s, k)) = Len(s) - 1
           /\ \A i \in 1..(Len(s) - 1) : RemoveAt(s, k)[i] = IF i < k THEN s[i] ELSE s[i + 1]
  <1> DEFINE front == SubSeq(s, 1, k - 1)
             rest  == SubSeq(s, k + 1, Len(s))
  <1>1. /\ front \in Seq(T) /\ Len(front) = k - 1
        /\ \A i \in 1..(k - 1) : front[i] = s[i]
    <2>1. \A i \in 1..(k - 1) : s[i] \in T
      BY ElementOfSeq
    <2> QED
      BY <2>1, SubSeqProperties
  <1>2. /\ rest \in Seq(T) /\ Len(rest) = Len(s) - k
        /\ \A i \in 1..(Len(s) - k) : rest[i] = s[k + i]
    <2>1. \A i \in (k + 1)..Len(s) : s[i] \in T
      BY ElementOfSeq
    <2> QED
      BY <2>1, SubSeqProperties
  <1> HIDE DEF front, rest
  <1>3. RemoveAt(s, k) = front \o rest
    BY DEF RemoveAt, front, rest
  <1>4. /\ front \o rest \in Seq(T)
        /\ Len(front \o rest) = Len(front) + Len(rest)
        /\ \A i \in 1..(Len(front) + Len(rest)) :
              (front \o rest)[i] = IF i <= Len(front) THEN front[i] ELSE rest[i - Len(front)]
    BY <1>1, <1>2, ConcatProperties
  <1>n. k - 1 + (Len(s) - k) = Len(s) - 1
    OBVIOUS
  <1>5. \A i \in 1..(Len(s) - 1) : (front \o rest)[i] = IF i < k THEN s[i] ELSE s[i + 1]
    <2> SUFFICES ASSUME NEW i \in 1..(Len(s) - 1)
                 PROVE  (front \o rest)[i] = IF i < k THEN s[i] ELSE s[i + 1]
      OBVIOUS
    <2>0. i \in 1..(Len(front) + Len(rest)) /\ Len(front) = k - 1 /\ k \in Int /\ i \in Int
      BY <1>1, <1>2, <1>n
    <2>1. CASE i < k
      <3>1. i <= Len(front) /\ i \in 1..(k - 1)
        BY <2>0, <2>1
      <3> QED
        BY <3>1, <2>0, <2>1, <1>1, <1>4
    <2>2. CASE ~(i < k)
      <3>1. i - (k - 1) \in 1..(Len(s) - k) /\ k + (i - (k - 1)) = i + 1
        BY <2>0, <2>2
      <3>2. (front \o rest)[i] = rest[i - (k - 1)]
        <4>1. ~(i <= Len(front))
          BY <2>0, <2>2
        <4> QED
          BY <2>0, <4>1, <1>4
      <3> QED
        BY <3>1, <3>2, <2>2, <1>2
    <2> QED
      BY <2>1, <2>2
  <1> QED
    BY <1>1, <1>2, <1>3, <1>4, <1>n, <1>5
\* Append and Tail as the functions they are.
LEMMA AppendAsFunction ==
    ASSUME NEW S, NEW s \in Seq(S), NEW e \in S
    PROVE  Append(s, e) = [i \in 1..(Len(s) + 1) |-> IF i = Len(s) + 1 THEN e ELSE s[i]]
<1> DEFINE t == Append(s, e)
           n == Len(s) + 1
<1>1. Len(s) \in Nat
  BY LenProperties
<1>2. t \in Seq(S) /\ Len(t) = n /\ t[n] = e /\ \A i \in 1..Len(s) : t[i] = s[i]
  BY AppendProperties
<1>3. t = [i \in 1..n |-> t[i]]
  BY <1>2, LenProperties
<1> HIDE DEF t
<1>4. \A i \in 1..n : t[i] = IF i = n THEN e ELSE s[i]
  BY <1>1, <1>2
<1>5. t = [i \in 1..n |-> IF i = n THEN e ELSE s[i]]
  BY <1>3, <1>4
<1> QED
  BY <1>5 DEF t

\* What is left of a sequence without its head.
LEMMA TailAsFunction ==
    ASSUME NEW S, NEW s \in Seq(S), s # <<>>
    PROVE  Tail(s) = [i \in 1..(Len(s) - 1) |-> s[i + 1]]
<1> DEFINE t == Tail(s)
<1>1. t \in Seq(S) /\ Len(t) = Len(s) - 1 /\ \A i \in 1..Len(t) : t[i] = s[i + 1]
  BY HeadTailProperties
<1>2. t = [i \in 1..Len(t) |-> t[i]]
  BY <1>1, LenProperties
<1> HIDE DEF t
<1>3. t = [i \in 1..(Len(s) - 1) |-> s[i + 1]]
  BY <1>1, <1>2
<1> QED
  BY <1>3 DEF t

\* Appending what is not there.
LEMMA AppendToSet ==
    ASSUME NEW T, NEW s \in Seq(T), NEW e \in T
    PROVE  /\ Append(s, e) \in Seq(T)
           /\ ToSet(Append(s, e)) = ToSet(s) \cup {e}
           /\ IsInjective(s) /\ e \notin ToSet(s) => IsInjective(Append(s, e))
  <1> DEFINE t == Append(s, e)
  <1>1. Len(s) \in Nat /\ DOMAIN s = 1..Len(s)
    BY LenProperties
  <1>2. /\ t \in Seq(T) /\ DOMAIN t = 1..(Len(s) + 1)
        /\ t[Len(s) + 1] = e /\ \A i \in 1..Len(s) : t[i] = s[i]
    BY AppendProperties, LenProperties
  <1> HIDE DEF t
  <1>3. 1..(Len(s) + 1) = 1..Len(s) \cup {Len(s) + 1} /\ Len(s) + 1 \notin 1..Len(s)
    BY <1>1
  <1>4. ToSet(t) = ToSet(s) \cup {e}
    BY <1>1, <1>2, <1>3 DEF ToSet
  <1>5. ASSUME IsInjective(s), e \notin ToSet(s) PROVE IsInjective(t)
    BY <1>1, <1>2, <1>3, <1>5 DEF ToSet, IsInjective
  <1> QED
    BY <1>2, <1>4, <1>5 DEF t

\* Taking away an element that occurs once at most.
LEMMA RemoveFirstProperties ==
    ASSUME NEW T, NEW s \in Seq(T), NEW e, IsInjective(s)
    PROVE  /\ RemoveFirst(s, e) \in Seq(T)
           /\ IsInjective(RemoveFirst(s, e))
           /\ ToSet(RemoveFirst(s, e)) = ToSet(s) \ {e}
  <1>1. Len(s) \in Nat /\ DOMAIN s = 1..Len(s)
    BY LenProperties
  <1>2. CASE ~\E i \in 1..Len(s) : s[i] = e
    <2>1. RemoveFirst(s, e) = s /\ e \notin ToSet(s)
      BY <1>1, <1>2 DEF RemoveFirst, ToSet
    <2> QED
      BY <2>1
  <1>3. CASE \E i \in 1..Len(s) : s[i] = e
    <2> DEFINE k == SelectInSeq(s, LAMBDA v : v = e)
               t == RemoveAt(s, k)
    <2>1. k \in 1..Len(s) /\ s[k] = e
      <3> DEFINE I == {i \in 1..Len(s) : s[i] = e}
      <3>1. I # {} /\ I \in SUBSET Nat
        BY <1>3
      <3>2. k = Min(I)
        BY <3>1 DEF SelectInSeq
      <3>3. PICK m \in I : \A d \in I : m <= d
        <4> HIDE DEF I
        <4> QED
          BY <3>1, Least
      <3>4. Min(I) \in I
        BY <3>3 DEF Min
      <3> QED
        BY <3>2, <3>4
    <2>2. RemoveFirst(s, e) = t
      BY <1>3 DEF RemoveFirst
    <2> HIDE DEF k, t
    <2>3. /\ t \in Seq(T) /\ Len(t) = Len(s) - 1 /\ DOMAIN t = 1..(Len(s) - 1)
          /\ \A i \in 1..(Len(s) - 1) : t[i] = IF i < k THEN s[i] ELSE s[i + 1]
      BY <2>1, EraseProperties, LenProperties DEF t
    <2> DEFINE from(i) == IF i < k THEN i ELSE i + 1
    <2>4. \A i \in 1..(Len(s) - 1) : from(i) \in 1..Len(s) /\ from(i) # k /\ t[i] = s[from(i)]
      BY <1>1, <2>1, <2>3
    <2>5. \A i, j \in 1..(Len(s) - 1) : from(i) = from(j) => i = j
      BY <1>1, <2>1
    <2>6. \A j \in 1..Len(s) : j # k => \E i \in 1..(Len(s) - 1) : from(i) = j
      <3> SUFFICES ASSUME NEW j \in 1..Len(s), j # k
                   PROVE  \E i \in 1..(Len(s) - 1) : from(i) = j
        OBVIOUS
      <3>1. CASE j < k
        BY <3>1, <1>1, <2>1
      <3>2. CASE j > k
        <4>1. j - 1 \in 1..(Len(s) - 1) /\ from(j - 1) = j
          BY <3>2, <1>1, <2>1
        <4> QED
          BY <4>1
      <3> QED
        BY <3>1, <3>2, <2>1
    <2> HIDE DEF from
    <2>7. \A i, j \in 1..Len(s) : s[i] = s[j] => i = j
      BY <1>1 DEF IsInjective
    <2>8. IsInjective(t)
      BY <2>3, <2>4, <2>5, <2>7 DEF IsInjective
    <2>9. ToSet(t) = ToSet(s) \ {e}
      <3>1. \A x \in ToSet(t) : x \in ToSet(s) /\ x # e
        BY <1>1, <2>1, <2>3, <2>4, <2>7 DEF ToSet
      <3>2. ASSUME NEW x \in ToSet(s), x # e PROVE x \in ToSet(t)
        <4>1. PICK j \in 1..Len(s) : x = s[j]
          BY <1>1 DEF ToSet
        <4>2. PICK i \in 1..(Len(s) - 1) : from(i) = j
          BY <4>1, <3>2, <2>1, <2>6
        <4> QED
          BY <4>1, <4>2, <2>3, <2>4 DEF ToSet
      <3> QED
        BY <3>1, <3>2
    <2> QED
      BY <2>2, <2>3, <2>8, <2>9
  <1> QED
    BY <1>2, <1>3

\* Taking away the last element.
LEMMA FrontProperties ==
    ASSUME NEW T, NEW s \in Seq(T), s # <<>>, IsInjective(s)
    PROVE  /\ Len(s) \in DOMAIN s
           /\ SubSeq(s, 1, Len(s) - 1) \in Seq(T)
           /\ IsInjective(SubSeq(s, 1, Len(s) - 1))
           /\ ToSet(SubSeq(s, 1, Len(s) - 1)) = ToSet(s) \ {s[Len(s)]}
  <1> DEFINE t == SubSeq(s, 1, Len(s) - 1)
  <1>1. Len(s) \in Nat /\ DOMAIN s = 1..Len(s) /\ Len(s) > 0
    BY LenProperties, EmptySeq
  <1>2. \A i \in 1..(Len(s) - 1) : s[i] \in T
    BY <1>1, ElementOfSeq
  <1>3. t \in Seq(T) /\ Len(t) = Len(s) - 1 /\ \A i \in 1..(Len(s) - 1) : t[i] = s[i]
    BY <1>1, <1>2, SubSeqProperties
  <1>4. DOMAIN t = 1..(Len(s) - 1)
    BY <1>3, LenProperties
  <1> HIDE DEF t
  <1>5. 1..Len(s) = 1..(Len(s) - 1) \cup {Len(s)} /\ Len(s) \notin 1..(Len(s) - 1)
    BY <1>1
  <1>6. \A i, j \in 1..Len(s) : s[i] = s[j] => i = j
    BY <1>1 DEF IsInjective
  <1>7. IsInjective(t)
    BY <1>3, <1>4, <1>5, <1>6 DEF IsInjective
  <1>8. ToSet(t) = ToSet(s) \ {s[Len(s)]}
    BY <1>1, <1>3, <1>4, <1>5, <1>6 DEF ToSet
  <1> QED
    BY <1>1, <1>3, <1>5, <1>7, <1>8 DEF t
-----------------------------------------------------------------------------
\* Induction up to a bound.
LEMMA IntervalInduction ==
    ASSUME NEW N \in Nat, NEW T \in SUBSET (0..N), 0 \in T,
           \A n \in 1..N : n - 1 \in T => n \in T
    PROVE  T = 0..N
  <1> DEFINE Rest == (0..N) \ T
  <1> SUFFICES ASSUME Rest # {} PROVE FALSE
    OBVIOUS
  <1>1. Rest \in SUBSET Nat
    OBVIOUS
  <1> HIDE DEF Rest
  <1>2. PICK k \in Rest : \A d \in Rest : k <= d
    BY <1>1, Least
  <1>3. k \in 1..N /\ k - 1 \in 0..N /\ ~(k <= k - 1)
    BY <1>2 DEF Rest
  <1>4. k - 1 \in T
    BY <1>2, <1>3 DEF Rest
  <1> QED
    BY <1>2, <1>3, <1>4 DEF Rest

\* A recursive definition that goes on step by step defines something, and
\* never leaves a set that no step leaves.
LEMMA LoopExists ==
    ASSUME NEW S, NEW a \in S, NEW N \in Nat, NEW step \in [1..N -> [S -> S]]
    PROVE  \E f \in [0..N -> S] : f[0] = a /\ \A n \in 1..N : f[n] = step[n][f[n - 1]]
  <1> DEFINE Runs(m, f) == /\ f \in [0..m -> S] /\ f[0] = a
                           /\ \A n \in 1..m : f[n] = step[n][f[n - 1]]
             Can(m) == \E f : Runs(m, f)
             T == {m \in 0..N : Can(m)}
  <1>1. 0 \in T
    <2> DEFINE f == [n \in 0..0 |-> a]
    <2>1. f \in [0..0 -> S] /\ f[0] = a /\ ~\E n \in 1..0 : TRUE
      OBVIOUS
    <2> HIDE DEF f
    <2>2. Can(0)
      BY <2>1
    <2> HIDE DEF Can
    <2> QED
      BY <2>2
  <1>2. ASSUME NEW m \in 1..N, m - 1 \in T PROVE m \in T
    <2>1. PICK f : Runs(m - 1, f)
      BY <1>2
    <2> DEFINE g == [n \in 0..m |-> IF n = m THEN step[m][f[m - 1]] ELSE f[n]]
    <2>2. m - 1 \in 0..(m - 1) /\ f[m - 1] \in S /\ step[m][f[m - 1]] \in S
      BY <2>1, <1>2
    <2>3. \A n \in 0..m : g[n] \in S /\ (n # m => n \in 0..(m - 1) /\ g[n] = f[n])
      BY <2>1, <2>2, <1>2
    <2>4. \A n \in 1..m : g[n] = step[n][g[n - 1]]
      <3> SUFFICES ASSUME NEW n \in 1..m PROVE g[n] = step[n][g[n - 1]]
        OBVIOUS
      <3>1. n - 1 \in 0..(m - 1) /\ n - 1 # m /\ g[n - 1] = f[n - 1]
        BY <2>3, <1>2
      <3>2. CASE n = m
        BY <3>1, <3>2
      <3>3. CASE n # m
        BY <3>1, <3>3, <2>1, <2>3
      <3> QED
        BY <3>2, <3>3
    <2>5. g[0] = a /\ g \in [0..m -> S]
      BY <2>1, <2>3, <1>2
    <2> HIDE DEF g
    <2>6. Can(m)
      BY <2>4, <2>5
    <2> HIDE DEF Can
    <2> QED
      BY <2>6, <1>2
  <1>3. T \in SUBSET (0..N)
    OBVIOUS
  <1>4. N \in T
    <2> HIDE DEF T
    <2> QED
      BY <1>1, <1>2, <1>3, IntervalInduction
  <1>5. PICK f : Runs(N, f)
    BY <1>4
  <1> QED
    BY <1>5

\* What is in a sequence made of two.
LEMMA ConcatToSet ==
    ASSUME NEW T, NEW s \in Seq(T), NEW t \in Seq(T)
    PROVE  s \o t \in Seq(T) /\ ToSet(s \o t) = ToSet(s) \cup ToSet(t)
  <1> DEFINE u == s \o t
             m == Len(s)
             n == Len(t)
  <1>1. m \in Nat /\ n \in Nat /\ DOMAIN s = 1..m /\ DOMAIN t = 1..n
    BY LenProperties
  <1>2. /\ u \in Seq(T) /\ Len(u) = m + n
        /\ \A i \in 1..(m + n) : u[i] = IF i <= m THEN s[i] ELSE t[i - m]
    BY ConcatProperties
  <1>3. DOMAIN u = 1..(m + n)
    BY <1>2, LenProperties
  <1> HIDE DEF u, m, n
  <1>4. ASSUME NEW x \in ToSet(u) PROVE x \in ToSet(s) \cup ToSet(t)
    <2>1. PICK i \in 1..(m + n) : x = u[i]
      BY <1>3 DEF ToSet
    <2>2. CASE i <= m
      BY <2>1, <2>2, <1>1, <1>2 DEF ToSet
    <2>3. CASE ~(i <= m)
      <3>1. i - m \in 1..n /\ u[i] = t[i - m]
        BY <2>1, <2>3, <1>1, <1>2
      <3> QED
        BY <3>1, <2>1, <1>1 DEF ToSet
    <2> QED
      BY <2>2, <2>3
  <1>5. ASSUME NEW x \in ToSet(s) PROVE x \in ToSet(u)
    <2>1. PICK i \in 1..m : x = s[i]
      BY <1>1 DEF ToSet
    <2>2. i \in 1..(m + n) /\ u[i] = s[i]
      BY <2>1, <1>1, <1>2
    <2> QED
      BY <2>1, <2>2, <1>3 DEF ToSet
  <1>6. ASSUME NEW x \in ToSet(t) PROVE x \in ToSet(u)
    <2>1. PICK i \in 1..n : x = t[i]
      BY <1>1 DEF ToSet
    <2>2. i + m \in 1..(m + n) /\ ~(i + m <= m) /\ i + m - m = i
      BY <2>1, <1>1
    <2> DEFINE k == i + m
    <2>3. u[k] = IF k <= m THEN s[k] ELSE t[k - m]
      <3>1. k \in 1..(m + n)
        BY <2>2
      <3> HIDE DEF k
      <3> QED
        BY <3>1, <1>2
    <2>4. ~(k <= m) /\ k - m = i
      BY <2>1, <2>2, <1>1 DEF k
    <2>5. u[k] = t[i]
      <3> HIDE DEF k
      <3> QED
        BY <2>3, <2>4
    <2> QED
      BY <2>1, <2>2, <2>5, <1>3 DEF ToSet
  <1> QED
    BY <1>2, <1>4, <1>5, <1>6 DEF u
-----------------------------------------------------------------------------
(* The merge of contact lists, whose contacts name bodies by slot and      *)
(* generation.                                                             *)

SlotContacts == [first  : [slot : Nat, generation : Nat],
                 second : [slot : Nat, generation : Nat]]

InSlotOrder(list) ==
    list \in Seq(SlotContacts) /\ \A i, j \in DOMAIN list : i < j => SlotLess(list[i], list[j])

EventType == [phase : {"Begin", "Stay", "End"}, contact : SlotContacts]

\* SlotLess orders contacts by their slots.
LEMMA SlotOrder ==
    ASSUME NEW p \in SlotContacts, NEW q \in SlotContacts, NEW r \in SlotContacts
    PROVE  /\ ~SlotLess(p, p)
           /\ SlotLess(p, q) /\ SlotLess(q, r) => SlotLess(p, r)
           /\ ~SlotLess(q, p) /\ SlotLess(q, r) => SlotLess(p, r)
  <1>1. /\ p.first.slot \in Nat /\ p.second.slot \in Nat /\ q.first.slot \in Nat
        /\ q.second.slot \in Nat /\ r.first.slot \in Nat /\ r.second.slot \in Nat
    BY DEF SlotContacts
  <1> QED
    BY <1>1 DEF SlotLess

\* The typing facts the merge needs.
LEMMA ListParts ==
    ASSUME NEW list, InSlotOrder(list)
    PROVE  /\ Len(list) \in Nat /\ DOMAIN list = 1..Len(list)
           /\ \A i \in 1..Len(list) : list[i] \in SlotContacts
           /\ ToSet(list) = {list[i] : i \in 1..Len(list)}
  <1>1. list \in Seq(SlotContacts) /\ Len(list) \in Nat /\ DOMAIN list = 1..Len(list)
    BY LenProperties DEF InSlotOrder
  <1> QED
    BY <1>1, ElementOfSeq DEF ToSet

\* A contact no later than one of a list comes before the rest of it.
LEMMA ComesBefore ==
    ASSUME NEW list, InSlotOrder(list), NEW k \in 1..Len(list), NEW p \in SlotContacts,
           ~SlotLess(list[k], p)
    PROVE  \A i \in (k + 1)..Len(list) : SlotLess(p, list[i])
  <1> SUFFICES ASSUME NEW i \in (k + 1)..Len(list) PROVE SlotLess(p, list[i])
    OBVIOUS
  <1>1. i \in 1..Len(list) /\ k < i
    BY ListParts
  <1>2. SlotLess(list[k], list[i]) /\ list[k] \in SlotContacts /\ list[i] \in SlotContacts
    BY <1>1, ListParts DEF InSlotOrder
  <1> QED
    BY <1>2, SlotOrder

\* A contact between two neighbours of a list is not in it.
LEMMA IsBetween ==
    ASSUME NEW list, InSlotOrder(list), NEW p \in SlotContacts,
           \A i \in 1..Len(list) : SlotLess(list[i], p) \/ SlotLess(p, list[i]) \/ list[i] # p
    PROVE  p \notin ToSet(list)
  BY ListParts, SlotOrder

\* The merge so far: it is through with what comes before the rest, and has
\* reported of it what has begun and what has ended.
Merging(previous, current, m) ==
    /\ m.old \in 1..(Len(previous) + 1) /\ m.new \in 1..(Len(current) + 1)
    /\ m.events \in Seq(EventType)
    /\ \A i \in 1..(m.old - 1), j \in m.new..Len(current) : SlotLess(previous[i], current[j])
    /\ \A i \in m.old..Len(previous), j \in 1..(m.new - 1) : SlotLess(current[j], previous[i])
    /\ \A p \in SlotContacts :
          /\ Event("Begin", p) \in ToSet(m.events) <=>
                p \notin ToSet(previous) /\ \E j \in 1..(m.new - 1) : p = current[j]
          /\ Event("End", p) \in ToSet(m.events) <=>
                p \notin ToSet(current) /\ \E i \in 1..(m.old - 1) : p = previous[i]

IsMerged(previous, current, m) == m.old = Len(previous) + 1 /\ m.new = Len(current) + 1

\* Events differ in phase or in contact.
LEMMA EventParts ==
    /\ \A p \in SlotContacts : /\ Event("Begin", p) \in EventType /\ Event("End", p) \in EventType
                           /\ Event("Stay", p) \in EventType
    /\ \A p, q : /\ Event("Begin", p) = Event("Begin", q) <=> p = q
                 /\ Event("End", p) = Event("End", q) <=> p = q
                 /\ Event("Begin", p) # Event("End", q)
                 /\ Event("Begin", p) # Event("Stay", q)
                 /\ Event("End", p) # Event("Stay", q)
  <1>1. \A f, p : Event(f, p).phase = f /\ Event(f, p).contact = p
    BY DEF Event
  <1>2. \A p \in SlotContacts : /\ Event("Begin", p) \in EventType /\ Event("End", p) \in EventType
                            /\ Event("Stay", p) \in EventType
    BY DEF EventType, Event
  <1>3. "Begin" # "End" /\ "Begin" # "Stay" /\ "End" # "Stay"
    OBVIOUS
  <1>4. \A p, q : /\ Event("Begin", p) = Event("Begin", q) => p = q
                  /\ Event("End", p) = Event("End", q) => p = q
                  /\ Event("Begin", p) # Event("End", q)
                  /\ Event("Begin", p) # Event("Stay", q)
                  /\ Event("End", p) # Event("Stay", q)
    BY <1>1, <1>3
  <1> QED
    BY <1>2, <1>4

MergeType == [old : Nat, new : Nat, events : Seq(EventType)]

\* Events that a turn adds.
LEMMA EventsAdded ==
    ASSUME NEW events \in Seq(EventType), NEW p \in SlotContacts, NEW q \in SlotContacts
    PROVE  /\ events \o Begun(p) \in Seq(EventType)
           /\ ToSet(events \o Begun(p)) = ToSet(events) \cup {Event("Begin", p)}
           /\ events \o Ended(p) \in Seq(EventType)
           /\ ToSet(events \o Ended(p)) = ToSet(events) \cup {Event("End", p)}
           /\ events \o Met(p, q) \in Seq(EventType)
           /\ ToSet(events \o Met(p, q)) =
                 ToSet(events) \cup (IF p = q THEN {Event("Stay", q)} ELSE {Event("End", p), Event("Begin", q)})
  <1> DEFINE T == EventType
             s == events
  <1>1. \A e \in T : <<e>> \in Seq(T) /\ ToSet(<<e>>) = {e}
    BY DEF ToSet
  <1>2. \A e, f \in T : <<e, f>> \in Seq(T) /\ ToSet(<<e, f>>) = {e, f}
    <2> TAKE e \in T, f \in T
    <2>1. <<e, f>> \in Seq(T)
      OBVIOUS
    <2>2. DOMAIN <<e, f>> = {1, 2} /\ <<e, f>>[1] = e /\ <<e, f>>[2] = f
      OBVIOUS
    <2>3. ToSet(<<e, f>>) = {e, f}
      BY <2>2 DEF ToSet
    <2> QED
      BY <2>1, <2>3
  <1>3. s \in Seq(T)
    OBVIOUS
  <1>4. Event("Begin", p) \in T /\ Event("End", p) \in T /\ Event("Stay", q) \in T /\ Event("Begin", q) \in T
    BY EventParts
  <1> HIDE DEF T, s
  <1>5. \A t \in Seq(T) : s \o t \in Seq(T) /\ ToSet(s \o t) = ToSet(s) \cup ToSet(t)
    BY <1>3, ConcatToSet
  <1>6. s \o Begun(p) \in Seq(T) /\ ToSet(s \o Begun(p)) = ToSet(s) \cup {Event("Begin", p)}
    BY <1>1, <1>4, <1>5 DEF Begun
  <1>7. s \o Ended(p) \in Seq(T) /\ ToSet(s \o Ended(p)) = ToSet(s) \cup {Event("End", p)}
    BY <1>1, <1>4, <1>5 DEF Ended
  <1>8. /\ s \o Met(p, q) \in Seq(T)
        /\ ToSet(s \o Met(p, q)) =
              ToSet(s) \cup (IF p = q THEN {Event("Stay", q)} ELSE {Event("End", p), Event("Begin", q)})
    <2>1. CASE p = q
      BY <2>1, <1>1, <1>4, <1>5 DEF Met
    <2>2. CASE p # q
      BY <2>2, <1>2, <1>4, <1>5 DEF Met
    <2> QED
      BY <2>1, <2>2
  <1> QED
    BY <1>6, <1>7, <1>8 DEF T, s

\* A turn keeps the merge what it is, and gets on with it.
LEMMA MergeTurnKeeps ==
    ASSUME NEW P, NEW C, InSlotOrder(P), InSlotOrder(C), NEW m \in MergeType, Merging(P, C, m)
    PROVE  LET s == MergeTurn(m, P, C) IN
           /\ s \in MergeType /\ Merging(P, C, s)
           /\ IsMerged(P, C, m) => s = m
           /\ ~IsMerged(P, C, m) => s.old + s.new > m.old + m.new
  <1> DEFINE s == MergeTurn(m, P, C)
             a == m.old
             b == m.new
             x == P[a]
             y == C[b]
             ev == m.events
             oldLeft == a <= Len(P)
             newLeft == b <= Len(C)
             takesOld == oldLeft /\ (newLeft => ~SlotLess(y, x))
             takesNew == newLeft /\ (oldLeft => ~SlotLess(x, y))
  <1>p. /\ Len(P) \in Nat /\ Len(C) \in Nat
        /\ \A i \in 1..Len(P) : P[i] \in SlotContacts /\ P[i] \in ToSet(P)
        /\ \A j \in 1..Len(C) : C[j] \in SlotContacts /\ C[j] \in ToSet(C)
    BY ListParts
  <1>m. /\ a \in 1..(Len(P) + 1) /\ b \in 1..(Len(C) + 1)
        /\ ev \in Seq(EventType)
        /\ \A i \in 1..(a - 1), j \in b..Len(C) : SlotLess(P[i], C[j])
        /\ \A i \in a..Len(P), j \in 1..(b - 1) : SlotLess(C[j], P[i])
        /\ \A p \in SlotContacts :
              /\ Event("Begin", p) \in ToSet(ev) <=> p \notin ToSet(P) /\ \E j \in 1..(b - 1) : p = C[j]
              /\ Event("End", p) \in ToSet(ev) <=> p \notin ToSet(C) /\ \E i \in 1..(a - 1) : p = P[i]
    BY DEF Merging
  <1>mt. m \in MergeType /\ a \in Nat /\ b \in Nat
    BY DEF MergeType
  <1>s. s = CASE takesOld /\ takesNew ->
                     [old |-> a + 1, new |-> b + 1, events |-> ev \o Met(x, y)]
              [] takesOld /\ ~takesNew -> [m EXCEPT !.old = @ + 1, !.events = @ \o Ended(x)]
              [] ~takesOld /\ takesNew -> [m EXCEPT !.new = @ + 1, !.events = @ \o Begun(y)]
              [] OTHER -> m
    BY DEF MergeTurn
  <1>x. oldLeft => a \in 1..Len(P) /\ x \in SlotContacts /\ x \in ToSet(P)
    BY <1>p, <1>m
  <1>y. newLeft => b \in 1..Len(C) /\ y \in SlotContacts /\ y \in ToSet(C)
    BY <1>p, <1>m
  <1>o. takesOld <=> oldLeft /\ (newLeft => ~SlotLess(y, x))
    OBVIOUS
  <1>n. takesNew <=> newLeft /\ (oldLeft => ~SlotLess(x, y))
    OBVIOUS
  <1>l. (oldLeft <=> a <= Len(P)) /\ (newLeft <=> b <= Len(C))
    OBVIOUS
  <1>xy. x = P[a] /\ y = C[b]
    OBVIOUS
  <1>f. m.old = a /\ m.new = b /\ m.events = ev
    OBVIOUS
  <1> HIDE DEF s, a, b, ev, x, y, takesOld, takesNew, oldLeft, newLeft
  <1>1. CASE takesOld /\ ~takesNew
    <2>1. oldLeft /\ x \in SlotContacts /\ a \in 1..Len(P) /\ x \in ToSet(P)
      BY <1>1, <1>o, <1>x
    <2>2. \A j \in b..Len(C) : SlotLess(x, C[j])
      <3> SUFFICES ASSUME NEW j \in b..Len(C) PROVE SlotLess(x, C[j])
        OBVIOUS
      <3>1. newLeft /\ SlotLess(x, y) /\ b \in 1..Len(C) /\ y \in SlotContacts /\ j \in 1..Len(C) /\ C[j] \in SlotContacts
        BY <1>1, <2>1, <1>n, <1>l, <1>p, <1>m, <1>y
      <3>2. CASE j = b
        BY <3>1, <3>2, <1>xy
      <3>3. CASE j # b
        <4>1. b < j
          BY <3>3, <1>m
        <4>2. SlotLess(y, C[j])
          BY <3>1, <4>1, <1>xy, <1>p DEF InSlotOrder
        <4> QED
          BY <2>1, <3>1, <4>2, SlotOrder
      <3> QED
        BY <3>2, <3>3
    <2>3. x \notin ToSet(C)
      <3>1. \A j \in 1..Len(C) : SlotLess(C[j], x) \/ SlotLess(x, C[j]) \/ C[j] # x
        <4> TAKE j \in 1..Len(C)
        <4>1. CASE j < b
          <5>1. j \in 1..(b - 1) /\ a \in a..Len(P)
            BY <4>1, <1>m, <2>1
          <5> QED
            BY <5>1, <1>m, <1>xy
        <4>2. CASE ~(j < b)
          <5>1. j \in b..Len(C)
            BY <4>2, <1>m
          <5> QED
            BY <5>1, <2>2
        <4> QED
          BY <4>1, <4>2
      <3> QED
        BY <3>1, <2>1, IsBetween
    <2>4. s = [m EXCEPT !.old = @ + 1, !.events = @ \o Ended(x)]
      BY <1>1, <1>s
    <2>5. ev \o Ended(x) \in Seq(EventType) /\ ToSet(ev \o Ended(x)) = ToSet(ev) \cup {Event("End", x)}
      BY <2>1, <1>m, EventsAdded
    <2>6. /\ s.old = a + 1 /\ s.new = b /\ s.events = ev \o Ended(x) /\ s \in MergeType
      <3>1. a + 1 \in Nat
        BY <1>mt
      <3> QED
        BY <2>4, <2>5, <3>1, <1>mt, <1>f DEF MergeType
    <2>7. a + 1 \in 1..(Len(P) + 1) /\ a + 1 - 1 = a /\ 1..a = 1..(a - 1) \cup {a}
      BY <2>1, <1>p
    <2>8. \A i \in 1..a, j \in b..Len(C) : SlotLess(P[i], C[j])
      BY <2>2, <2>7, <1>m, <1>xy
    <2>9. \A i \in (a + 1)..Len(P), j \in 1..(b - 1) : SlotLess(C[j], P[i])
      <3> SUFFICES ASSUME NEW i \in (a + 1)..Len(P), NEW j \in 1..(b - 1) PROVE SlotLess(C[j], P[i])
        OBVIOUS
      <3>1. i \in a..Len(P)
        BY <2>1, <1>p
      <3> QED
        BY <3>1, <1>m
    <2>10. \A p \in SlotContacts :
              /\ Event("Begin", p) \in ToSet(s.events) <=> p \notin ToSet(P) /\ \E j \in 1..(b - 1) : p = C[j]
              /\ Event("End", p) \in ToSet(s.events) <=> p \notin ToSet(C) /\ \E i \in 1..a : p = P[i]
      <3> TAKE p \in SlotContacts
      <3>1. Event("Begin", p) \in ToSet(s.events) <=> Event("Begin", p) \in ToSet(ev)
        BY <2>5, <2>6, EventParts
      <3>2. Event("End", p) \in ToSet(s.events) <=> Event("End", p) \in ToSet(ev) \/ p = x
        BY <2>5, <2>6, EventParts
      <3>3. (\E i \in 1..a : p = P[i]) <=> (\E i \in 1..(a - 1) : p = P[i]) \/ p = x
        BY <2>7, <1>xy
      <3> QED
        BY <3>1, <3>2, <3>3, <2>3, <1>m
    <2>11. Merging(P, C, s)
      <3>1. s.events \in Seq(EventType)
        BY <2>5, <2>6
      <3>2. s.old - 1 = a
        BY <2>6, <1>mt
      <3> QED
        BY <2>6, <2>7, <2>8, <2>9, <2>10, <3>1, <3>2, <1>m DEF Merging
    <2>12. ~IsMerged(P, C, m) /\ s.old + s.new > a + b
      <3>1. a # Len(P) + 1
        BY <2>1, <1>p
      <3>2. a + 1 + b > a + b
        BY <1>mt
      <3> QED
        BY <3>1, <3>2, <2>6, <1>f DEF IsMerged
    <2> QED
      BY <2>6, <2>11, <2>12, <1>f DEF s
  <1>2. CASE ~takesOld /\ takesNew
    <2>1. newLeft /\ y \in SlotContacts /\ b \in 1..Len(C) /\ y \in ToSet(C)
      BY <1>2, <1>n, <1>y
    <2>2. \A i \in a..Len(P) : SlotLess(y, P[i])
      <3> SUFFICES ASSUME NEW i \in a..Len(P) PROVE SlotLess(y, P[i])
        OBVIOUS
      <3>1. oldLeft /\ SlotLess(y, x) /\ a \in 1..Len(P) /\ x \in SlotContacts /\ i \in 1..Len(P) /\ P[i] \in SlotContacts
        BY <1>2, <2>1, <1>o, <1>l, <1>p, <1>m, <1>x
      <3>2. CASE i = a
        BY <3>1, <3>2, <1>xy
      <3>3. CASE i # a
        <4>1. a < i
          BY <3>3, <1>m
        <4>2. SlotLess(x, P[i])
          BY <3>1, <4>1, <1>xy, <1>p DEF InSlotOrder
        <4> QED
          BY <2>1, <3>1, <4>2, SlotOrder
      <3> QED
        BY <3>2, <3>3
    <2>3. y \notin ToSet(P)
      <3>1. \A i \in 1..Len(P) : SlotLess(P[i], y) \/ SlotLess(y, P[i]) \/ P[i] # y
        <4> TAKE i \in 1..Len(P)
        <4>1. CASE i < a
          <5>1. i \in 1..(a - 1) /\ b \in b..Len(C)
            BY <4>1, <1>m, <2>1
          <5> QED
            BY <5>1, <1>m, <1>xy
        <4>2. CASE ~(i < a)
          <5>1. i \in a..Len(P)
            BY <4>2, <1>m
          <5> QED
            BY <5>1, <2>2
        <4> QED
          BY <4>1, <4>2
      <3> QED
        BY <3>1, <2>1, IsBetween
    <2>4. s = [m EXCEPT !.new = @ + 1, !.events = @ \o Begun(y)]
      BY <1>2, <1>s
    <2>5. ev \o Begun(y) \in Seq(EventType) /\ ToSet(ev \o Begun(y)) = ToSet(ev) \cup {Event("Begin", y)}
      BY <2>1, <1>m, EventsAdded
    <2>6. /\ s.old = a /\ s.new = b + 1 /\ s.events = ev \o Begun(y) /\ s \in MergeType
      <3>1. b + 1 \in Nat
        BY <1>mt
      <3> QED
        BY <2>4, <2>5, <3>1, <1>mt, <1>f DEF MergeType
    <2>7. b + 1 \in 1..(Len(C) + 1) /\ b + 1 - 1 = b /\ 1..b = 1..(b - 1) \cup {b}
      BY <2>1, <1>p
    <2>8. \A i \in a..Len(P), j \in 1..b : SlotLess(C[j], P[i])
      BY <2>2, <2>7, <1>m, <1>xy
    <2>9. \A i \in 1..(a - 1), j \in (b + 1)..Len(C) : SlotLess(P[i], C[j])
      <3> SUFFICES ASSUME NEW i \in 1..(a - 1), NEW j \in (b + 1)..Len(C) PROVE SlotLess(P[i], C[j])
        OBVIOUS
      <3>1. j \in b..Len(C)
        BY <2>1, <1>p
      <3> QED
        BY <3>1, <1>m
    <2>10. \A p \in SlotContacts :
              /\ Event("Begin", p) \in ToSet(s.events) <=> p \notin ToSet(P) /\ \E j \in 1..b : p = C[j]
              /\ Event("End", p) \in ToSet(s.events) <=> p \notin ToSet(C) /\ \E i \in 1..(a - 1) : p = P[i]
      <3> TAKE p \in SlotContacts
      <3>1. Event("End", p) \in ToSet(s.events) <=> Event("End", p) \in ToSet(ev)
        BY <2>5, <2>6, EventParts
      <3>2. Event("Begin", p) \in ToSet(s.events) <=> Event("Begin", p) \in ToSet(ev) \/ p = y
        BY <2>5, <2>6, EventParts
      <3>3. (\E j \in 1..b : p = C[j]) <=> (\E j \in 1..(b - 1) : p = C[j]) \/ p = y
        BY <2>7, <1>xy
      <3> QED
        BY <3>1, <3>2, <3>3, <2>3, <1>m
    <2>11. Merging(P, C, s)
      <3>1. s.events \in Seq(EventType)
        BY <2>5, <2>6
      <3>2. s.new - 1 = b
        BY <2>6, <1>mt
      <3> QED
        BY <2>6, <2>7, <2>8, <2>9, <2>10, <3>1, <3>2, <1>m DEF Merging
    <2>12. ~IsMerged(P, C, m) /\ s.old + s.new > a + b
      <3>1. b # Len(C) + 1
        BY <2>1, <1>p
      <3>2. a + (b + 1) > a + b
        BY <1>mt
      <3> QED
        BY <3>1, <3>2, <2>6, <1>f DEF IsMerged
    <2> QED
      BY <2>6, <2>11, <2>12, <1>f DEF s
  <1>3. CASE takesOld /\ takesNew
    <2>1. /\ oldLeft /\ x \in SlotContacts /\ a \in 1..Len(P) /\ x \in ToSet(P)
          /\ newLeft /\ y \in SlotContacts /\ b \in 1..Len(C) /\ y \in ToSet(C)
          /\ ~SlotLess(x, y) /\ ~SlotLess(y, x)
      BY <1>3, <1>o, <1>n, <1>x, <1>y
    <2>2. \A j \in (b + 1)..Len(C) : SlotLess(x, C[j])
      BY <2>1, <1>xy, ComesBefore
    <2>3. \A i \in (a + 1)..Len(P) : SlotLess(y, P[i])
      BY <2>1, <1>xy, ComesBefore
    <2>4. x # y => x \notin ToSet(C)
      <3> SUFFICES ASSUME x # y PROVE x \notin ToSet(C)
        OBVIOUS
      <3>1. \A j \in 1..Len(C) : SlotLess(C[j], x) \/ SlotLess(x, C[j]) \/ C[j] # x
        <4> TAKE j \in 1..Len(C)
        <4>1. CASE j < b
          <5>1. j \in 1..(b - 1) /\ a \in a..Len(P)
            BY <4>1, <1>m, <2>1
          <5> QED
            BY <5>1, <1>m, <1>xy
        <4>2. CASE j = b
          BY <4>2, <1>xy
        <4>3. CASE j > b
          <5>1. j \in (b + 1)..Len(C)
            BY <4>3, <1>m
          <5> QED
            BY <5>1, <2>2
        <4> QED
          BY <4>1, <4>2, <4>3, <1>m
      <3> QED
        BY <3>1, <2>1, IsBetween
    <2>5. x # y => y \notin ToSet(P)
      <3> SUFFICES ASSUME x # y PROVE y \notin ToSet(P)
        OBVIOUS
      <3>1. \A i \in 1..Len(P) : SlotLess(P[i], y) \/ SlotLess(y, P[i]) \/ P[i] # y
        <4> TAKE i \in 1..Len(P)
        <4>1. CASE i < a
          <5>1. i \in 1..(a - 1) /\ b \in b..Len(C)
            BY <4>1, <1>m, <2>1
          <5> QED
            BY <5>1, <1>m, <1>xy
        <4>2. CASE i = a
          BY <4>2, <1>xy
        <4>3. CASE i > a
          <5>1. i \in (a + 1)..Len(P)
            BY <4>3, <1>m
          <5> QED
            BY <5>1, <2>3
        <4> QED
          BY <4>1, <4>2, <4>3, <1>m
      <3> QED
        BY <3>1, <2>1, IsBetween
    <2>6. s = [old |-> a + 1, new |-> b + 1, events |-> ev \o Met(x, y)]
      BY <1>3, <1>s
    <2>7. /\ ev \o Met(x, y) \in Seq(EventType)
          /\ ToSet(ev \o Met(x, y)) =
                ToSet(ev) \cup (IF x = y THEN {Event("Stay", y)} ELSE {Event("End", x), Event("Begin", y)})
      BY <2>1, <1>m, EventsAdded
    <2>8. /\ s.old = a + 1 /\ s.new = b + 1 /\ s.events = ev \o Met(x, y) /\ s \in MergeType
      <3>1. a + 1 \in Nat /\ b + 1 \in Nat
        BY <1>mt
      <3> QED
        BY <2>6, <2>7, <3>1 DEF MergeType
    <2>9. /\ a + 1 \in 1..(Len(P) + 1) /\ a + 1 - 1 = a /\ 1..a = 1..(a - 1) \cup {a}
          /\ b + 1 \in 1..(Len(C) + 1) /\ b + 1 - 1 = b /\ 1..b = 1..(b - 1) \cup {b}
      BY <2>1, <1>p
    <2>10. \A i \in 1..a, j \in (b + 1)..Len(C) : SlotLess(P[i], C[j])
      <3> SUFFICES ASSUME NEW i \in 1..a, NEW j \in (b + 1)..Len(C) PROVE SlotLess(P[i], C[j])
        OBVIOUS
      <3>1. j \in b..Len(C)
        BY <2>1, <1>p
      <3> QED
        BY <3>1, <2>2, <2>9, <1>m, <1>xy
    <2>11. \A i \in (a + 1)..Len(P), j \in 1..b : SlotLess(C[j], P[i])
      <3> SUFFICES ASSUME NEW i \in (a + 1)..Len(P), NEW j \in 1..b PROVE SlotLess(C[j], P[i])
        OBVIOUS
      <3>1. i \in a..Len(P)
        BY <2>1, <1>p
      <3> QED
        BY <3>1, <2>3, <2>9, <1>m, <1>xy
    <2>12. \A p \in SlotContacts :
              /\ Event("Begin", p) \in ToSet(s.events) <=> p \notin ToSet(P) /\ \E j \in 1..b : p = C[j]
              /\ Event("End", p) \in ToSet(s.events) <=> p \notin ToSet(C) /\ \E i \in 1..a : p = P[i]
      <3> TAKE p \in SlotContacts
      <3>1. Event("End", p) \in ToSet(s.events) <=> Event("End", p) \in ToSet(ev) \/ (x # y /\ p = x)
        BY <2>7, <2>8, EventParts
      <3>2. Event("Begin", p) \in ToSet(s.events) <=> Event("Begin", p) \in ToSet(ev) \/ (x # y /\ p = y)
        BY <2>7, <2>8, EventParts
      <3>3. (\E j \in 1..b : p = C[j]) <=> (\E j \in 1..(b - 1) : p = C[j]) \/ p = y
        BY <2>9, <1>xy
      <3>4. (\E i \in 1..a : p = P[i]) <=> (\E i \in 1..(a - 1) : p = P[i]) \/ p = x
        BY <2>9, <1>xy
      <3> QED
        BY <3>1, <3>2, <3>3, <3>4, <2>1, <2>4, <2>5, <1>m
    <2>13. Merging(P, C, s)
      <3>1. s.events \in Seq(EventType)
        BY <2>7, <2>8
      <3>2. s.old - 1 = a /\ s.new - 1 = b
        BY <2>8, <2>9
      <3> QED
        BY <2>8, <2>9, <2>10, <2>11, <2>12, <3>1, <3>2 DEF Merging
    <2>14. ~IsMerged(P, C, m) /\ s.old + s.new > a + b
      <3>1. a # Len(P) + 1
        BY <2>1, <1>p
      <3>2. (a + 1) + (b + 1) > a + b
        BY <1>mt
      <3> QED
        BY <3>1, <3>2, <2>8, <1>f DEF IsMerged
    <2> QED
      BY <2>8, <2>13, <2>14, <1>f DEF s
  <1>4. CASE ~takesOld /\ ~takesNew
    <2>1. s = m
      BY <1>4, <1>s
    <2>2. ~oldLeft /\ ~newLeft
      <3>1. oldLeft /\ newLeft => ~(SlotLess(x, y) /\ SlotLess(y, x))
        BY <1>x, <1>y, SlotOrder
      <3> QED
        BY <3>1, <1>4, <1>o, <1>n
    <2>3. IsMerged(P, C, m)
      <3>1. a = Len(P) + 1 /\ b = Len(C) + 1
        BY <2>2, <1>l, <1>p, <1>m
      <3> QED
        BY <3>1, <1>f DEF IsMerged
    <2> QED
      BY <2>1, <2>3 DEF s
  <1> QED
    BY <1>1, <1>2, <1>3, <1>4

\* Of two events of a step the one that comes first, as MakeSense orders them.
Precedes(e, f) ==
    \/ SlotLess(e.contact, f.contact)
    \/ ~SlotLess(f.contact, e.contact) /\ e.phase = "End" /\ f.phase = "Begin"

InOrder(events) == \A i, j \in DOMAIN events : i < j => Precedes(events[i], events[j])

\* What the merge has told so far is about what it is through with, leaves no
\* previous contact out, and is in order.
MergeTells(previous, current, m) ==
    /\ \A e \in ToSet(m.events) : \/ \E i \in 1..(m.old - 1) : e.contact = previous[i]
                                  \/ \E j \in 1..(m.new - 1) : e.contact = current[j]
    /\ \A i \in 1..(m.old - 1) : \E e \in ToSet(m.events) : e.contact = previous[i]
    /\ \A p \in SlotContacts : Event("Stay", p) \in ToSet(m.events) => p \in ToSet(previous)
    /\ InOrder(m.events)

\* Events in order, followed by later ones in order.
LEMMA ConcatInOrder ==
    ASSUME NEW s \in Seq(EventType), NEW t \in Seq(EventType), InOrder(s), InOrder(t),
           \A e \in ToSet(s), f \in ToSet(t) : Precedes(e, f)
    PROVE  InOrder(s \o t)
  <1> DEFINE u == s \o t
             m == Len(s)
             n == Len(t)
  <1>1. m \in Nat /\ n \in Nat /\ DOMAIN s = 1..m /\ DOMAIN t = 1..n
    BY LenProperties
  <1>2. /\ u \in Seq(EventType) /\ Len(u) = m + n
        /\ \A i \in 1..(m + n) : u[i] = IF i <= m THEN s[i] ELSE t[i - m]
    BY ConcatProperties
  <1>3. DOMAIN u = 1..(m + n)
    BY <1>2, LenProperties
  <1>4. (\A i \in 1..m : s[i] \in ToSet(s)) /\ (\A i \in 1..n : t[i] \in ToSet(t))
    BY <1>1 DEF ToSet
  <1>5. /\ \A i, j \in 1..m : i < j => Precedes(s[i], s[j])
        /\ \A i, j \in 1..n : i < j => Precedes(t[i], t[j])
    BY <1>1 DEF InOrder
  <1>6. \A i \in 1..m, j \in 1..n : Precedes(s[i], t[j])
    BY <1>4
  <1> SUFFICES ASSUME NEW i \in 1..(m + n), NEW j \in 1..(m + n), i < j PROVE Precedes(u[i], u[j])
    BY <1>3 DEF InOrder
  <1> HIDE DEF u, m, n
  <1>7. CASE j <= m
    <2>1. i \in 1..m /\ j \in 1..m /\ i <= m
      BY <1>7, <1>1
    <2> QED
      BY <2>1, <1>2, <1>5, <1>7
  <1>8. CASE i <= m /\ ~(j <= m)
    <2>1. i \in 1..m /\ j - m \in 1..n
      BY <1>8, <1>1
    <2>2. u[i] = s[i] /\ u[j] = t[j - m]
      BY <1>8, <1>2
    <2> QED
      BY <2>1, <2>2, <1>6
  <1>9. CASE ~(i <= m)
    <2>1. i - m \in 1..n /\ j - m \in 1..n /\ i - m < j - m /\ ~(j <= m)
      BY <1>9, <1>1
    <2>2. u[i] = t[i - m] /\ u[j] = t[j - m]
      BY <1>9, <2>1, <1>2
    <2> QED
      BY <2>1, <2>2, <1>5
  <1> QED
    BY <1>7, <1>8, <1>9, <1>1

\* A turn that adds the events t, which are about what it takes.
LEMMA TellsOn ==
    ASSUME NEW P, NEW C, InSlotOrder(P), InSlotOrder(C),
           NEW m \in MergeType, Merging(P, C, m), MergeTells(P, C, m),
           NEW s \in MergeType, NEW t \in Seq(EventType), s.events = m.events \o t,
           s.old = m.old \/ (s.old = m.old + 1 /\ m.old <= Len(P)),
           s.new = m.new \/ (s.new = m.new + 1 /\ m.new <= Len(C)),
           \A e \in ToSet(t) : \/ s.old = m.old + 1 /\ e.contact = P[m.old]
                               \/ s.new = m.new + 1 /\ e.contact = C[m.new],
           s.old = m.old + 1 => \E e \in ToSet(t) : e.contact = P[m.old],
           \A p \in SlotContacts : Event("Stay", p) \in ToSet(t) => p \in ToSet(P),
           InOrder(t)
    PROVE  MergeTells(P, C, s)
  <1> DEFINE a == m.old
             b == m.new
             ev == m.events
  <1>1. /\ a \in Nat /\ b \in Nat /\ a >= 1 /\ b >= 1 /\ ev \in Seq(EventType)
        /\ Len(P) \in Nat /\ Len(C) \in Nat
        /\ DOMAIN P = 1..Len(P) /\ DOMAIN C = 1..Len(C)
    BY ListParts DEF MergeType, Merging
  <1>2. /\ \A i \in 1..(a - 1), j \in b..Len(C) : SlotLess(P[i], C[j])
        /\ \A i \in a..Len(P), j \in 1..(b - 1) : SlotLess(C[j], P[i])
        /\ a <= Len(P) + 1 /\ b <= Len(C) + 1
    BY <1>1 DEF Merging
  <1>3. /\ \A e \in ToSet(ev) : \/ \E i \in 1..(a - 1) : e.contact = P[i]
                                \/ \E j \in 1..(b - 1) : e.contact = C[j]
        /\ \A i \in 1..(a - 1) : \E e \in ToSet(ev) : e.contact = P[i]
        /\ \A p \in SlotContacts : Event("Stay", p) \in ToSet(ev) => p \in ToSet(P)
        /\ InOrder(ev)
    BY DEF MergeTells
  <1>4. /\ s.old = a \/ (s.old = a + 1 /\ a <= Len(P))
        /\ s.new = b \/ (s.new = b + 1 /\ b <= Len(C))
        /\ \A e \in ToSet(t) : \/ s.old = a + 1 /\ e.contact = P[a]
                               \/ s.new = b + 1 /\ e.contact = C[b]
        /\ s.old = a + 1 => \E e \in ToSet(t) : e.contact = P[a]
        /\ s.events = ev \o t
    OBVIOUS
  <1>5. ToSet(s.events) = ToSet(ev) \cup ToSet(t)
    BY <1>1, <1>4, ConcatToSet
  <1> HIDE DEF a, b, ev
  <1>6. ASSUME NEW e \in ToSet(s.events)
        PROVE  \/ \E i \in 1..(s.old - 1) : e.contact = P[i]
               \/ \E j \in 1..(s.new - 1) : e.contact = C[j]
    <2>1. CASE e \in ToSet(ev)
      <3>1. (1..(a - 1)) \subseteq 1..(s.old - 1) /\ (1..(b - 1)) \subseteq 1..(s.new - 1)
        BY <1>1, <1>4
      <3> QED
        BY <3>1, <2>1, <1>3
    <2>2. CASE e \in ToSet(t)
      <3>1. s.old = a + 1 => a \in 1..(s.old - 1)
        BY <1>1
      <3>2. s.new = b + 1 => b \in 1..(s.new - 1)
        BY <1>1
      <3> QED
        BY <3>1, <3>2, <2>2, <1>4
    <2> QED
      BY <2>1, <2>2, <1>5
  <1>7. ASSUME NEW i \in 1..(s.old - 1)
        PROVE  \E e \in ToSet(s.events) : e.contact = P[i]
    <2>1. i \in 1..(a - 1) \/ (s.old = a + 1 /\ i = a)
      BY <1>1, <1>4
    <2> QED
      BY <2>1, <1>3, <1>4, <1>5
  <1>8. \A p \in SlotContacts : Event("Stay", p) \in ToSet(s.events) => p \in ToSet(P)
    BY <1>3, <1>5
  <1>9. ASSUME NEW e \in ToSet(ev), NEW f \in ToSet(t) PROVE Precedes(e, f)
    <2>1. CASE s.old = a + 1 /\ f.contact = P[a]
      <3>1. a \in a..Len(P) /\ a \in 1..Len(P)
        BY <2>1, <1>1, <1>4
      <3>2. \A i \in 1..(a - 1) : i \in 1..Len(P) /\ i < a
        BY <3>1, <1>1
      <3>3. \A i \in 1..(a - 1) : SlotLess(P[i], P[a])
        BY <3>1, <3>2, <1>1 DEF InSlotOrder
      <3>4. \A j \in 1..(b - 1) : SlotLess(C[j], P[a])
        BY <3>1, <1>2
      <3>5. SlotLess(e.contact, P[a])
        BY <3>3, <3>4, <1>3
      <3> QED
        BY <3>5, <2>1 DEF Precedes
    <2>2. CASE s.new = b + 1 /\ f.contact = C[b]
      <3>1. b \in b..Len(C) /\ b \in 1..Len(C)
        BY <2>2, <1>1, <1>4
      <3>2. \A j \in 1..(b - 1) : j \in 1..Len(C) /\ j < b
        BY <3>1, <1>1
      <3>3. \A j \in 1..(b - 1) : SlotLess(C[j], C[b])
        BY <3>1, <3>2, <1>1 DEF InSlotOrder
      <3>4. \A i \in 1..(a - 1) : SlotLess(P[i], C[b])
        BY <3>1, <1>2
      <3>5. SlotLess(e.contact, C[b])
        BY <3>3, <3>4, <1>3
      <3> QED
        BY <3>5, <2>2 DEF Precedes
    <2> QED
      BY <2>1, <2>2, <1>4
  <1>10. InOrder(s.events)
    BY <1>1, <1>3, <1>4, <1>9, ConcatInOrder
  <1> QED
    BY <1>6, <1>7, <1>8, <1>10 DEF MergeTells

\* What a turn adds, in order.
LEMMA AddedInOrder ==
    ASSUME NEW p \in SlotContacts, NEW q \in SlotContacts
    PROVE  /\ Begun(p) \in Seq(EventType) /\ InOrder(Begun(p)) /\ ToSet(Begun(p)) = {Event("Begin", p)}
           /\ Ended(p) \in Seq(EventType) /\ InOrder(Ended(p)) /\ ToSet(Ended(p)) = {Event("End", p)}
           /\ ~SlotLess(p, q) /\ ~SlotLess(q, p) =>
                /\ Met(p, q) \in Seq(EventType) /\ InOrder(Met(p, q))
                /\ ToSet(Met(p, q)) = IF p = q THEN {Event("Stay", q)}
                                               ELSE {Event("End", p), Event("Begin", q)}
  <1> DEFINE T == EventType
  <1>1. \A e \in T : <<e>> \in Seq(T) /\ ToSet(<<e>>) = {e} /\ InOrder(<<e>>)
    <2> TAKE e \in T
    <2>1. DOMAIN <<e>> = {1} /\ <<e>>[1] = e /\ <<e>> \in Seq(T)
      OBVIOUS
    <2> QED
      BY <2>1 DEF ToSet, InOrder
  <1>2. \A e, f \in T : Precedes(e, f) =>
           <<e, f>> \in Seq(T) /\ ToSet(<<e, f>>) = {e, f} /\ InOrder(<<e, f>>)
    <2> SUFFICES ASSUME NEW e \in T, NEW f \in T, Precedes(e, f)
                 PROVE  <<e, f>> \in Seq(T) /\ ToSet(<<e, f>>) = {e, f} /\ InOrder(<<e, f>>)
      OBVIOUS
    <2>1. <<e, f>> \in Seq(T)
      OBVIOUS
    <2>2. DOMAIN <<e, f>> = {1, 2} /\ <<e, f>>[1] = e /\ <<e, f>>[2] = f
      OBVIOUS
    <2>3. ToSet(<<e, f>>) = {e, f}
      BY <2>2 DEF ToSet
    <2>4. ASSUME NEW i \in {1, 2}, NEW j \in {1, 2}, i < j
          PROVE  Precedes(<<e, f>>[i], <<e, f>>[j])
      <3>1. i = 1 /\ j = 2
        BY <2>4
      <3> QED
        BY <3>1, <2>2
    <2> QED
      BY <2>1, <2>2, <2>3, <2>4 DEF InOrder
  <1>3. /\ Event("Begin", p) \in T /\ Event("End", p) \in T /\ Event("Stay", q) \in T
        /\ Event("Begin", q) \in T
    BY EventParts
  <1>4. ~SlotLess(q, p) => Precedes(Event("End", p), Event("Begin", q))
    BY DEF Precedes, Event
  <1> HIDE DEF T
  <1>5. /\ Begun(p) \in Seq(T) /\ InOrder(Begun(p)) /\ ToSet(Begun(p)) = {Event("Begin", p)}
        /\ Ended(p) \in Seq(T) /\ InOrder(Ended(p)) /\ ToSet(Ended(p)) = {Event("End", p)}
    BY <1>1, <1>3 DEF Begun, Ended
  <1>6. ASSUME ~SlotLess(p, q), ~SlotLess(q, p)
        PROVE  /\ Met(p, q) \in Seq(T) /\ InOrder(Met(p, q))
               /\ ToSet(Met(p, q)) = IF p = q THEN {Event("Stay", q)}
                                              ELSE {Event("End", p), Event("Begin", q)}
    <2>1. CASE p = q
      BY <2>1, <1>1, <1>3 DEF Met
    <2>2. CASE p # q
      BY <2>2, <1>2, <1>3, <1>4, <1>6 DEF Met
    <2> QED
      BY <2>1, <2>2
  <1> QED
    BY <1>5, <1>6 DEF T

\* A turn goes on telling.
LEMMA TurnTells ==
    ASSUME NEW P, NEW C, InSlotOrder(P), InSlotOrder(C),
           NEW m \in MergeType, Merging(P, C, m), MergeTells(P, C, m)
    PROVE  MergeTells(P, C, MergeTurn(m, P, C))
  <1> DEFINE s == MergeTurn(m, P, C)
             x == P[m.old]
             y == C[m.new]
             oldLeft == m.old <= Len(P)
             newLeft == m.new <= Len(C)
             takesOld == oldLeft /\ (newLeft => ~SlotLess(y, x))
             takesNew == newLeft /\ (oldLeft => ~SlotLess(x, y))
  <1>1. /\ m.old \in Nat /\ m.new \in Nat /\ m.events \in Seq(EventType)
        /\ m = [old |-> m.old, new |-> m.new, events |-> m.events]
    BY DEF MergeType
  <1>2. /\ oldLeft => x \in SlotContacts /\ x \in ToSet(P)
        /\ newLeft => y \in SlotContacts
    BY <1>1, ListParts DEF Merging
  <1>3. s \in MergeType
    BY MergeTurnKeeps
  <1>4. s = CASE takesOld /\ takesNew ->
                   [old |-> m.old + 1, new |-> m.new + 1, events |-> m.events \o Met(x, y)]
              [] takesOld /\ ~takesNew -> [m EXCEPT !.old = @ + 1, !.events = @ \o Ended(x)]
              [] ~takesOld /\ takesNew -> [m EXCEPT !.new = @ + 1, !.events = @ \o Begun(y)]
              [] OTHER -> m
    BY DEF MergeTurn
  <1>5. \A p : Event("Begin", p).contact = p /\ Event("Stay", p).contact = p /\ Event("End", p).contact = p
    BY DEF Event
  <1>o. takesOld => oldLeft /\ (newLeft => ~SlotLess(y, x))
    OBVIOUS
  <1>n. takesNew => newLeft /\ (oldLeft => ~SlotLess(x, y))
    OBVIOUS
  <1>l. (oldLeft <=> m.old <= Len(P)) /\ (newLeft <=> m.new <= Len(C)) /\ x = P[m.old] /\ y = C[m.new]
    OBVIOUS
  <1> HIDE DEF s, x, y, oldLeft, newLeft, takesOld, takesNew
  <1>6. CASE takesOld /\ ~takesNew
    <2> DEFINE t == Ended(x)
    <2>1. oldLeft /\ x \in SlotContacts
      BY <1>6, <1>2, <1>o
    <2>2. t \in Seq(EventType) /\ InOrder(t) /\ ToSet(t) = {Event("End", x)}
      BY <2>1, AddedInOrder
    <2>3. s.old = m.old + 1 /\ s.new = m.new /\ s.events = m.events \o t
      BY <1>6, <1>4, <1>1
    <2>4. \A p \in SlotContacts : Event("Stay", p) \notin ToSet(t)
      BY <2>2, EventParts
    <2> HIDE DEF t
    <2>5. m.old + 1 # m.old /\ m.old <= Len(P)
      BY <1>1, <2>1, <1>l
    <2>6. /\ \A e \in ToSet(t) : e.contact = P[m.old]
          /\ \E e \in ToSet(t) : e.contact = P[m.old]
      BY <2>2, <1>5, <1>l
    <2>7. /\ s.old = m.old \/ (s.old = m.old + 1 /\ m.old <= Len(P))
          /\ s.new = m.new \/ (s.new = m.new + 1 /\ m.new <= Len(C))
          /\ \A e \in ToSet(t) : \/ s.old = m.old + 1 /\ e.contact = P[m.old]
                                 \/ s.new = m.new + 1 /\ e.contact = C[m.new]
          /\ s.old = m.old + 1 => \E e \in ToSet(t) : e.contact = P[m.old]
      BY <2>3, <2>5, <2>6
    <2>8. \A p \in SlotContacts : Event("Stay", p) \in ToSet(t) => p \in ToSet(P)
      BY <2>4
    <2>9. MergeTells(P, C, s)
      BY <1>3, <2>2, <2>3, <2>7, <2>8, TellsOn
    <2> QED
      BY <2>9 DEF s
  <1>7. CASE ~takesOld /\ takesNew
    <2> DEFINE t == Begun(y)
    <2>1. newLeft /\ y \in SlotContacts
      BY <1>7, <1>2, <1>n
    <2>2. t \in Seq(EventType) /\ InOrder(t) /\ ToSet(t) = {Event("Begin", y)}
      BY <2>1, AddedInOrder
    <2>3. s.old = m.old /\ s.new = m.new + 1 /\ s.events = m.events \o t
      BY <1>7, <1>4, <1>1
    <2>4. \A p \in SlotContacts : Event("Stay", p) \notin ToSet(t)
      BY <2>2, EventParts
    <2> HIDE DEF t
    <2>5. m.old + 1 # m.old /\ m.new <= Len(C)
      BY <1>1, <2>1, <1>l
    <2>6. \A e \in ToSet(t) : e.contact = C[m.new]
      BY <2>2, <1>5, <1>l
    <2>7. /\ s.old = m.old \/ (s.old = m.old + 1 /\ m.old <= Len(P))
          /\ s.new = m.new \/ (s.new = m.new + 1 /\ m.new <= Len(C))
          /\ \A e \in ToSet(t) : \/ s.old = m.old + 1 /\ e.contact = P[m.old]
                                 \/ s.new = m.new + 1 /\ e.contact = C[m.new]
          /\ s.old = m.old + 1 => \E e \in ToSet(t) : e.contact = P[m.old]
      BY <2>3, <2>5, <2>6
    <2>8. \A p \in SlotContacts : Event("Stay", p) \in ToSet(t) => p \in ToSet(P)
      BY <2>4
    <2>9. MergeTells(P, C, s)
      BY <1>3, <2>2, <2>3, <2>7, <2>8, TellsOn
    <2> QED
      BY <2>9 DEF s
  <1>8. CASE takesOld /\ takesNew
    <2> DEFINE t == Met(x, y)
    <2>1. /\ oldLeft /\ x \in SlotContacts /\ x \in ToSet(P) /\ newLeft /\ y \in SlotContacts
          /\ ~SlotLess(x, y) /\ ~SlotLess(y, x)
      BY <1>8, <1>2, <1>o, <1>n
    <2>2. t \in Seq(EventType) /\ InOrder(t)
          /\ ToSet(t) = IF x = y THEN {Event("Stay", y)} ELSE {Event("End", x), Event("Begin", y)}
      BY <2>1, AddedInOrder
    <2>3. s.old = m.old + 1 /\ s.new = m.new + 1 /\ s.events = m.events \o t
      BY <1>8, <1>4, <1>1
    <2> HIDE DEF t
    <2>4. \A p \in SlotContacts : Event("Stay", p) \in ToSet(t) => p \in ToSet(P)
      <3> SUFFICES ASSUME NEW p \in SlotContacts, Event("Stay", p) \in ToSet(t) PROVE p \in ToSet(P)
        OBVIOUS
      <3>1. x = y /\ Event("Stay", p) = Event("Stay", y)
        BY <2>2, EventParts
      <3>2. p = y
        BY <3>1, <1>5
      <3> QED
        BY <3>1, <3>2, <2>1
    <2>5. m.old <= Len(P) /\ m.new <= Len(C)
      BY <2>1, <1>l
    <2>6. /\ \A e \in ToSet(t) : e.contact = P[m.old] \/ e.contact = C[m.new]
          /\ \E e \in ToSet(t) : e.contact = P[m.old]
      BY <2>2, <1>5, <1>l
    <2>7. /\ s.old = m.old \/ (s.old = m.old + 1 /\ m.old <= Len(P))
          /\ s.new = m.new \/ (s.new = m.new + 1 /\ m.new <= Len(C))
          /\ \A e \in ToSet(t) : \/ s.old = m.old + 1 /\ e.contact = P[m.old]
                                 \/ s.new = m.new + 1 /\ e.contact = C[m.new]
          /\ s.old = m.old + 1 => \E e \in ToSet(t) : e.contact = P[m.old]
      BY <2>3, <2>5, <2>6
    <2>8. \A p \in SlotContacts : Event("Stay", p) \in ToSet(t) => p \in ToSet(P)
      BY <2>4
    <2>9. MergeTells(P, C, s)
      BY <1>3, <2>2, <2>3, <2>7, <2>8, TellsOn
    <2> QED
      BY <2>9 DEF s
  <1>9. CASE ~takesOld /\ ~takesNew
    BY <1>9, <1>4 DEF s
  <1> QED
    BY <1>6, <1>7, <1>8, <1>9

\* The whole merge: what begins is what was not there before, what ends is what
\* is not there any more, and it makes sense to one who knew the previous
\* contacts.
LEMMA TransitionsAre ==
    ASSUME NEW P, NEW C, InSlotOrder(P), InSlotOrder(C)
    PROVE  LET E == Transitions(P, C) IN
           /\ E \in Seq(EventType)
           /\ \A p \in SlotContacts :
                 /\ Event("Begin", p) \in ToSet(E) <=> p \in ToSet(C) \ ToSet(P)
                 /\ Event("End", p) \in ToSet(E) <=> p \in ToSet(P) \ ToSet(C)
           /\ MakeSense(E, ToSet(P))
  <1> DEFINE N == Len(P) + Len(C)
             start == [old |-> 1, new |-> 1, events |-> <<>>]
             S == {m \in MergeType : Merging(P, C, m) /\ MergeTells(P, C, m)}
             step == [n \in 1..N |-> [m \in S |-> MergeTurn(m, P, C)]]
             Merges(g) == g = [n \in 0..N |-> IF n = 0 THEN start ELSE MergeTurn(g[n - 1], P, C)]
             merge == CHOOSE g : Merges(g)
  <1>1. /\ Len(P) \in Nat /\ Len(C) \in Nat /\ N \in Nat
        /\ ToSet(P) = {P[i] : i \in 1..Len(P)} /\ ToSet(C) = {C[i] : i \in 1..Len(C)}
    BY ListParts
  <1>2. start \in S /\ start.old + start.new = 2
    <2>1. <<>> \in Seq(EventType) /\ ToSet(<<>>) = {}
      BY DEF ToSet
    <2>2. start \in MergeType
      BY <2>1 DEF MergeType
    <2>3. Merging(P, C, start)
      BY <2>1, <1>1 DEF Merging
    <2>4. MergeTells(P, C, start)
      <3>1. DOMAIN <<>> = {} /\ 1..(start.old - 1) = {} /\ 1..(start.new - 1) = {}
        OBVIOUS
      <3> QED
        BY <2>1, <3>1 DEF MergeTells, InOrder
    <2> QED
      BY <2>2, <2>3, <2>4
  <1>3. ASSUME NEW m \in S
        PROVE  /\ MergeTurn(m, P, C) \in S
               /\ IsMerged(P, C, m) => MergeTurn(m, P, C) = m
               /\ ~IsMerged(P, C, m) => MergeTurn(m, P, C).old + MergeTurn(m, P, C).new > m.old + m.new
    BY MergeTurnKeeps, TurnTells
  <1>4. step \in [1..N -> [S -> S]]
    BY <1>3
  <1>5. \A n \in 1..N : \A m \in S : step[n][m] = MergeTurn(m, P, C)
    OBVIOUS
  <1>t. Transitions(P, C) = merge[N].events
    BY DEF Transitions
  <1>s. \A m \in S : m \in MergeType /\ Merging(P, C, m) /\ MergeTells(P, C, m)
    OBVIOUS
  <1> HIDE DEF S, step, N, start
  <1>r. N \in Nat /\ start \in S
    BY <1>1, <1>2
  <1>6. PICK f \in [0..N -> S] : f[0] = start /\ \A n \in 1..N : f[n] = step[n][f[n - 1]]
    BY <1>r, <1>4, LoopExists
  <1>7. \A n \in 0..N : f[n] = IF n = 0 THEN start ELSE MergeTurn(f[n - 1], P, C)
    <2> SUFFICES ASSUME NEW n \in 0..N, n # 0 PROVE f[n] = MergeTurn(f[n - 1], P, C)
      BY <1>6
    <2>1. n \in 1..N /\ n - 1 \in 0..N
      BY <1>1
    <2> QED
      BY <2>1, <1>5, <1>6
  <1>f. f = [n \in 0..N |-> f[n]]
    BY <1>6
  <1>8. f = [n \in 0..N |-> IF n = 0 THEN start ELSE MergeTurn(f[n - 1], P, C)]
    BY <1>f, <1>7
  <1>9. Merges(f)
    BY <1>8
  <1> HIDE DEF merge
  <1>10. Merges(merge)
    BY <1>9 DEF merge
  <1>11. /\ DOMAIN merge = 0..N
         /\ \A n \in 0..N : merge[n] = IF n = 0 THEN start ELSE MergeTurn(merge[n - 1], P, C)
    BY <1>10
  <1> HIDE DEF Merges
  <1> DEFINE Reached(n) == /\ merge[n] \in S
                           /\ IsMerged(P, C, merge[n]) \/ merge[n].old + merge[n].new >= n + 2
             T == {n \in 0..N : Reached(n)}
  <1>12. 0 \in T
    BY <1>1, <1>2, <1>11
  <1>13. ASSUME NEW n \in 1..N, n - 1 \in T PROVE n \in T
    <2> DEFINE m == merge[n - 1]
               s == merge[n]
    <2>1. m \in S /\ (IsMerged(P, C, m) \/ m.old + m.new >= n - 1 + 2)
      BY <1>13
    <2>2. s = MergeTurn(m, P, C)
      <3>1. n \in 0..N /\ n # 0
        BY <1>1
      <3> QED
        BY <3>1, <1>11
    <2> HIDE DEF m, s
    <2>3. s \in S /\ (IsMerged(P, C, m) => s = m)
          /\ (~IsMerged(P, C, m) => s.old + s.new > m.old + m.new)
      BY <2>1, <2>2, <1>3
    <2>4. IsMerged(P, C, s) \/ s.old + s.new >= n + 2
      <3>1. CASE IsMerged(P, C, m)
        BY <3>1, <2>3
      <3>2. CASE ~IsMerged(P, C, m)
        <4>1. m.old \in Nat /\ m.new \in Nat /\ s.old \in Nat /\ s.new \in Nat /\ n \in Nat
          BY <2>1, <2>3, <1>s, <1>1 DEF MergeType
        <4> QED
          BY <3>2, <4>1, <2>1, <2>3
      <3> QED
        BY <3>1, <3>2
    <2> QED
      BY <2>3, <2>4 DEF s
  <1>14. N \in T
    <2>1. T \in SUBSET (0..N)
      OBVIOUS
    <2> HIDE DEF T
    <2>2. T = 0..N
      BY <1>1, <1>12, <1>13, <2>1, IntervalInduction
    <2> QED
      BY <2>2, <1>1
  <1> DEFINE m == merge[N]
  <1>15. /\ m \in S /\ Merging(P, C, m) /\ MergeTells(P, C, m) /\ m \in MergeType
         /\ IsMerged(P, C, m) \/ m.old + m.new >= N + 2
    BY <1>14, <1>s
  <1> HIDE DEF m, Reached, T
  <1>16. IsMerged(P, C, m)
    <2>1. m.old \in 1..(Len(P) + 1) /\ m.new \in 1..(Len(C) + 1)
      BY <1>15 DEF Merging
    <2>2. m.old + m.new >= N + 2 => m.old = Len(P) + 1 /\ m.new = Len(C) + 1
      BY <2>1, <1>1 DEF N
    <2> QED
      BY <2>2, <1>15 DEF IsMerged
  <1>17. m.old - 1 = Len(P) /\ m.new - 1 = Len(C)
    BY <1>16, <1>1 DEF IsMerged
  <1>18. /\ m.events \in Seq(EventType)
         /\ \A p \in SlotContacts :
              /\ Event("Begin", p) \in ToSet(m.events) <=>
                    p \notin ToSet(P) /\ \E j \in 1..Len(C) : p = C[j]
              /\ Event("End", p) \in ToSet(m.events) <=>
                    p \notin ToSet(C) /\ \E i \in 1..Len(P) : p = P[i]
    BY <1>15, <1>17 DEF Merging
  <1>19. Transitions(P, C) = m.events
    BY <1>t DEF m
  <1> DEFINE E == m.events
  <1>20. MakeSense(E, ToSet(P))
    <2>1. /\ \A i \in 1..(m.old - 1) : \E e \in ToSet(E) : e.contact = P[i]
          /\ \A p \in SlotContacts : Event("Stay", p) \in ToSet(E) => p \in ToSet(P)
          /\ InOrder(E)
      BY <1>15 DEF MergeTells
    <2>2. \A p \in SlotContacts :
             /\ Event("Begin", p) \in ToSet(E) => p \notin ToSet(P)
             /\ Event("End", p) \in ToSet(E) => p \in ToSet(P)
      BY <1>18, <1>1
    <2>3. E \in Seq(EventType) /\ ToSet(E) = {E[i] : i \in DOMAIN E}
      BY <1>18 DEF ToSet
    <2> HIDE DEF E
    <2>4. ASSUME NEW i \in DOMAIN E
          PROVE  E[i].phase = "Begin" <=> E[i].contact \notin ToSet(P)
      <3>1. E[i] \in EventType /\ E[i] \in ToSet(E)
        BY <2>3, LenProperties, ElementOfSeq
      <3>2. /\ E[i].contact \in SlotContacts /\ E[i] = Event(E[i].phase, E[i].contact)
            /\ E[i].phase = "Begin" \/ E[i].phase = "Stay" \/ E[i].phase = "End"
        BY <3>1 DEF EventType, Event
      <3>3. CASE E[i].phase = "Begin"
        <4>1. Event("Begin", E[i].contact) \in ToSet(E)
          BY <3>1, <3>2, <3>3
        <4>2. E[i].contact \notin ToSet(P)
          BY <4>1, <3>2, <2>2
        <4> QED
          BY <4>2, <3>3
      <3>4. CASE E[i].phase = "Stay"
        BY <3>1, <3>2, <3>4, <2>1
      <3>5. CASE E[i].phase = "End"
        BY <3>1, <3>2, <3>5, <2>2
      <3> QED
        BY <3>2, <3>3, <3>4, <3>5
    <2>5. ToSet(P) \subseteq {E[i].contact : i \in DOMAIN E}
      BY <2>1, <2>3, <1>1, <1>17
    <2>6. \A i, j \in DOMAIN E : i < j =>
             \/ SlotLess(E[i].contact, E[j].contact)
             \/ /\ ~SlotLess(E[j].contact, E[i].contact)
                /\ E[i].phase = "End" /\ E[j].phase = "Begin"
      BY <2>1 DEF InOrder, Precedes
    <2> QED
      BY <2>4, <2>5, <2>6 DEF MakeSense
  <1> QED
    BY <1>1, <1>18, <1>19, <1>20
-----------------------------------------------------------------------------
(* What the game makes of the events.                                      *)

\* What the game notes of a contact that begins.
Announced(p, list) ==
    [contact |-> p, between |-> {EntityOf(p.first, list), EntityOf(p.second, list)}]

\* The events are of three kinds.
LEMMA EventKinds ==
    ASSUME NEW e \in EventType
    PROVE  /\ e.contact \in SlotContacts
           /\ \/ e.phase = "Begin" /\ e = Event("Begin", e.contact)
              \/ e.phase = "Stay" /\ e = Event("Stay", e.contact)
              \/ e.phase = "End" /\ e = Event("End", e.contact)
  BY DEF EventType, Event

\* The game knows what was announced to it and, of what it knew before, what it
\* was not told the end of.
LEMMA ToldIs ==
    ASSUME NEW E \in Seq(EventType), NEW list,
           \A p \in SlotContacts : ~(Event("Begin", p) \in ToSet(E) /\ Event("End", p) \in ToSet(E)),
           NEW before, \A k \in before : k.contact \in SlotContacts
    PROVE  \A k : k \in Told(before, E, list) <=>
                    \/ \E p \in SlotContacts : Event("Begin", p) \in ToSet(E) /\ k = Announced(p, list)
                    \/ k \in before /\ Event("End", k.contact) \notin ToSet(E)
  <1> DEFINE N == Len(E)
             U == before \cup {Announced(p, list) : p \in SlotContacts}
             S == SUBSET U
             step == [n \in 1..N |-> [K \in S |-> Learnt(K, E[n], list)]]
             Hears(g) == g = [n \in 0..N |-> IF n = 0 THEN before ELSE Learnt(g[n - 1], E[n], list)]
             known == CHOOSE g : Hears(g)
  <1>1. /\ N \in Nat /\ DOMAIN E = 1..N /\ \A i \in 1..N : E[i] \in EventType
        /\ \A e : e \in ToSet(E) <=> \E i \in 1..N : e = E[i]
    <2>1. N \in Nat /\ DOMAIN E = 1..N
      BY LenProperties
    <2> QED
      BY <2>1, ElementOfSeq DEF ToSet
  <1>2. before \in S
    OBVIOUS
  <1>a. \A p : /\ Announced(p, list).contact = p
               /\ Announced(p, list).between = {EntityOf(p.first, list), EntityOf(p.second, list)}
    BY DEF Announced
  <1>u. \A k \in U : k.contact \in SlotContacts
    BY <1>a
  <1>h. ASSUME NEW K, NEW e \in EventType
        PROVE  /\ e.contact \in SlotContacts
               /\ \/ e = Event("Begin", e.contact) /\ Learnt(K, e, list) = K \cup {Announced(e.contact, list)}
                  \/ e = Event("Stay", e.contact) /\ Learnt(K, e, list) = K
                  \/ e = Event("End", e.contact) /\ Learnt(K, e, list) = {k \in K : k.contact # e.contact}
    <2>0. "Begin" # "End" /\ "Begin" # "Stay" /\ "End" # "Stay"
      OBVIOUS
    <2>1. CASE e.phase = "Begin"
      BY <2>0, <2>1, EventKinds DEF Learnt, Announced
    <2>2. CASE e.phase = "Stay"
      BY <2>0, <2>2, EventKinds DEF Learnt
    <2>3. CASE e.phase = "End"
      BY <2>0, <2>3, EventKinds DEF Learnt
    <2> QED
      BY <2>1, <2>2, <2>3, EventKinds
  <1>3. \A K \in S, e \in EventType : Learnt(K, e, list) \in S
    BY <1>h
  <1>4. step \in [1..N -> [S -> S]]
    BY <1>1, <1>3
  <1>5. \A n \in 1..N : \A K \in S : step[n][K] = Learnt(K, E[n], list)
    OBVIOUS
  <1>t. Told(before, E, list) = known[N]
    BY DEF Told
  <1>v. \A K \in S : K \subseteq U
    OBVIOUS
  <1>w. before \subseteq U /\ \A p \in SlotContacts : Announced(p, list) \in U
    OBVIOUS
  <1> HIDE DEF S, U, step, N
  <1>r. N \in Nat /\ before \in S
    BY <1>1, <1>2
  <1>6. PICK f \in [0..N -> S] : f[0] = before /\ \A n \in 1..N : f[n] = step[n][f[n - 1]]
    BY <1>r, <1>4, LoopExists, SMTT(60)
  <1>7. \A n \in 0..N : f[n] = IF n = 0 THEN before ELSE Learnt(f[n - 1], E[n], list)
    <2> SUFFICES ASSUME NEW n \in 0..N, n # 0 PROVE f[n] = Learnt(f[n - 1], E[n], list)
      BY <1>6
    <2>1. n \in 1..N /\ n - 1 \in 0..N
      BY <1>1
    <2> QED
      BY <2>1, <1>5, <1>6
  <1>f. f = [n \in 0..N |-> f[n]]
    BY <1>6
  <1>8. f = [n \in 0..N |-> IF n = 0 THEN before ELSE Learnt(f[n - 1], E[n], list)]
    BY <1>f, <1>7
  <1>9. Hears(f)
    BY <1>8
  <1> HIDE DEF known
  <1>10. Hears(known)
    BY <1>9 DEF known
  <1>11. \A n \in 0..N : known[n] = IF n = 0 THEN before ELSE Learnt(known[n - 1], E[n], list)
    BY <1>10
  <1> HIDE DEF Hears
  <1> DEFINE Knows(n, k) == \/ \E i \in 1..n : E[i] = Event("Begin", k.contact) /\ k = Announced(k.contact, list)
                            \/ k \in before /\ \A i \in 1..n : E[i] # Event("End", k.contact)
             Exact(n) == known[n] \subseteq U /\ \A k \in U : k \in known[n] <=> Knows(n, k)
             T == {n \in 0..N : Exact(n)}
  <1>12. 0 \in T
    <2>1. known[0] = before /\ 0 \in 0..N /\ 1..0 = {}
      BY <1>1, <1>11
    <2>2. \A k \in U : k \in known[0] <=> Knows(0, k)
      BY <2>1
    <2> QED
      BY <2>1, <2>2, <1>w
  <1>13. ASSUME NEW n \in 1..N, n - 1 \in T PROVE n \in T
    <2> DEFINE K == known[n - 1]
               L == known[n]
               e == E[n]
    <2>1. Exact(n - 1)
      BY <1>13
    <2>2. L = Learnt(K, e, list) /\ e \in EventType /\ n \in 0..N
      BY <1>1, <1>11
    <2>3. 1..n = 1..(n - 1) \cup {n}
      BY <1>1
    <2>4. K \subseteq U /\ \A k \in U : k \in K <=> Knows(n - 1, k)
      BY <2>1
    <2>5. \A k : /\ (\E i \in 1..n : E[i] = Event("Begin", k.contact) /\ k = Announced(k.contact, list))
                      <=> \/ \E i \in 1..(n - 1) : E[i] = Event("Begin", k.contact) /\ k = Announced(k.contact, list)
                          \/ e = Event("Begin", k.contact) /\ k = Announced(k.contact, list)
                 /\ (\A i \in 1..n : E[i] # Event("End", k.contact))
                      <=> /\ \A i \in 1..(n - 1) : E[i] # Event("End", k.contact)
                          /\ e # Event("End", k.contact)
      BY <2>3
    <2>6. \A i \in 1..(n - 1) : E[i] \in ToSet(E)
      BY <1>1
    <2>7. e \in ToSet(E)
      BY <1>1
    <2> HIDE DEF K, L, e
    <2>8. L \subseteq U /\ \A k \in U : k \in L <=> Knows(n, k)
      <3>1. CASE e = Event("Begin", e.contact) /\ L = K \cup {Announced(e.contact, list)}
        <4>1. e.contact \in SlotContacts
          BY <2>2, EventKinds
        <4>2. L \subseteq U
          BY <3>1, <4>1, <2>4, <1>w
        <4>3. ASSUME NEW k \in U PROVE k \in L <=> Knows(n, k)
          <5>1. k = Announced(e.contact, list) <=> e = Event("Begin", k.contact) /\ k = Announced(k.contact, list)
            BY <3>1, <1>a, EventParts
          <5>2. e # Event("End", k.contact)
            BY <3>1, EventParts
          <5> QED
            BY <3>1, <5>1, <5>2, <2>4, <2>5
        <4> QED
          BY <4>2, <4>3
      <3>2. CASE e = Event("Stay", e.contact) /\ L = K
        <4>1. ASSUME NEW k \in U PROVE k \in L <=> Knows(n, k)
          <5>1. e # Event("Begin", k.contact) /\ e # Event("End", k.contact)
            BY <3>2, EventParts
          <5> QED
            BY <3>2, <5>1, <2>4, <2>5
        <4> QED
          BY <4>1, <3>2, <2>4
      <3>3. CASE e = Event("End", e.contact) /\ L = {k \in K : k.contact # e.contact}
        <4>1. ASSUME NEW k \in U PROVE k \in L <=> Knows(n, k)
          <5>1. e # Event("Begin", k.contact)
            BY <3>3, EventParts
          <5>2. e = Event("End", k.contact) <=> k.contact = e.contact
            BY <3>3, EventParts
          <5>3. k.contact = e.contact => ~\E i \in 1..(n - 1) : E[i] = Event("Begin", k.contact)
            BY <3>3, <2>6, <2>7, <1>u
          <5>4. k \in L <=> k \in K /\ k.contact # e.contact
            BY <3>3
          <5>5. k \in K <=> Knows(n - 1, k)
            BY <2>4
          <5>6. Knows(n, k) <=> Knows(n - 1, k) /\ k.contact # e.contact
            <6>1. CASE k.contact = e.contact
              BY <6>1, <5>1, <5>2, <5>3, <2>5
            <6>2. CASE k.contact # e.contact
              BY <6>2, <5>1, <5>2, <2>5
            <6> QED
              BY <6>1, <6>2
          <5> QED
            BY <5>4, <5>5, <5>6
        <4> QED
          BY <4>1, <3>3, <2>4
      <3> QED
        BY <3>1, <3>2, <3>3, <2>2, <1>h
    <2> QED
      BY <2>2, <2>8 DEF L
  <1>14. N \in T
    <2>1. T \in SUBSET (0..N)
      OBVIOUS
    <2> HIDE DEF T
    <2>2. T = 0..N
      BY <1>1, <1>12, <1>13, <2>1, IntervalInduction
    <2> QED
      BY <2>2, <1>1
  <1>15. known[N] \subseteq U /\ \A k \in U : k \in known[N] <=> Knows(N, k)
    BY <1>14
  <1> SUFFICES ASSUME NEW k
               PROVE  k \in known[N] <=>
                        \/ \E p \in SlotContacts : Event("Begin", p) \in ToSet(E) /\ k = Announced(p, list)
                        \/ k \in before /\ Event("End", k.contact) \notin ToSet(E)
    BY <1>t
  <1>16. (\E p \in SlotContacts : Event("Begin", p) \in ToSet(E) /\ k = Announced(p, list))
           => k \in U /\ Event("Begin", k.contact) \in ToSet(E) /\ k = Announced(k.contact, list)
    BY <1>a, <1>w
  <1>17. k \in U => k.contact \in SlotContacts
    BY <1>u
  <1>18. k \in U => (Knows(N, k) <=> \/ Event("Begin", k.contact) \in ToSet(E) /\ k = Announced(k.contact, list)
                                     \/ k \in before /\ Event("End", k.contact) \notin ToSet(E))
    BY <1>1
  <1> HIDE DEF Knows
  <1> QED
    BY <1>15, <1>16, <1>17, <1>18, <1>w
=============================================================================
