----------------------------- MODULE ListTheorems -----------------------------
(***************************************************************************)
(* What the operators on sequences do that the kernel's doubly linked lists *)
(* (k_list.h) are modelled with: the list as a set, the list without         *)
(* duplicates, the list in order.                                           *)
(***************************************************************************)
EXTENDS Integers, Sequences, FiniteSets, SequencesExt, Functions, WellFoundedInduction,
        SequenceTheorems, FiniteSetTheorems, TLAPS

\* the list is in the order of the numbers key gives its elements
Ordered(l, key) == \A i, j \in 1..Len(l) : i < j => key[l[i]] <= key[l[j]]

\* the place of a new element with number n: before the first with a larger one
Place(l, key, n) ==
    LET I == {i \in 1..Len(l) : key[l[i]] > n}
    IN  IF I # {} THEN Min(I) ELSE Len(l) + 1

\* Every set of natural numbers that has a member has a least one.
LEMMA LeastNat ==
  ASSUME NEW T \in SUBSET Nat, T # {}
  PROVE  \E x \in T : \A y \in T : x <= y
<1>1. PICK x \in T : \A y \in T : ~ (<<y, x>> \in OpToRel(<, Nat))
  BY NatLessThanWellFounded, WFMin
<1>2. \A y \in T : ~ (y < x)
  BY <1>1, Zenon DEF OpToRel
<1>3. \A y \in T : x <= y
  BY <1>2
<1> QED
  BY <1>3

\* Min finds it.
LEMMA MinNat ==
  ASSUME NEW T \in SUBSET Nat, T # {}
  PROVE  Min(T) \in T /\ \A y \in T : Min(T) <= y
  BY LeastNat DEF Min

\* The members of a list are the values at its positions.
LEMMA ToSetDef ==
  ASSUME NEW S, NEW l \in Seq(S)
  PROVE  /\ ToSet(l) \in SUBSET S
         /\ \A e : e \in ToSet(l) <=> \E i \in 1..Len(l) : l[i] = e
         /\ \A e : e \in ToSet(l) <=> Contains(l, e)
         /\ ToSet(l) = {} <=> l = <<>>
         /\ \A i \in 1..Len(l) : l[i] \in ToSet(l)
<1>1. DOMAIN l = 1..Len(l) /\ Len(l) \in Nat /\ \A i \in 1..Len(l) : l[i] \in S
  BY LenProperties, ElementOfSeq
<1>2. \A e : e \in ToSet(l) <=> \E i \in 1..Len(l) : l[i] = e
  BY <1>1 DEF ToSet
<1>3. l # <<>> => l[1] \in ToSet(l)
  BY <1>1, <1>2, EmptySeq
<1> QED
  BY <1>1, <1>2, <1>3 DEF Contains

\* Taking out the element at position i.
LEMMA RemoveAtProperties ==
  ASSUME NEW S, NEW l \in Seq(S), NEW i \in 1..Len(l)
  PROVE  /\ RemoveAt(l, i) \in Seq(S)
         /\ Len(RemoveAt(l, i)) = Len(l) - 1
         /\ \A j \in 1..(Len(l) - 1) :
               RemoveAt(l, i)[j] = IF j < i THEN l[j] ELSE l[j + 1]
<1> DEFINE a == SubSeq(l, 1, i - 1)
           b == SubSeq(l, i + 1, Len(l))
<1>1. Len(l) \in Nat /\ \A j \in 1..Len(l) : l[j] \in S
  BY LenProperties, ElementOfSeq
<1>2. a \in Seq(S) /\ Len(a) = i - 1 /\ \A j \in 1..(i - 1) : a[j] = l[j]
  <2>1. 1 \in Int /\ i - 1 \in Int /\ \A j \in 1..(i - 1) : l[j] \in S
    BY <1>1
  <2>2. /\ a \in Seq(S) /\ Len(a) = (IF 1 <= i - 1 THEN i - 1 - 1 + 1 ELSE 0)
        /\ \A j \in 1..(i - 1 - 1 + 1) : a[j] = l[1 + j - 1]
    BY <2>1, SubSeqProperties
  <2> QED
    BY <2>2, <1>1
<1>3. b \in Seq(S) /\ Len(b) = Len(l) - i /\ \A j \in 1..(Len(l) - i) : b[j] = l[i + j]
  <2>1. i + 1 \in Int /\ Len(l) \in Int /\ \A j \in (i + 1)..Len(l) : l[j] \in S
    BY <1>1
  <2>2. /\ b \in Seq(S) /\ Len(b) = (IF i + 1 <= Len(l) THEN Len(l) - (i + 1) + 1 ELSE 0)
        /\ \A j \in 1..(Len(l) - (i + 1) + 1) : b[j] = l[(i + 1) + j - 1]
    BY <2>1, SubSeqProperties
  <2> QED
    BY <2>2, <1>1
<1> HIDE DEF a, b
<1>4. /\ a \o b \in Seq(S) /\ Len(a \o b) = Len(a) + Len(b)
      /\ \A j \in 1..(Len(a) + Len(b)) :
            (a \o b)[j] = IF j <= Len(a) THEN a[j] ELSE b[j - Len(a)]
  BY <1>2, <1>3, ConcatProperties
<1>5. RemoveAt(l, i) = a \o b
  BY DEF RemoveAt, a, b
<1> DEFINE d == a \o b
<1>6. d \in Seq(S) /\ Len(d) = Len(l) - 1
  BY <1>1, <1>2, <1>3, <1>4
<1>7. ASSUME NEW j \in 1..(Len(l) - 1)
      PROVE  d[j] = IF j < i THEN l[j] ELSE l[j + 1]
  <2>1. CASE j < i
    BY <1>1, <1>2, <1>3, <1>4, <2>1
  <2>2. CASE j >= i
    <3>1. j - (i - 1) \in 1..(Len(l) - i) /\ i + (j - (i - 1)) = j + 1
      BY <1>1, <2>2
    <3>2. b[j - (i - 1)] = l[j + 1]
      BY <1>3, <3>1
    <3>3. d[j] = b[j - (i - 1)]
      BY <1>1, <1>2, <1>3, <1>4, <2>2
    <3> QED
      BY <2>2, <3>2, <3>3
  <2>3. j < i \/ j >= i
    BY <1>1
  <2> QED
    BY <2>1, <2>2, <2>3
<1> QED
  BY <1>5, <1>6, <1>7

\* Putting an element in at position i.
LEMMA InsertAtProperties ==
  ASSUME NEW S, NEW l \in Seq(S), NEW e \in S, NEW i \in 1..(Len(l) + 1)
  PROVE  /\ InsertAt(l, i, e) \in Seq(S)
         /\ Len(InsertAt(l, i, e)) = Len(l) + 1
         /\ \A j \in 1..(Len(l) + 1) :
               InsertAt(l, i, e)[j] = IF j < i THEN l[j] ELSE IF j = i THEN e ELSE l[j - 1]
<1> DEFINE a == SubSeq(l, 1, i - 1)
           b == SubSeq(l, i, Len(l))
<1>1. Len(l) \in Nat /\ \A j \in 1..Len(l) : l[j] \in S
  BY LenProperties, ElementOfSeq
<1>2. a \in Seq(S) /\ Len(a) = i - 1 /\ \A j \in 1..(i - 1) : a[j] = l[j]
  <2>1. 1 \in Int /\ i - 1 \in Int /\ \A j \in 1..(i - 1) : l[j] \in S
    BY <1>1
  <2>2. /\ a \in Seq(S) /\ Len(a) = (IF 1 <= i - 1 THEN i - 1 - 1 + 1 ELSE 0)
        /\ \A j \in 1..(i - 1 - 1 + 1) : a[j] = l[1 + j - 1]
    BY <2>1, SubSeqProperties
  <2> QED
    BY <2>2, <1>1
<1>3. b \in Seq(S) /\ Len(b) = Len(l) - i + 1 /\ \A j \in 1..(Len(l) - i + 1) : b[j] = l[i + j - 1]
  <2>1. i \in Int /\ Len(l) \in Int /\ \A j \in i..Len(l) : l[j] \in S
    BY <1>1
  <2>2. /\ b \in Seq(S) /\ Len(b) = (IF i <= Len(l) THEN Len(l) - i + 1 ELSE 0)
        /\ \A j \in 1..(Len(l) - i + 1) : b[j] = l[i + j - 1]
    BY <2>1, SubSeqProperties
  <2> QED
    BY <2>2, <1>1
<1>4. <<e>> \in Seq(S) /\ Len(<<e>>) = 1 /\ <<e>>[1] = e
  OBVIOUS
<1> DEFINE c == <<e>>
<1> HIDE DEF a, b, c
<1>5. /\ a \o c \in Seq(S) /\ Len(a \o c) = Len(a) + Len(c)
      /\ \A j \in 1..(Len(a) + Len(c)) :
            (a \o c)[j] = IF j <= Len(a) THEN a[j] ELSE c[j - Len(a)]
  BY <1>2, <1>4, ConcatProperties DEF c
<1> DEFINE d == a \o c
<1> HIDE DEF d
<1>6. d \in Seq(S)
  BY <1>5 DEF d
<1>7. /\ d \o b \in Seq(S) /\ Len(d \o b) = Len(d) + Len(b)
      /\ \A j \in 1..(Len(d) + Len(b)) :
            (d \o b)[j] = IF j <= Len(d) THEN d[j] ELSE b[j - Len(d)]
  BY <1>3, <1>6, ConcatProperties
<1>8. InsertAt(l, i, e) = d \o b
  BY DEF InsertAt, a, b, c, d
<1>9. /\ d \in Seq(S) /\ Len(d) = i
      /\ \A j \in 1..i : d[j] = IF j < i THEN l[j] ELSE e
  BY <1>1, <1>2, <1>4, <1>5 DEF c, d
<1> DEFINE r == d \o b
<1>10. r \in Seq(S) /\ Len(r) = Len(l) + 1
  BY <1>1, <1>3, <1>7, <1>9
<1>11. ASSUME NEW j \in 1..(Len(l) + 1)
       PROVE  r[j] = IF j < i THEN l[j] ELSE IF j = i THEN e ELSE l[j - 1]
  <2>1. CASE j <= i
    BY <1>1, <1>3, <1>7, <1>9, <2>1
  <2>2. CASE j > i
    <3>1. j - i \in 1..(Len(l) - i + 1) /\ i + (j - i) - 1 = j - 1
      BY <1>1, <2>2
    <3>2. b[j - i] = l[j - 1]
      BY <1>3, <3>1
    <3>3. r[j] = b[j - i]
      BY <1>1, <1>3, <1>7, <1>9, <2>2
    <3> QED
      BY <2>2, <3>2, <3>3
  <2>3. j <= i \/ j > i
    BY <1>1
  <2> QED
    BY <2>1, <2>2, <2>3
<1> QED
  BY <1>8, <1>10, <1>11

-----------------------------------------------------------------------------
\* The position RemoveFirst takes out is that of the element.
LEMMA FirstIndex ==
  ASSUME NEW S, NEW l \in Seq(S), NEW e \in ToSet(l)
  PROVE  \E i \in 1..Len(l) : l[i] = e /\ RemoveFirst(l, e) = RemoveAt(l, i)
<1> DEFINE I == {i \in 1..Len(l) : l[i] = e}
<1>1. I \in SUBSET Nat
  BY LenProperties
<1>2. I # {}
  BY ToSetDef
<1>3. Min(I) \in I
  BY <1>1, <1>2, MinNat
<1>4. SelectInSeq(l, LAMBDA v : v = e) = IF I # {} THEN Min(I) ELSE 0
  BY DEF SelectInSeq
<1>5. RemoveFirst(l, e) = RemoveAt(l, Min(I))
  BY <1>2, <1>4 DEF RemoveFirst
<1> QED
  BY <1>3, <1>5

\* Taking an element out of a list without duplicates (klist_rm).
LEMMA RemoveFirstProperties ==
  ASSUME NEW S, NEW l \in Seq(S), IsInjective(l), NEW e
  PROVE  /\ RemoveFirst(l, e) \in Seq(S)
         /\ IsInjective(RemoveFirst(l, e))
         /\ ToSet(RemoveFirst(l, e)) = ToSet(l) \ {e}
         /\ \A key : Ordered(l, key) => Ordered(RemoveFirst(l, e), key)
<1>0. Len(l) \in Nat /\ DOMAIN l = 1..Len(l)
  BY LenProperties
<1>1. CASE e \notin ToSet(l)
  <2>1. RemoveFirst(l, e) = l
    BY <1>1, ToSetDef DEF RemoveFirst
  <2> QED
    BY <1>1, <2>1
<1>2. CASE e \in ToSet(l)
  <2>1. PICK i \in 1..Len(l) : l[i] = e /\ RemoveFirst(l, e) = RemoveAt(l, i)
    BY <1>2, FirstIndex
  <2> DEFINE r == RemoveFirst(l, e)
  <2> HIDE DEF r
  <2>2. /\ r \in Seq(S) /\ Len(r) = Len(l) - 1 /\ DOMAIN r = 1..(Len(l) - 1)
        /\ \A j \in 1..(Len(l) - 1) : r[j] = IF j < i THEN l[j] ELSE l[j + 1]
    <3>1. r = RemoveAt(l, i)
      BY <2>1 DEF r
    <3>2. /\ r \in Seq(S) /\ Len(r) = Len(l) - 1
          /\ \A j \in 1..(Len(l) - 1) : r[j] = IF j < i THEN l[j] ELSE l[j + 1]
      BY <3>1, RemoveAtProperties
    <3> QED
      BY <3>2, LenProperties
  <2>3. \A j, m \in 1..Len(l) : l[j] = l[m] => j = m
    BY <1>0 DEF IsInjective
  <2>4. IsInjective(r)
    <3>1. ASSUME NEW j \in 1..(Len(l) - 1), NEW m \in 1..(Len(l) - 1), r[j] = r[m]
          PROVE  j = m
      BY <1>0, <2>2, <2>3, <3>1
    <3> QED
      BY <2>2, <3>1 DEF IsInjective
  <2>5. ASSUME NEW x PROVE x \in ToSet(r) <=> x \in ToSet(l) /\ x # e
    <3>1. ASSUME x \in ToSet(r) PROVE x \in ToSet(l) /\ x # e
      <4>1. PICK j \in 1..(Len(l) - 1) : r[j] = x
        BY <2>2, <3>1, ToSetDef
      <4>2. PICK m \in 1..Len(l) : m # i /\ l[m] = x
        BY <1>0, <2>2, <4>1
      <4> QED
        BY <2>1, <2>3, <4>2, ToSetDef
    <3>2. ASSUME x \in ToSet(l), x # e PROVE x \in ToSet(r)
      <4>1. PICK j \in 1..Len(l) : l[j] = x
        BY <3>2, ToSetDef
      <4>2. j # i
        BY <2>1, <3>2, <4>1
      <4>3. CASE j < i
        <5>1. j \in 1..(Len(l) - 1) /\ r[j] = x
          BY <1>0, <2>2, <4>1, <4>3
        <5> QED
          BY <2>2, <5>1, ToSetDef
      <4>4. CASE j > i
        <5>1. j - 1 \in 1..(Len(l) - 1) /\ ~ (j - 1 < i) /\ (j - 1) + 1 = j
          BY <1>0, <4>4
        <5>2. r[j - 1] = x
          BY <2>2, <4>1, <5>1
        <5> QED
          BY <2>2, <5>1, <5>2, ToSetDef
      <4> QED
        BY <1>0, <4>2, <4>3, <4>4
    <3> QED
      BY <3>1, <3>2
  <2>6. ASSUME NEW key, Ordered(l, key) PROVE Ordered(r, key)
    BY <1>0, <2>2, <2>6 DEF Ordered
  <2> QED
    BY <2>2, <2>4, <2>5, <2>6 DEF r
<1> QED
  BY <1>1, <1>2

\* Putting a new element into a list without duplicates.
LEMMA InsertedProperties ==
  ASSUME NEW S, NEW l \in Seq(S), IsInjective(l), NEW e \in S, e \notin ToSet(l),
         NEW i \in 1..(Len(l) + 1)
  PROVE  /\ InsertAt(l, i, e) \in Seq(S)
         /\ IsInjective(InsertAt(l, i, e))
         /\ ToSet(InsertAt(l, i, e)) = ToSet(l) \cup {e}
<1> DEFINE r == InsertAt(l, i, e)
<1> HIDE DEF r
<1>0. Len(l) \in Nat /\ DOMAIN l = 1..Len(l)
  BY LenProperties
<1>1. /\ r \in Seq(S) /\ Len(r) = Len(l) + 1 /\ DOMAIN r = 1..(Len(l) + 1)
      /\ \A j \in 1..(Len(l) + 1) :
            r[j] = IF j < i THEN l[j] ELSE IF j = i THEN e ELSE l[j - 1]
  BY InsertAtProperties, LenProperties DEF r
<1>2. /\ \A j, m \in 1..Len(l) : l[j] = l[m] => j = m
      /\ \A j \in 1..Len(l) : l[j] # e
  BY <1>0, ToSetDef DEF IsInjective
<1>3. IsInjective(r)
  <2>1. ASSUME NEW j \in 1..(Len(l) + 1), NEW m \in 1..(Len(l) + 1), r[j] = r[m]
        PROVE  j = m
    BY SMTT(30), <1>0, <1>1, <1>2, <2>1
  <2> QED
    BY <1>1, <2>1 DEF IsInjective
<1>4. ASSUME NEW x PROVE x \in ToSet(r) <=> x \in ToSet(l) \/ x = e
  <2>1. ASSUME x \in ToSet(r), x # e PROVE x \in ToSet(l)
    <3>1. PICK j \in 1..(Len(l) + 1) : r[j] = x
      BY <1>1, <2>1, ToSetDef
    <3>2. PICK m \in 1..Len(l) : l[m] = x
      BY <1>0, <1>1, <2>1, <3>1
    <3> QED
      BY <3>2, ToSetDef
  <2>2. e \in ToSet(r)
    BY <1>0, <1>1, ToSetDef
  <2>3. ASSUME x \in ToSet(l) PROVE x \in ToSet(r)
    <3>1. PICK j \in 1..Len(l) : l[j] = x
      BY <2>3, ToSetDef
    <3>2. CASE j < i
      BY SMTT(30), <1>0, <1>1, <3>1, <3>2, ToSetDef
    <3>3. CASE j >= i
      <4>1. j + 1 \in 1..(Len(l) + 1) /\ ~ (j + 1 < i) /\ j + 1 # i /\ (j + 1) - 1 = j
        BY <1>0, <3>3
      <4>2. r[j + 1] = x
        BY <1>1, <3>1, <4>1
      <4> QED
        BY <1>1, <4>1, <4>2, ToSetDef
    <3> QED
      BY <1>0, <3>2, <3>3
  <2> QED
    BY <2>1, <2>2, <2>3
<1> QED
  BY <1>1, <1>3, <1>4 DEF r

\* Put at its place, a new element leaves an ordered list ordered.
LEMMA PlaceProperties ==
  ASSUME NEW S, NEW l \in Seq(S), NEW key \in [S -> Int], NEW n \in Int
  PROVE  /\ Place(l, key, n) \in 1..(Len(l) + 1)
         /\ Ordered(l, key) =>
              \A e \in S, key2 \in [S -> Int] :
                 (\A x \in ToSet(l) : key2[x] = key[x]) /\ key2[e] = n
                   => Ordered(InsertAt(l, Place(l, key, n), e), key2)
<1> DEFINE I == {i \in 1..Len(l) : key[l[i]] > n}
           p == Place(l, key, n)
<1>0. Len(l) \in Nat /\ \A i \in 1..Len(l) : l[i] \in S
  BY LenProperties, ElementOfSeq
<1>1. p = IF I # {} THEN Min(I) ELSE Len(l) + 1
  BY DEF Place
<1>2. I \in SUBSET Nat
  BY <1>0
<1> HIDE DEF p, I
<1>2_1. I # {} => Min(I) \in I /\ \A y \in I : Min(I) <= y
  BY <1>2, MinNat
<1>3. /\ p \in 1..(Len(l) + 1)
      /\ \A i \in 1..Len(l) : i < p => key[l[i]] <= n
      /\ p <= Len(l) => key[l[p]] > n
  <2>0. \A i \in 1..Len(l) : key[l[i]] \in Int
    BY <1>0
  <2>1. CASE I = {}
    BY <1>0, <1>1, <2>0, <2>1 DEF I
  <2>2. CASE I # {}
    <3>1. p \in I /\ \A y \in I : p <= y
      BY <1>1, <1>2_1, <2>2
    <3>2. p \in 1..Len(l) /\ key[l[p]] > n
      BY <3>1 DEF I
    <3>3. \A i \in 1..Len(l) : i < p => i \notin I
      BY <1>0, <3>1, <3>2
    <3>4. \A i \in 1..Len(l) : i < p => key[l[i]] <= n
      BY <2>0, <3>3 DEF I
    <3> QED
      BY <1>0, <3>2, <3>4
  <2> QED
    BY <2>1, <2>2
<1>4. ASSUME Ordered(l, key), NEW e \in S, NEW key2 \in [S -> Int],
             \A x \in ToSet(l) : key2[x] = key[x], key2[e] = n
      PROVE  Ordered(InsertAt(l, p, e), key2)
  <2> DEFINE r == InsertAt(l, p, e)
  <2> HIDE DEF r
  <2>1. /\ Len(r) = Len(l) + 1
        /\ \A j \in 1..(Len(l) + 1) :
              r[j] = IF j < p THEN l[j] ELSE IF j = p THEN e ELSE l[j - 1]
    BY <1>3, InsertAtProperties DEF r
  <2>2. \A i \in 1..Len(l) : key2[l[i]] = key[l[i]] /\ key[l[i]] \in Int
    BY <1>0, <1>4, ToSetDef
  <2>3. \A i \in 1..Len(l) : i < p => key2[l[i]] <= n
    BY <1>3, <2>2
  <2>4. \A i \in 1..Len(l) : i >= p => key2[l[i]] > n
    <3> SUFFICES ASSUME NEW i \in 1..Len(l), i >= p PROVE key[l[i]] > n
      BY <2>2
    <3>1. p \in 1..Len(l) /\ key[l[p]] > n
      BY <1>0, <1>3
    <3>2. key[l[p]] <= key[l[i]]
      BY <1>0, <1>3, <1>4, <2>2, <3>1 DEF Ordered
    <3> QED
      BY SMTT(30), <2>2, <3>1, <3>2
  <2>5. \A i, j \in 1..Len(l) : i < j => key2[l[i]] <= key2[l[j]]
    BY <1>4, <2>2 DEF Ordered
  <2>6. ASSUME NEW i \in 1..(Len(l) + 1), NEW j \in 1..(Len(l) + 1), i < j
        PROVE  key2[r[i]] <= key2[r[j]]
    <3>1. CASE j < p
      <4>1. i \in 1..Len(l) /\ j \in 1..Len(l) /\ i < p
        BY SMTT(30), <1>0, <1>3, <2>6, <3>1
      <4>2. r[i] = l[i] /\ r[j] = l[j]
        BY <2>1, <3>1, <4>1
      <4> QED
        BY <2>5, <2>6, <4>1, <4>2
    <3>2. CASE j = p
      BY SMTT(30), <1>0, <1>3, <1>4, <2>1, <2>3, <2>6, <3>2
    <3>3. CASE j > p /\ i < p
      <4>2. r[i] = l[i] /\ r[j] = l[j - 1]
        BY <1>0, <1>3, <2>1, <2>6, <3>3
      <4>3. i \in 1..Len(l) /\ j - 1 \in 1..Len(l) /\ j - 1 >= p
        BY <1>0, <1>3, <2>6, <3>3
      <4>4. key2[l[i]] <= n /\ key2[l[j - 1]] > n
        BY <2>3, <2>4, <3>3, <4>3
      <4>5. key2[l[i]] \in Int /\ key2[l[j - 1]] \in Int
        BY <2>2, <4>3
      <4> QED
        BY SMTT(30), <4>2, <4>4, <4>5
    <3>4. CASE j > p /\ i = p
      <4>1. r[i] = e /\ r[j] = l[j - 1] /\ j - 1 \in 1..Len(l) /\ j - 1 >= p
        BY <1>0, <1>3, <2>1, <2>6, <3>4
      <4> QED
        BY SMTT(30), <1>4, <2>2, <2>4, <4>1
    <3>5. CASE j > p /\ i > p
      <4>1. /\ r[i] = l[i - 1] /\ r[j] = l[j - 1]
            /\ i - 1 \in 1..Len(l) /\ j - 1 \in 1..Len(l) /\ i - 1 < j - 1
        BY <1>0, <1>3, <2>1, <2>6, <3>5
      <4> QED
        BY <2>5, <4>1
    <3> QED
      BY <1>3, <3>1, <3>2, <3>3, <3>4, <3>5
  <2> QED
    BY <2>1, <2>6 DEF Ordered, r
<1> QED
  BY <1>3, <1>4 DEF p

\* Adding an element at the end.
LEMMA AppendedProperties ==
  ASSUME NEW S, NEW l \in Seq(S), IsInjective(l), NEW e \in S, e \notin ToSet(l)
  PROVE  /\ Append(l, e) \in Seq(S)
         /\ IsInjective(Append(l, e))
         /\ ToSet(Append(l, e)) = ToSet(l) \cup {e}
         /\ Append(l, e) # <<>>
<1> DEFINE r == Append(l, e)
<1> HIDE DEF r
<1>0. Len(l) \in Nat /\ DOMAIN l = 1..Len(l)
  BY LenProperties
<1>1. /\ r \in Seq(S) /\ Len(r) = Len(l) + 1 /\ DOMAIN r = 1..(Len(l) + 1)
      /\ \A j \in 1..Len(l) : r[j] = l[j]
      /\ r[Len(l) + 1] = e /\ r # <<>>
  BY AppendProperties, LenProperties DEF r
<1>2. /\ \A j, m \in 1..Len(l) : l[j] = l[m] => j = m
      /\ \A j \in 1..Len(l) : l[j] # e
  BY <1>0, ToSetDef DEF IsInjective
<1>3. IsInjective(r)
  <2>1. ASSUME NEW j \in 1..(Len(l) + 1), NEW m \in 1..(Len(l) + 1), r[j] = r[m]
        PROVE  j = m
    BY <1>0, <1>1, <1>2, <2>1
  <2> QED
    BY <1>1, <2>1 DEF IsInjective
<1>4. ASSUME NEW x PROVE x \in ToSet(r) <=> x \in ToSet(l) \/ x = e
  <2>1. \A j \in 1..(Len(l) + 1) : j \in 1..Len(l) \/ j = Len(l) + 1
    BY <1>0
  <2>2. \A j \in 1..Len(l) : j \in 1..(Len(l) + 1)
    BY <1>0
  <2>3. Len(l) + 1 \in 1..(Len(l) + 1)
    BY <1>0
  <2>4. /\ x \in ToSet(r) <=> \E j \in 1..(Len(l) + 1) : r[j] = x
        /\ x \in ToSet(l) <=> \E j \in 1..Len(l) : l[j] = x
    BY <1>1, ToSetDef
  <2> QED
    BY <1>1, <2>1, <2>2, <2>3, <2>4
<1> QED
  BY <1>1, <1>3, <1>4 DEF r

\* Adding an element in front.
LEMMA ConsProperties ==
  ASSUME NEW S, NEW l \in Seq(S), IsInjective(l), NEW e \in S, e \notin ToSet(l)
  PROVE  /\ <<e>> \o l \in Seq(S)
         /\ IsInjective(<<e>> \o l)
         /\ ToSet(<<e>> \o l) = ToSet(l) \cup {e}
         /\ <<e>> \o l # <<>>
<1> DEFINE c == <<e>>
           r == c \o l
<1>0. Len(l) \in Nat /\ DOMAIN l = 1..Len(l) /\ c \in Seq(S) /\ Len(c) = 1 /\ c[1] = e
  BY LenProperties
<1> HIDE DEF c
<1>1. /\ r \in Seq(S) /\ Len(r) = 1 + Len(l)
      /\ \A j \in 1..(1 + Len(l)) : r[j] = IF j <= 1 THEN c[j] ELSE l[j - 1]
  <2>1. /\ c \o l \in Seq(S) /\ Len(c \o l) = Len(c) + Len(l)
        /\ \A j \in 1..(Len(c) + Len(l)) :
              (c \o l)[j] = IF j <= Len(c) THEN c[j] ELSE l[j - Len(c)]
    BY <1>0, ConcatProperties
  <2> QED
    BY <1>0, <2>1
<1> HIDE DEF r
<1>2. /\ DOMAIN r = 1..(Len(l) + 1) /\ r[1] = e
      /\ \A j \in 1..Len(l) : r[j + 1] = l[j]
  <2>1. \A j \in 1..Len(l) : j + 1 \in 1..(1 + Len(l)) /\ ~ (j + 1 <= 1) /\ (j + 1) - 1 = j
    BY <1>0
  <2>2. 1 \in 1..(1 + Len(l)) /\ 1 + Len(l) = Len(l) + 1
    BY <1>0
  <2> QED
    BY <1>0, <1>1, <2>1, <2>2, LenProperties
<1>3. /\ \A j, m \in 1..Len(l) : l[j] = l[m] => j = m
      /\ \A j \in 1..Len(l) : l[j] # e
  BY ZenonT(60), <1>0, ToSetDef DEF IsInjective
<1>4. \A j \in 1..(Len(l) + 1) : j = 1 \/ (j - 1 \in 1..Len(l) /\ r[j] = l[j - 1])
  BY <1>0, <1>1
<1>5. IsInjective(r)
  <2>1. ASSUME NEW j \in 1..(Len(l) + 1), NEW m \in 1..(Len(l) + 1), r[j] = r[m]
        PROVE  j = m
    BY <1>0, <1>2, <1>3, <1>4, <2>1
  <2> QED
    BY <1>2, <2>1 DEF IsInjective
<1>6. ASSUME NEW x PROVE x \in ToSet(r) <=> x \in ToSet(l) \/ x = e
  <2>1. /\ \A j \in 1..Len(l) : j + 1 \in 1..(Len(l) + 1)
        /\ 1 \in 1..(Len(l) + 1)
    BY <1>0
  <2>2. /\ x \in ToSet(r) <=> \E j \in 1..(Len(l) + 1) : r[j] = x
        /\ x \in ToSet(l) <=> \E j \in 1..Len(l) : l[j] = x
    BY <1>0, <1>1, ToSetDef
  <2> QED
    BY <1>2, <1>4, <2>1, <2>2
<1>7. r # <<>>
  BY <1>0, <1>1, EmptySeq
<1> QED
  BY <1>1, <1>5, <1>6, <1>7 DEF r, c

\* A list with its first element moved to the end has the same members.
LEMMA RotatedProperties ==
  ASSUME NEW S, NEW l \in Seq(S), IsInjective(l), l # <<>>
  PROVE  /\ Append(Tail(l), Head(l)) \in Seq(S)
         /\ IsInjective(Append(Tail(l), Head(l)))
         /\ ToSet(Append(Tail(l), Head(l))) = ToSet(l)
         /\ Append(Tail(l), Head(l)) # <<>>
<1>0. /\ Len(l) \in Nat /\ Len(l) # 0 /\ DOMAIN l = 1..Len(l)
      /\ Head(l) = l[1] /\ Head(l) \in S
  BY LenProperties, EmptySeq, HeadTailProperties
<1> DEFINE s == Tail(l)
<1>1. /\ s \in Seq(S) /\ Len(s) = Len(l) - 1 /\ DOMAIN s = 1..(Len(l) - 1)
      /\ \A i \in 1..(Len(l) - 1) : s[i] = l[i + 1]
  BY <1>0, HeadTailProperties, LenProperties
<1> HIDE DEF s
<1>2. \A j, m \in 1..Len(l) : l[j] = l[m] => j = m
  BY <1>0 DEF IsInjective
<1>3. /\ \A i \in 1..(Len(l) - 1) : i + 1 \in 1..Len(l) /\ i + 1 # 1
      /\ \A i \in 1..Len(l) : i = 1 \/ (i - 1 \in 1..(Len(l) - 1) /\ (i - 1) + 1 = i)
      /\ 1 \in 1..Len(l)
  BY <1>0
<1>4. IsInjective(s)
  <2>1. ASSUME NEW j \in 1..(Len(l) - 1), NEW m \in 1..(Len(l) - 1), s[j] = s[m]
        PROVE  j = m
    BY <1>0, <1>1, <1>2, <1>3, <2>1
  <2> QED
    BY <1>1, <2>1 DEF IsInjective
<1>5. /\ \A x : x \in ToSet(s) <=> \E j \in 1..(Len(l) - 1) : s[j] = x
      /\ \A x : x \in ToSet(l) <=> \E j \in 1..Len(l) : l[j] = x
  BY <1>1, ToSetDef
<1>6. Head(l) \notin ToSet(s)
  BY <1>0, <1>1, <1>2, <1>3, <1>5
<1>7. ToSet(s) \cup {Head(l)} = ToSet(l)
  <2>1. ASSUME NEW x \in ToSet(l), x # Head(l) PROVE x \in ToSet(s)
    <3>1. PICK j \in 1..Len(l) : l[j] = x
      BY <1>5
    <3>2. j - 1 \in 1..(Len(l) - 1) /\ (j - 1) + 1 = j
      BY <1>0, <1>3, <2>1, <3>1
    <3>3. s[j - 1] = x
      BY <1>1, <3>1, <3>2
    <3> QED
      BY <1>5, <3>2, <3>3
  <2>2. ASSUME NEW x \in ToSet(s) PROVE x \in ToSet(l)
    BY <1>1, <1>3, <1>5, <2>2
  <2> QED
    BY <1>0, <1>3, <1>5, <2>1, <2>2
<1>8. /\ Append(s, Head(l)) \in Seq(S)
      /\ IsInjective(Append(s, Head(l)))
      /\ ToSet(Append(s, Head(l))) = ToSet(s) \cup {Head(l)}
      /\ Append(s, Head(l)) # <<>>
  BY <1>0, <1>1, <1>4, <1>6, AppendedProperties
<1> QED
  BY <1>7, <1>8 DEF s

\* What stands before the place of n in an ordered list is at most n, what stands
\* from there on is more.
LEMMA PlaceSplits ==
  ASSUME NEW S, NEW l \in Seq(S), NEW key \in [S -> Int], NEW n \in Int, Ordered(l, key)
  PROVE  /\ Place(l, key, n) \in 1..(Len(l) + 1)
         /\ \A i \in 1..Len(l) : i < Place(l, key, n) <=> key[l[i]] <= n
<1> DEFINE I == {i \in 1..Len(l) : key[l[i]] > n}
           p == Place(l, key, n)
<1>0. Len(l) \in Nat /\ \A i \in 1..Len(l) : l[i] \in S /\ key[l[i]] \in Int
  BY LenProperties, ElementOfSeq
<1>1. p = IF I # {} THEN Min(I) ELSE Len(l) + 1
  BY DEF Place
<1>2. I \in SUBSET Nat
  BY <1>0
<1>3. I # {} => Min(I) \in I /\ \A y \in I : Min(I) <= y
  BY <1>2, MinNat
<1> HIDE DEF p
<1>4. CASE I = {}
  BY SMTT(30), <1>0, <1>1, <1>4 DEF p
<1>5. CASE I # {}
  <2>1. p \in 1..Len(l) /\ key[l[p]] > n /\ \A y \in I : p <= y
    BY <1>1, <1>3, <1>5
  <2>2. ASSUME NEW i \in 1..Len(l) PROVE i < p <=> key[l[i]] <= n
    <3>1. CASE i < p
      <4>1. i \notin I
        BY <2>1, <3>1, <1>0
      <4> QED
        BY <1>0, <3>1, <4>1
    <3>2. CASE i >= p
      <4>1. key[l[p]] <= key[l[i]]
        BY <1>0, <2>1, <3>2 DEF Ordered
      <4> QED
        BY <1>0, <2>1, <3>2, <4>1
    <3> QED
      BY <1>0, <2>1, <3>1, <3>2
  <2> QED
    BY <1>0, <2>1, <2>2 DEF p
<1> QED
  BY <1>4, <1>5

\* The beginning of a list.
LEMMA PrefixProperties ==
  ASSUME NEW S, NEW l \in Seq(S), IsInjective(l), NEW m \in 0..Len(l)
  PROVE  /\ SubSeq(l, 1, m) \in Seq(S) /\ IsInjective(SubSeq(l, 1, m))
         /\ Len(SubSeq(l, 1, m)) = m
         /\ \A i \in 1..m : SubSeq(l, 1, m)[i] = l[i]
         /\ ToSet(SubSeq(l, 1, m)) \in SUBSET ToSet(l)
<1>0. Len(l) \in Nat /\ DOMAIN l = 1..Len(l) /\ m \in Nat /\ \A i \in 1..m : i \in 1..Len(l)
  BY LenProperties
<1>1. \A i \in 1..m : l[i] \in S
  BY <1>0, ElementOfSeq
<1>2. PICK s : s = SubSeq(l, 1, m)
  OBVIOUS
<1>3. /\ s \in Seq(S)
      /\ Len(s) = IF 1 <= m THEN m - 1 + 1 ELSE 0
      /\ \A i \in 1..(m - 1 + 1) : s[i] = l[1 + i - 1]
  BY <1>0, <1>1, <1>2, SubSeqProperties
<1>4. Len(s) = m /\ \A i \in 1..m : s[i] = l[i]
  BY <1>0, <1>3
<1>5. DOMAIN s = 1..m
  BY <1>3, <1>4, LenProperties
<1>6. IsInjective(s)
  BY <1>0, <1>4, <1>5 DEF IsInjective
<1>7. ToSet(s) \in SUBSET ToSet(l)
  <2>1. \A e : e \in ToSet(s) <=> \E i \in 1..m : s[i] = e
    BY <1>3, <1>4, ToSetDef
  <2>2. \A i \in 1..m : l[i] \in ToSet(l)
    BY <1>0, ToSetDef
  <2> QED
    BY <1>4, <2>1, <2>2
<1> QED
  BY <1>2, <1>3, <1>4, <1>6, <1>7

\* A list without duplicates is as long as the set of its members is large.
LEMMA InjectiveCardinality ==
  ASSUME NEW S, NEW l \in Seq(S), IsInjective(l)
  PROVE  Cardinality(ToSet(l)) = Len(l) /\ IsFiniteSet(ToSet(l))
<1>0. Len(l) \in Nat /\ l \in [1..Len(l) -> S] /\ DOMAIN l = 1..Len(l)
  BY LenProperties
<1>1. l \in Bijection(1..Len(l), ToSet(l))
  <2>1. l \in [1..Len(l) -> ToSet(l)]
    BY <1>0, ToSetDef
  <2>2. \A y \in ToSet(l) : \E i \in 1..Len(l) : l[i] = y
    BY ToSetDef
  <2> QED
    BY <1>0, <2>1, <2>2 DEF Bijection, Injection, Surjection, IsInjective
<1>2. ExistsBijection(1..Len(l), ToSet(l))
  BY <1>1 DEF ExistsBijection
<1>3. Cardinality(ToSet(l)) = Len(l)
  BY <1>0, <1>2, FS_CountingElements
<1>4. IsFiniteSet(ToSet(l))
  BY <1>0, <1>2, FS_NatBijection
<1> QED
  BY <1>3, <1>4
=============================================================================
