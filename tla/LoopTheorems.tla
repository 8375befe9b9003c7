----------------------------- MODULE LoopTheorems -----------------------------
(***************************************************************************)
(* Induction over the loops of the code.  A loop along a list is a fold, a  *)
(* loop that repeats a step a recursive function; this module shows that    *)
(* what holds before the first step and is kept by every step holds after   *)
(* the last.  It is instantiated with the step and the invariant of a loop. *)
(***************************************************************************)
EXTENDS Integers, Sequences, SequencesExt, SequenceTheorems, ListTheorems, TLAPS

CONSTANTS
    Step(_, _, _),   \* Step(c, r, x): the state after the step for x in state r
    Inv(_, _, _)     \* Inv(c, r, n): the state r after n steps is as it should be
                     \* c is what stays the same through the loop

\* the state after the loop for all elements of l
Walk(c, base, l) == FoldLeft(LAMBDA r, x : Step(c, r, x), base, l)

\* the equation the fold's function over sets of positions satisfies
IsWalk(f, c, base, l, n) ==
    f = [s \in SUBSET (1..n) |-> IF s = {} THEN base
                                 ELSE Step(c, f[s \ {Max(s)}], l[Max(s)])]

\* The largest of some positions.
LEMMA MaxPosition ==
  ASSUME NEW n \in Nat, NEW s \in SUBSET (1..n), s # {}
  PROVE  Max(s) \in s /\ \A y \in s : y <= Max(s)
<1> DEFINE T == {z \in Nat : \E y \in s : z = n - y}
<1>0. \A y \in s : y \in 1..n
  OBVIOUS
<1>1. T \in SUBSET Nat /\ T # {}
  <2>1. PICK y \in s : TRUE
    OBVIOUS
  <2>2. n - y \in Nat
    BY <1>0
  <2> QED
    BY <2>2
<1>2. PICK z \in T : \A y \in T : z <= y
  BY <1>1, LeastNat
<1>3. PICK x \in s : z = n - x
  BY <1>2
<1>4. ASSUME NEW y \in s PROVE y <= x
  <2>1. n - y \in T
    BY <1>0
  <2>2. n - x <= n - y
    BY <1>2, <1>3, <2>1
  <2>3. x \in Int /\ y \in Int
    BY <1>0
  <2> QED
    BY <2>2, <2>3
<1> QED
  BY <1>3, <1>4 DEF Max

\* Such a function exists for lists of every length.
LEMMA WalkExists ==
  ASSUME NEW c, NEW base, NEW l, NEW n \in Nat
  PROVE  \E f : IsWalk(f, c, base, l, n)
<1> DEFINE T == {m \in Nat : ~ \E f : IsWalk(f, c, base, l, m)}
<1>1. SUFFICES ASSUME T # {} PROVE FALSE
  OBVIOUS
<1>2. T \in SUBSET Nat
  OBVIOUS
<1> HIDE DEF T
<1>3. PICK m \in T : \A y \in T : m <= y
  BY <1>1, <1>2, LeastNat
<1>4. m \in Nat /\ ~ \E f : IsWalk(f, c, base, l, m)
  BY <1>3 DEF T
<1>5. m # 0
  <2> SUFFICES ASSUME m = 0 PROVE FALSE
    OBVIOUS
  <2> DEFINE f == [s \in SUBSET (1..0) |-> base]
  <2>1. \A s \in SUBSET (1..0) : s = {}
    OBVIOUS
  <2>2. IsWalk(f, c, base, l, 0)
    BY <2>1 DEF IsWalk
  <2> QED
    BY <1>4, <2>2
<1>6. m - 1 \in Nat /\ m - 1 \notin T
  BY <1>3, <1>4, <1>5
<1>7. PICK g : IsWalk(g, c, base, l, m - 1)
  BY <1>6 DEF T
<1> DEFINE f == [s \in SUBSET (1..m) |-> IF m \in s THEN Step(c, g[s \ {m}], l[m]) ELSE g[s]]
<1>8. ASSUME NEW s \in SUBSET (1..m)
      PROVE  f[s] = IF s = {} THEN base ELSE Step(c, f[s \ {Max(s)}], l[Max(s)])
  <2>1. CASE m \in s
    <3>1. Max(s) = m
      <4>1. Max(s) \in s /\ \A y \in s : y <= Max(s)
        BY <1>4, <2>1, MaxPosition
      <4>2. Max(s) \in 1..m
        BY <4>1
      <4> QED
        BY <1>4, <2>1, <4>1, <4>2
    <3>2. s \ {m} \in SUBSET (1..m) /\ m \notin s \ {m}
      OBVIOUS
    <3> QED
      BY <2>1, <3>1, <3>2
  <2>2. CASE m \notin s
    <3>1. s \in SUBSET (1..(m - 1))
      BY <1>4, <2>2
    <3>2. g[s] = IF s = {} THEN base ELSE Step(c, g[s \ {Max(s)}], l[Max(s)])
      BY <1>7, <3>1 DEF IsWalk
    <3>3. s \ {Max(s)} \in SUBSET (1..m) /\ m \notin s \ {Max(s)}
      BY <2>2
    <3> QED
      BY <2>2, <3>2, <3>3
  <2> QED
    BY <2>1, <2>2
<1>9. IsWalk(f, c, base, l, m)
  BY <1>8, Zenon DEF IsWalk
<1> QED
  BY <1>4, <1>9

\* The loop along l goes through states in which the invariant holds.
THEOREM WalkInduction ==
  ASSUME NEW c, NEW S, NEW l \in Seq(S), NEW base, Inv(c, base, 0),
         \A n \in 0..(Len(l) - 1) : \A r : Inv(c, r, n) => Inv(c, Step(c, r, l[n + 1]), n + 1)
  PROVE  Inv(c, Walk(c, base, l), Len(l))
<1>0. Len(l) \in Nat /\ DOMAIN l = 1..Len(l)
  BY LenProperties
<1> DEFINE f == CHOOSE g : IsWalk(g, c, base, l, Len(l))
<1>1. IsWalk(f, c, base, l, Len(l))
  BY <1>0, WalkExists
<1>2. Walk(c, base, l) = f[1..Len(l)]
  BY <1>0 DEF Walk, FoldLeft, MapThenFoldSet, IsWalk
<1> HIDE DEF f
<1> DEFINE T == {n \in Nat : n <= Len(l) /\ ~ Inv(c, f[1..n], n)}
<1>3. T = {}
  <2> SUFFICES ASSUME T # {} PROVE FALSE
    OBVIOUS
  <2>1. T \in SUBSET Nat
    OBVIOUS
  <2> HIDE DEF T
  <2>2. PICK n \in T : \A y \in T : n <= y
    BY <2>1, LeastNat
  <2>3. n \in Nat /\ n <= Len(l) /\ ~ Inv(c, f[1..n], n)
    BY <2>2 DEF T
  <2>4. f[{}] = base
    BY <1>1 DEF IsWalk
  <2>5. n # 0
    <3>1. 1..0 = {}
      OBVIOUS
    <3> QED
      BY <2>3, <2>4, <3>1
  <2>6. n - 1 \in Nat /\ n - 1 \notin T /\ n - 1 <= Len(l)
    BY <1>0, <2>2, <2>3, <2>5
  <2>7. Inv(c, f[1..(n - 1)], n - 1)
    BY <2>6 DEF T
  <2>8. Max(1..n) = n
    <3>1. 1..n \in SUBSET (1..n) /\ n \in 1..n
      BY <2>3, <2>5
    <3>2. Max(1..n) \in 1..n /\ \A y \in 1..n : y <= Max(1..n)
      BY <2>3, <3>1, MaxPosition
    <3> QED
      BY <2>3, <3>1, <3>2
  <2>9. f[1..n] = Step(c, f[(1..n) \ {n}], l[n])
    <3>1. \A y \in 1..n : y \in 1..Len(l)
      BY <1>0, <2>3
    <3>2. n \in 1..n
      BY <2>3, <2>5
    <3>3. 1..n \in SUBSET (1..Len(l)) /\ 1..n # {}
      BY <3>1, <3>2
    <3> QED
      BY <1>1, <2>8, <3>3 DEF IsWalk
  <2>10. (1..n) \ {n} = 1..(n - 1)
    BY <2>3, <2>5
  <2>11. n - 1 \in 0..(Len(l) - 1) /\ (n - 1) + 1 = n
    BY <1>0, <2>3, <2>5
  <2>12. Inv(c, Step(c, f[1..(n - 1)], l[n]), n)
    BY <2>7, <2>11
  <2> QED
    BY <2>3, <2>9, <2>10, <2>12
<1> QED
  BY <1>0, <1>2, <1>3

-----------------------------------------------------------------------------
\* the states a loop goes through that repeats a step up to n times
Repeat(c, base, n) ==
    LET loop[i \in 0..n] == IF i = 0 THEN base ELSE Step(c, loop[i - 1], i)
    IN  loop[n]

IsRepeat(f, c, base, n) ==
    f = [i \in 0..n |-> IF i = 0 THEN base ELSE Step(c, f[i - 1], i)]

\* Such a function exists for every number of steps.
LEMMA RepeatExists ==
  ASSUME NEW c, NEW base, NEW n \in Nat
  PROVE  \E f : IsRepeat(f, c, base, n)
<1> DEFINE T == {m \in Nat : ~ \E f : IsRepeat(f, c, base, m)}
<1>1. SUFFICES ASSUME T # {} PROVE FALSE
  OBVIOUS
<1>2. T \in SUBSET Nat
  OBVIOUS
<1> HIDE DEF T
<1>3. PICK m \in T : \A y \in T : m <= y
  BY <1>1, <1>2, LeastNat
<1>4. m \in Nat /\ ~ \E f : IsRepeat(f, c, base, m)
  BY <1>3 DEF T
<1>5. m # 0
  <2> SUFFICES ASSUME m = 0 PROVE FALSE
    OBVIOUS
  <2> DEFINE f == [i \in 0..0 |-> base]
  <2>1. \A i \in 0..0 : i = 0
    OBVIOUS
  <2>2. IsRepeat(f, c, base, 0)
    BY <2>1 DEF IsRepeat
  <2> QED
    BY <1>4, <2>2
<1>6. m - 1 \in Nat /\ m - 1 \notin T
  BY <1>3, <1>4, <1>5
<1>7. PICK g : IsRepeat(g, c, base, m - 1)
  BY <1>6 DEF T
<1> DEFINE f == [i \in 0..m |-> IF i = m THEN Step(c, g[m - 1], m) ELSE g[i]]
<1>8. ASSUME NEW i \in 0..m
      PROVE  f[i] = IF i = 0 THEN base ELSE Step(c, f[i - 1], i)
  <2>1. CASE i = m
    <3>1. m - 1 \in 0..m /\ m - 1 # m /\ m \in 0..m
      BY <1>4, <1>6
    <3> QED
      BY <1>5, <2>1, <3>1
  <2>2. CASE i # m
    <3>1. i \in 0..(m - 1) /\ (i # 0 => i - 1 \in 0..m /\ i - 1 # m)
      BY <1>4, <2>2
    <3>2. g[i] = IF i = 0 THEN base ELSE Step(c, g[i - 1], i)
      BY <1>7, <3>1 DEF IsRepeat
    <3> QED
      BY <2>2, <3>1, <3>2
  <2> QED
    BY <2>1, <2>2
<1>9. IsRepeat(f, c, base, m)
  BY <1>8, Zenon DEF IsRepeat
<1> QED
  BY <1>4, <1>9

\* The loop goes through states in which the invariant holds.
THEOREM RepeatInduction ==
  ASSUME NEW c, NEW base, NEW n \in Nat, Inv(c, base, 0),
         \A i \in 1..n : \A r : Inv(c, r, i - 1) => Inv(c, Step(c, r, i), i)
  PROVE  Inv(c, Repeat(c, base, n), n)
<1> DEFINE f == CHOOSE g : IsRepeat(g, c, base, n)
<1>1. IsRepeat(f, c, base, n)
  BY RepeatExists
<1>2. Repeat(c, base, n) = f[n]
  BY DEF Repeat, IsRepeat
<1> HIDE DEF f
<1> DEFINE T == {i \in Nat : i <= n /\ ~ Inv(c, f[i], i)}
<1>3. T = {}
  <2> SUFFICES ASSUME T # {} PROVE FALSE
    OBVIOUS
  <2>1. T \in SUBSET Nat
    OBVIOUS
  <2> HIDE DEF T
  <2>2. PICK i \in T : \A y \in T : i <= y
    BY <2>1, LeastNat
  <2>3. i \in Nat /\ i <= n /\ ~ Inv(c, f[i], i)
    BY <2>2 DEF T
  <2>4. f[0] = base
    BY <1>1 DEF IsRepeat
  <2>5. i # 0
    BY <2>3, <2>4
  <2>6. i - 1 \in Nat /\ i - 1 \notin T /\ i - 1 <= n
    BY <2>2, <2>3, <2>5
  <2>7. Inv(c, f[i - 1], i - 1)
    BY <2>6 DEF T
  <2>8. i \in 0..n /\ i \in 1..n
    BY <2>3, <2>5
  <2>9. f[i] = Step(c, f[i - 1], i)
    BY <1>1, <2>5, <2>8 DEF IsRepeat
  <2> QED
    BY <2>3, <2>7, <2>8, <2>9
<1> QED
  BY <1>2, <1>3
=============================================================================
