--------------------------- MODULE RhinoTaskProofs --------------------------
(***************************************************************************)
(* What the internal routines of the kernel (RhinoCore) do to its lists,    *)
(* then the inductive invariant of the whole kernel, KInv, for any number   *)
(* of tasks, priorities and objects, and the proofs that the scheduler, the *)
(* interrupt handlers and the services on tasks (k_task.c) keep it.         *)
(***************************************************************************)
EXTENDS RhinoKernel, ListTheorems, FiniteSetTheorems

(***************************************************************************)
(* The internal routines.  A list is described by the set of tasks that are *)
(* on it, so that the states between two calls of such routines, in which   *)
(* task_state and the lists disagree, can be described as well.             *)
(***************************************************************************)

\* the ready queue holds the tasks of R, each at its own priority
Rdy(rdy, hi, prio, R) ==
    /\ rdy \in [Prio -> Seq(All)]
    /\ \A p \in Prio : IsInjective(rdy[p]) /\ ToSet(rdy[p]) = {t \in R : prio[t] = p}
    /\ hi \in 0..(IdlePri + 1)
    /\ hi = IdlePri + 1 \/ rdy[hi] # <<>>
    /\ \A p \in Prio : rdy[p] # <<>> => hi <= p

\* the block lists hold the tasks of B, each on that of its object, in order
Blk(blk, blkobj, prio, B) ==
    /\ blk \in [Obj -> Seq(Task)]
    /\ \A o \in Obj : /\ IsInjective(blk[o])
                      /\ ToSet(blk[o]) = {t \in B : blkobj[t] = o}
                      /\ Ordered(blk[o], prio)

\* the tick list holds the tasks of T in order
Tick(tickl, tick, T) ==
    /\ tickl \in Seq(Task) /\ IsInjective(tickl) /\ ToSet(tickl) = T
    /\ Ordered(tickl, tick)

-----------------------------------------------------------------------------
\* A task is put on a ready list that is empty, or made larger by it.
LEMMA RdyAdd ==
  ASSUME NEW rdy, NEW hi, NEW prio \in [All -> Prio], NEW R \in SUBSET All,
         Rdy(rdy, hi, prio, R), NEW t \in All, t \notin R, NEW l \in Seq(All),
         IsInjective(l), ToSet(l) = ToSet(rdy[prio[t]]) \cup {t}, NEW h,
         h = IF rdy[prio[t]] = <<>> /\ prio[t] < hi THEN prio[t] ELSE hi
  PROVE  Rdy([rdy EXCEPT ![prio[t]] = l], h, prio, R \cup {t})
<1> DEFINE p == prio[t]
           new == [rdy EXCEPT ![p] = l]
<1>1. p \in Prio /\ p \in 0..IdlePri /\ IdlePri \in Nat /\ hi \in 0..(IdlePri + 1)
  BY CoreAssumption DEF Prio, Rdy
<1>2. new \in [Prio -> Seq(All)] /\ new[p] = l /\ \A q \in Prio \ {p} : new[q] = rdy[q]
  BY <1>1 DEF Rdy
<1>3. \A q \in Prio : IsInjective(new[q]) /\ ToSet(new[q]) = {x \in R \cup {t} : prio[x] = q}
  <2>1. \A q \in Prio : q # p => {x \in R \cup {t} : prio[x] = q} = {x \in R : prio[x] = q}
    OBVIOUS
  <2>2. {x \in R \cup {t} : prio[x] = p} = {x \in R : prio[x] = p} \cup {t}
    OBVIOUS
  <2> QED
    BY <1>1, <1>2, <2>1, <2>2 DEF Rdy
<1>4. l # <<>>
  BY ToSetDef
<1>5. h \in 0..(IdlePri + 1)
  BY <1>1
<1>6. h = IdlePri + 1 \/ new[h] # <<>>
  BY <1>1, <1>2, <1>4, <1>5 DEF Rdy, Prio
<1>7. ASSUME NEW q \in Prio, new[q] # <<>> PROVE h <= q
  <2>0. q \in Int /\ p \in Int /\ hi \in Int /\ h <= hi /\ h \in Int
    BY <1>1 DEF Prio
  <2>1. CASE rdy[q] # <<>>
    <3>1. hi <= q
      BY <2>1 DEF Rdy
    <3> QED
      BY <2>0, <3>1
  <2>2. CASE rdy[q] = <<>>
    <3>1. q = p
      BY <1>2, <1>7, <2>2
    <3>2. h = IF p < hi THEN p ELSE hi
      BY <2>2, <3>1
    <3> QED
      BY <2>0, <3>1, <3>2
  <2> QED
    BY <2>1, <2>2
<1> QED
  BY <1>2, <1>3, <1>5, <1>6, <1>7 DEF Rdy

\* A task is taken off its ready list; others are left.
LEMMA RdyRemove ==
  ASSUME NEW rdy, NEW hi, NEW prio \in [All -> Prio], NEW R \in SUBSET All,
         Rdy(rdy, hi, prio, R), NEW t \in R, R \ {t} # {}, NEW new,
         new = [rdy EXCEPT ![prio[t]] = RemoveFirst(rdy[prio[t]], t)]
  PROVE  Rdy(new, IF new[prio[t]] = <<>> /\ prio[t] = hi THEN find_first_bit(new) ELSE hi,
             prio, R \ {t})
<1> DEFINE p == prio[t]
           l == RemoveFirst(rdy[p], t)
           P == {q \in Prio : new[q] # <<>>}
           h == IF new[p] = <<>> /\ p = hi THEN find_first_bit(new) ELSE hi
<1>1. p \in Prio /\ p \in 0..IdlePri /\ IdlePri \in Nat /\ hi \in 0..(IdlePri + 1)
  BY CoreAssumption DEF Prio, Rdy
<1>2. l \in Seq(All) /\ IsInjective(l) /\ ToSet(l) = ToSet(rdy[p]) \ {t}
  BY <1>1, RemoveFirstProperties DEF Rdy
<1>3. new \in [Prio -> Seq(All)] /\ new[p] = l /\ \A q \in Prio \ {p} : new[q] = rdy[q]
  BY <1>1, <1>2 DEF Rdy
<1>4. \A q \in Prio : IsInjective(new[q]) /\ ToSet(new[q]) = {x \in R \ {t} : prio[x] = q}
  <2>1. \A q \in Prio : q # p => {x \in R \ {t} : prio[x] = q} = {x \in R : prio[x] = q}
    OBVIOUS
  <2>2. {x \in R \ {t} : prio[x] = p} = {x \in R : prio[x] = p} \ {t}
    OBVIOUS
  <2> QED
    BY <1>1, <1>2, <1>3, <2>1, <2>2 DEF Rdy
<1>5. P \in SUBSET Nat /\ P # {}
  <2>1. PICK u \in R \ {t} : TRUE
    OBVIOUS
  <2>2. prio[u] \in Prio /\ u \in ToSet(new[prio[u]])
    BY <1>4
  <2>3. new[prio[u]] # <<>>
    BY <1>3, <2>2, ToSetDef
  <2> QED
    BY <2>2, <2>3 DEF Prio
<1>6. find_first_bit(new) \in P /\ \A q \in P : find_first_bit(new) <= q
  BY <1>5, MinNat DEF find_first_bit
<1> HIDE DEF P
<1>7. \A q \in Prio : q \in P <=> new[q] # <<>>
  BY DEF P
<1>8. P \in SUBSET Prio
  BY DEF P
<1>9. \A q \in Prio : new[q] # <<>> => rdy[q] # <<>>
  <2>1. rdy[p] # <<>>
    BY <1>1, ToSetDef DEF Rdy
  <2> QED
    BY <1>3, <2>1
<1>10. CASE new[p] = <<>> /\ p = hi
  <2>1. h = find_first_bit(new) /\ h \in Prio
    BY <1>10, <1>6, <1>8
  <2>2. h \in P /\ \A q \in P : h <= q
    BY <2>1, <1>6
  <2> HIDE DEF h
  <2>3. h \in 0..(IdlePri + 1)
    BY <2>1, <1>1 DEF Prio
  <2>4. new[h] # <<>> /\ \A q \in Prio : new[q] # <<>> => h <= q
    BY <2>1, <2>2, <1>7
  <2>5. Rdy(new, h, prio, R \ {t})
    BY <2>3, <2>4, <1>3, <1>4 DEF Rdy
  <2> QED
    BY <2>5 DEF h

<1>11. CASE ~ (new[p] = <<>> /\ p = hi)
  <2>1. h = hi
    BY <1>11
  <2>2. hi = IdlePri + 1 \/ new[hi] # <<>>
    BY <1>1, <1>3, <1>11 DEF Rdy, Prio
  <2>3. \A q \in Prio : new[q] # <<>> => hi <= q
    BY <1>9 DEF Rdy
  <2> QED
    BY <2>1, <2>2, <2>3, <1>1, <1>3, <1>4 DEF Rdy
<1> QED
  BY <1>10, <1>11

\* A ready list turns round.
LEMMA RdyRotate ==
  ASSUME NEW rdy, NEW hi, NEW prio \in [All -> Prio], NEW R \in SUBSET All,
         Rdy(rdy, hi, prio, R), NEW p \in Prio, rdy[p] # <<>>
  PROVE  Rdy([rdy EXCEPT ![p] = Append(Tail(rdy[p]), Head(rdy[p]))], hi, prio, R)
<1> DEFINE l == Append(Tail(rdy[p]), Head(rdy[p]))
           new == [rdy EXCEPT ![p] = l]
<1>1. l \in Seq(All) /\ IsInjective(l) /\ ToSet(l) = ToSet(rdy[p]) /\ l # <<>>
  BY RotatedProperties DEF Rdy
<1> HIDE DEF l
<1>2. new \in [Prio -> Seq(All)] /\ new[p] = l /\ \A q \in Prio \ {p} : new[q] = rdy[q]
  BY <1>1 DEF Rdy
<1>3. hi \in 0..(IdlePri + 1) /\ (hi = IdlePri + 1 \/ new[hi] # <<>>)
  BY <1>1, <1>2, CoreAssumption DEF Rdy, Prio
<1> QED
  BY <1>1, <1>2, <1>3 DEF Rdy, l

\* The first ready task of the highest priority is one of the ready tasks.
LEMMA RdyFirst ==
  ASSUME NEW rdy, NEW hi, NEW prio \in [All -> Prio], NEW R \in SUBSET All,
         Rdy(rdy, hi, prio, R), R # {}
  PROVE  Head(rdy[hi]) \in R /\ hi \in Prio /\ rdy[hi] # <<>>
<1>1. PICK u \in R : TRUE
  OBVIOUS
<1>2. prio[u] \in Prio /\ u \in ToSet(rdy[prio[u]])
  BY DEF Rdy
<1>3. rdy[prio[u]] # <<>>
  BY <1>2, ToSetDef DEF Rdy
<1>4. hi \in Prio
  BY <1>2, <1>3, CoreAssumption DEF Rdy, Prio
<1>5. rdy[hi] \in Seq(All) /\ rdy[hi] # <<>>
  BY <1>4, CoreAssumption DEF Rdy, Prio
<1>6. Head(rdy[hi]) \in ToSet(rdy[hi])
  <2>1. Len(rdy[hi]) \in Nat /\ Len(rdy[hi]) # 0
    BY <1>5, EmptySeq, LenProperties
  <2> QED
    BY <1>5, <2>1, ToSetDef, HeadTailProperties
<1> QED
  BY <1>4, <1>5, <1>6 DEF Rdy

\* The priority of a task that is not ready may change.
LEMMA RdyPrio ==
  ASSUME NEW rdy, NEW hi, NEW prio \in [All -> Prio], NEW R \in SUBSET All,
         Rdy(rdy, hi, prio, R), NEW t \in All \ R, NEW n
  PROVE  Rdy(rdy, hi, [prio EXCEPT ![t] = n], R)
<1>1. \A q : {x \in R : [prio EXCEPT ![t] = n][x] = q} = {x \in R : prio[x] = q}
  OBVIOUS
<1> QED
  BY <1>1 DEF Rdy

-----------------------------------------------------------------------------
\* pend_list_add puts a task at its place.
LEMMA PendListAdd ==
  ASSUME NEW r, r.prio \in [All -> Prio], NEW l \in Seq(Task), IsInjective(l),
         Ordered(l, r.prio), NEW t \in Task, t \notin ToSet(l)
  PROVE  /\ pend_list_add(r, l, t) \in Seq(Task)
         /\ IsInjective(pend_list_add(r, l, t))
         /\ ToSet(pend_list_add(r, l, t)) = ToSet(l) \cup {t}
         /\ Ordered(pend_list_add(r, l, t), r.prio)
<1> DEFINE key == [x \in Task |-> r.prio[x]]
           n == r.prio[t]
           i == Place(l, key, n)
<1>1. key \in [Task -> Int] /\ n \in Int /\ Prio \subseteq Int
  BY DEF All, Prio
<1>2. \A j \in 1..Len(l) : l[j] \in Task
  BY ElementOfSeq
<1>3. pend_list_add(r, l, t) = InsertAt(l, i, t)
  <2>1. {j \in 1..Len(l) : key[l[j]] > n} = {j \in 1..Len(l) : r.prio[l[j]] > r.prio[t]}
    BY <1>2
  <2>2. \A j \in {j \in 1..Len(l) : key[l[j]] > n} : j # 0
    OBVIOUS
  <2>3. {j \in 1..Len(l) : key[l[j]] > n} # {} => Min({j \in 1..Len(l) : key[l[j]] > n}) # 0
    <3>1. {j \in 1..Len(l) : key[l[j]] > n} \in SUBSET Nat
      OBVIOUS
    <3> QED
      BY <2>2, <3>1, MinNat
  <2> QED
    BY <2>1, <2>3 DEF pend_list_add, SelectInSeq, Place
<1>4. i \in 1..(Len(l) + 1) /\ (Ordered(l, key) => Ordered(InsertAt(l, i, t), key))
  BY <1>1, PlaceProperties
<1>5. Ordered(l, key)
  BY <1>2 DEF Ordered
<1> HIDE DEF i
<1>6. /\ InsertAt(l, i, t) \in Seq(Task) /\ IsInjective(InsertAt(l, i, t))
      /\ ToSet(InsertAt(l, i, t)) = ToSet(l) \cup {t}
  BY <1>4, InsertedProperties
<1>7. \A j \in 1..Len(InsertAt(l, i, t)) : InsertAt(l, i, t)[j] \in Task
  BY <1>6, ElementOfSeq
<1> QED
  BY <1>3, <1>4, <1>5, <1>6, <1>7 DEF Ordered

\* A task goes to the block list of its object.
LEMMA BlkAdd ==
  ASSUME NEW r, NEW B \in SUBSET Task, r.prio \in [All -> Prio],
         Blk(r.blk, r.blkobj, r.prio, B), NEW t \in Task, t \notin B,
         NEW o \in Obj, r.blkobj[t] = o
  PROVE  Blk([r.blk EXCEPT ![o] = pend_list_add(r, r.blk[o], t)], r.blkobj, r.prio, B \cup {t})
<1> DEFINE l == pend_list_add(r, r.blk[o], t)
           new == [r.blk EXCEPT ![o] = l]
<1>1. /\ l \in Seq(Task) /\ IsInjective(l) /\ ToSet(l) = ToSet(r.blk[o]) \cup {t}
      /\ Ordered(l, r.prio)
  BY PendListAdd DEF Blk
<1> HIDE DEF l
<1>2. new \in [Obj -> Seq(Task)] /\ new[o] = l /\ \A x \in Obj \ {o} : new[x] = r.blk[x]
  BY <1>1 DEF Blk
<1>3. \A x \in Obj : {u \in B \cup {t} : r.blkobj[u] = x} =
                     IF x = o THEN {u \in B : r.blkobj[u] = x} \cup {t}
                              ELSE {u \in B : r.blkobj[u] = x}
  OBVIOUS
<1> QED
  BY <1>1, <1>2, <1>3 DEF Blk, l

\* A task leaves the block list of its object.
LEMMA BlkRemove ==
  ASSUME NEW blk, NEW blkobj, NEW prio, NEW B \in SUBSET Task,
         Blk(blk, blkobj, prio, B), NEW t \in B, blkobj[t] \in Obj
  PROVE  Blk([blk EXCEPT ![blkobj[t]] = RemoveFirst(blk[blkobj[t]], t)], blkobj, prio, B \ {t})
<1> DEFINE o == blkobj[t]
           l == RemoveFirst(blk[o], t)
           new == [blk EXCEPT ![o] = l]
<1>1. /\ l \in Seq(Task) /\ IsInjective(l) /\ ToSet(l) = ToSet(blk[o]) \ {t}
      /\ Ordered(l, prio)
  BY RemoveFirstProperties DEF Blk
<1> HIDE DEF l
<1>2. new \in [Obj -> Seq(Task)] /\ new[o] = l /\ \A x \in Obj \ {o} : new[x] = blk[x]
  BY <1>1 DEF Blk
<1>3. \A x \in Obj : {u \in B \ {t} : blkobj[u] = x} =
                     IF x = o THEN {u \in B : blkobj[u] = x} \ {t}
                              ELSE {u \in B : blkobj[u] = x}
  OBVIOUS
<1> QED
  BY <1>1, <1>2, <1>3 DEF Blk, l

\* Priority and blk_obj of a task that is on no block list may change.
LEMMA BlkOff ==
  ASSUME NEW blk, NEW blkobj, NEW prio \in [All -> Prio], NEW B \in SUBSET Task,
         Blk(blk, blkobj, prio, B), NEW blkobj2, NEW prio2,
         \A x \in B : blkobj2[x] = blkobj[x] /\ prio2[x] = prio[x]
  PROVE  Blk(blk, blkobj2, prio2, B)
<1>1. \A o \in Obj : {u \in B : blkobj2[u] = o} = {u \in B : blkobj[u] = o}
  OBVIOUS
<1>2. ASSUME NEW o \in Obj PROVE Ordered(blk[o], prio2)
  <2>1. \A i \in 1..Len(blk[o]) : blk[o][i] \in ToSet(blk[o])
    BY ToSetDef DEF Blk
  <2>2. \A i \in 1..Len(blk[o]) : prio2[blk[o][i]] = prio[blk[o][i]]
    BY <2>1 DEF Blk
  <2> QED
    BY <2>2 DEF Blk, Ordered
<1> QED
  BY <1>1, <1>2 DEF Blk

-----------------------------------------------------------------------------
\* tick_list_insert puts a task at its place.
LEMMA TickAdd ==
  ASSUME NEW r, r.tick \in [All -> Nat], NEW T \in SUBSET Task, Tick(r.tickl, r.tick, T),
         NEW t \in Task, t \notin T, NEW n \in Nat, NEW l, NEW i,
         i = SelectInSeq(r.tickl, LAMBDA x : r.tick[x] > n),
         l = InsertAt(r.tickl, IF i = 0 THEN Len(r.tickl) + 1 ELSE i, t)
  PROVE  Tick(l, [r.tick EXCEPT ![t] = n], T \cup {t})
<1> DEFINE q == r.tickl
           key == [x \in Task |-> r.tick[x]]
           new == [r.tick EXCEPT ![t] = n]
           key2 == [x \in Task |-> new[x]]
           j == Place(q, key, n)
<1>1. key \in [Task -> Int] /\ key2 \in [Task -> Int] /\ n \in Int /\ q \in Seq(Task)
      /\ t \in All /\ Task \subseteq All
  BY DEF All, Tick
<1>2. \A m \in 1..Len(q) : q[m] \in Task
  BY <1>1, ElementOfSeq
<1>3. l = InsertAt(q, j, t)
  <2>1. {m \in 1..Len(q) : key[q[m]] > n} = {m \in 1..Len(q) : r.tick[q[m]] > n}
    BY <1>2
  <2>2. \A m \in {m \in 1..Len(q) : key[q[m]] > n} : m # 0
    OBVIOUS
  <2>3. {m \in 1..Len(q) : key[q[m]] > n} # {} => Min({m \in 1..Len(q) : key[q[m]] > n}) # 0
    <3>1. {m \in 1..Len(q) : key[q[m]] > n} \in SUBSET Nat
      OBVIOUS
    <3> QED
      BY <2>2, <3>1, MinNat
  <2> QED
    BY <2>1, <2>3 DEF SelectInSeq, Place
<1>4. \A x \in ToSet(q) : key2[x] = key[x]
  BY <1>1 DEF Tick
<1>5. key2[t] = n
  BY <1>1
<1>6. Ordered(q, key)
  BY <1>2 DEF Ordered, Tick
<1> HIDE DEF key, key2
<1>7. j \in 1..(Len(q) + 1) /\ Ordered(InsertAt(q, j, t), key2)
  BY ZenonT(60), <1>1, <1>4, <1>5, <1>6, PlaceProperties
<1> HIDE DEF j
<1>8. l \in Seq(Task) /\ IsInjective(l) /\ ToSet(l) = T \cup {t}
  <2>1. IsInjective(q) /\ ToSet(q) = T
    BY DEF Tick
  <2>2. q \in Seq(Task) /\ t \notin ToSet(q)
    BY <1>1, <2>1
  <2>3. j \in 1..(Len(q) + 1)
    BY <1>7
  <2> HIDE DEF q
  <2>4. /\ InsertAt(q, j, t) \in Seq(Task) /\ IsInjective(InsertAt(q, j, t))
        /\ ToSet(InsertAt(q, j, t)) = ToSet(q) \cup {t}
    BY ONLY <2>1, <2>2, <2>3, t \in Task, InsertedProperties
  <2> QED
    BY <1>3, <2>1, <2>4


<1>9. \A m \in 1..Len(l) : l[m] \in Task
  BY <1>8, ElementOfSeq
<1>10. Ordered(l, new)
  BY <1>3, <1>7, <1>9 DEF Ordered, key2
<1> QED
  BY <1>8, <1>10 DEF Tick

\* A task leaves the tick list, or was not on it.
LEMMA TickRemove ==
  ASSUME NEW tickl, NEW tick \in [All -> Nat], NEW T \in SUBSET Task, Tick(tickl, tick, T),
         NEW t \in All, NEW n
  PROVE  Tick(RemoveFirst(tickl, t), [tick EXCEPT ![t] = n], T \ {t})
<1> DEFINE l == RemoveFirst(tickl, t)
<1>1. l \in Seq(Task) /\ IsInjective(l) /\ ToSet(l) = T \ {t} /\ Ordered(l, tick)
  BY RemoveFirstProperties DEF Tick
<1> HIDE DEF l
<1>2. \A m \in 1..Len(l) : l[m] \in T \ {t}
  BY <1>1, ToSetDef
<1>3. \A m \in 1..Len(l) : [tick EXCEPT ![t] = n][l[m]] = tick[l[m]]
  BY <1>2 DEF All
<1> QED
  BY <1>1, <1>3 DEF Tick, Ordered, l

-----------------------------------------------------------------------------
(* The kernel's record.  Only the values of its fields matter: a routine is *)
(* described by the fields it may change and by what it makes of them.      *)

Fields == {"active", "lock", "intr", "hi", "rdy", "prio", "bprio", "state", "susp",
    "blkst", "blkobj", "tick", "tickl", "slice", "total", "policy", "blk", "live",
    "owner", "nested", "mlist", "count", "ring", "num", "msg", "flags", "want", "actl",
    "pc", "wait", "arg", "err"}

IsK(r) == r = [f \in Fields |-> r[f]]

\* r is a kernel record that differs from s at most in the fields F
Same(r, s, F) == IsK(r) /\ \A f \in Fields \ F : r[f] = s[f]

\* The names of the fields.
LEMMA FieldNames ==
    /\ "active" \in Fields /\ "lock" \in Fields /\ "intr" \in Fields /\ "hi" \in Fields
    /\ "rdy" \in Fields /\ "prio" \in Fields /\ "bprio" \in Fields /\ "state" \in Fields
    /\ "susp" \in Fields /\ "blkst" \in Fields /\ "blkobj" \in Fields /\ "tick" \in Fields
    /\ "tickl" \in Fields /\ "slice" \in Fields /\ "total" \in Fields /\ "policy" \in Fields
    /\ "blk" \in Fields /\ "live" \in Fields /\ "owner" \in Fields /\ "nested" \in Fields
    /\ "mlist" \in Fields /\ "count" \in Fields /\ "ring" \in Fields /\ "num" \in Fields
    /\ "msg" \in Fields /\ "flags" \in Fields /\ "want" \in Fields /\ "actl" \in Fields
    /\ "pc" \in Fields /\ "wait" \in Fields /\ "arg" \in Fields /\ "err" \in Fields
  BY DEF Fields

\* One change after another.
LEMMA SameTrans ==
  ASSUME NEW r, NEW s, NEW q, NEW F, NEW G, Same(s, r, F), Same(q, s, G)
  PROVE  Same(q, r, F \cup G)
  BY DEF Same

\* the fields the internal routines read have their types
Typed(r) ==
    /\ IsK(r)
    /\ r.active \in All
    /\ r.prio \in [All -> Prio]
    /\ r.bprio \in [All -> Prio]
    /\ r.state \in [All -> TaskState]
    /\ r.blkst \in [All -> BlkState]
    /\ r.blkobj \in [All -> Obj \cup {NULL}]
    /\ r.tick \in [All -> Nat]
    /\ r.owner \in [Mutex -> Task \cup {NULL}]
    /\ r.mlist \in [All -> Seq(Mutex)]

\* the ready queue holds the tasks of R, the block lists those of B, the tick
\* list those of T; the idle task is always ready and waits for nothing
Lists(r, R, B, T) ==
    /\ Typed(r)
    /\ R \in SUBSET All /\ Idle \in R
    /\ B \in SUBSET Task /\ T \in SUBSET Task
    /\ \A t \in B : r.blkobj[t] \in Obj
    /\ Rdy(r.rdy, r.hi, r.prio, R)
    /\ Blk(r.blk, r.blkobj, r.prio, B)
    /\ Tick(r.tickl, r.tick, T)

-----------------------------------------------------------------------------
\* ready_list_add_tail, ready_list_add_head and ready_list_add make a task ready.
LEMMA ListsReadyAdd ==
  ASSUME NEW r, NEW R, NEW B, NEW T, Lists(r, R, B, T), NEW t \in All, t \notin R, NEW q,
         q \in {ready_list_add_tail(r, t), ready_list_add_head(r, t), ready_list_add(r, t)}
  PROVE  Lists(q, R \cup {t}, B, T) /\ Same(q, r, {"rdy", "hi"})
<1> DEFINE p == r.prio[t]
           l == r.rdy[p]
           h == IF l = <<>> /\ p < r.hi THEN p ELSE r.hi
<1>1. IsK(r) /\ p \in Prio /\ l \in Seq(All) /\ IsInjective(l) /\ t \notin ToSet(l)
  BY DEF Lists, Typed, Rdy
<1>2. q \in {ready_list_add_tail(r, t), ready_list_add_head(r, t)}
  BY DEF ready_list_add
<1>3. PICK x \in {Append(l, t), <<t>> \o l} :
         /\ Same(q, r, {"rdy", "hi"})
         /\ q.rdy = [r.rdy EXCEPT ![p] = x]
         /\ q.hi = h
  <2>1. CASE l = <<>>
    <3>1. q = ready_list_init(r, t)
      BY <1>2, <2>1 DEF ready_list_add_tail, ready_list_add_head
    <3>2. Append(l, t) = <<t>>
      BY <2>1
    <3>3. Same(q, r, {"rdy", "hi"}) /\ q.rdy = [r.rdy EXCEPT ![p] = <<t>>] /\ q.hi = h
      BY ZenonT(30), <1>1, <2>1, <3>1, FieldNames DEF ready_list_init, IsK, Same
    <3> QED
      BY <3>2, <3>3
  <2>2. CASE l # <<>> /\ q = ready_list_add_tail(r, t)
    <3>1. q = [r EXCEPT !.rdy[p] = Append(@, t)]
      BY <2>2 DEF ready_list_add_tail
    <3> QED
      BY <1>1, <2>2, <3>1, FieldNames DEF IsK, Same
  <2>3. CASE l # <<>> /\ q = ready_list_add_head(r, t)
    <3>1. q = [r EXCEPT !.rdy[p] = <<t>> \o @]
      BY <2>3 DEF ready_list_add_head
    <3> QED
      BY <1>1, <2>3, <3>1, FieldNames DEF IsK, Same
  <2> QED
    BY <1>2, <2>1, <2>2, <2>3
<1>4. x \in Seq(All) /\ IsInjective(x) /\ ToSet(x) = ToSet(l) \cup {t}
  <2>1. /\ Append(l, t) \in Seq(All) /\ IsInjective(Append(l, t))
        /\ ToSet(Append(l, t)) = ToSet(l) \cup {t}
    BY <1>1, AppendedProperties
  <2>2. /\ <<t>> \o l \in Seq(All) /\ IsInjective(<<t>> \o l)
        /\ ToSet(<<t>> \o l) = ToSet(l) \cup {t}
    BY <1>1, ConsProperties
  <2> QED
    BY <2>1, <2>2
<1>5. /\ r.prio \in [All -> Prio] /\ R \in SUBSET All /\ Rdy(r.rdy, r.hi, r.prio, R)
      /\ q.prio = r.prio
  BY <1>3, FieldNames DEF Lists, Typed, Same
<1>6. Rdy([r.rdy EXCEPT ![p] = x], h, r.prio, R \cup {t})
  BY <1>4, <1>5, RdyAdd
<1>7. Rdy(q.rdy, q.hi, q.prio, R \cup {t})
  BY <1>3, <1>5, <1>6
<1> QED
  BY <1>3, <1>7, FieldNames DEF Lists, Typed, Same

\* ready_list_rm.
LEMMA ListsReadyRm ==
  ASSUME NEW r, NEW R, NEW B, NEW T, Lists(r, R, B, T), NEW t \in R, t # Idle, NEW q,
         q = ready_list_rm(r, t)
  PROVE  Lists(q, R \ {t}, B, T) /\ Same(q, r, {"rdy", "hi"})
<1> DEFINE p == r.prio[t]
           new == [r.rdy EXCEPT ![p] = RemoveFirst(r.rdy[p], t)]
<1>1. /\ Same(q, r, {"rdy", "hi"})
      /\ q.rdy = new
      /\ q.hi = IF new[p] = <<>> /\ p = r.hi THEN find_first_bit(new) ELSE r.hi
  BY ZenonT(30), FieldNames DEF ready_list_rm, IsK, Same, Lists, Typed
<1>2. /\ r.prio \in [All -> Prio] /\ R \in SUBSET All /\ Rdy(r.rdy, r.hi, r.prio, R)
      /\ q.prio = r.prio /\ R \ {t} # {}
  BY <1>1, FieldNames DEF Lists, Typed, Same
<1>3. Rdy(new, IF new[p] = <<>> /\ p = r.hi THEN find_first_bit(new) ELSE r.hi, r.prio, R \ {t})
  BY ZenonT(60), <1>2, RdyRemove
<1>4. Rdy(q.rdy, q.hi, q.prio, R \ {t})
  BY <1>1, <1>2, <1>3
<1> QED
  BY <1>1, <1>4, FieldNames DEF Lists, Typed, Same

\* ready_list_head_to_tail, for a task that is ready.
LEMMA ListsRotate ==
  ASSUME NEW r, NEW R, NEW B, NEW T, Lists(r, R, B, T), NEW t \in R, NEW q,
         q = ready_list_head_to_tail(r, t)
  PROVE  Lists(q, R, B, T) /\ Same(q, r, {"rdy"})
<1> DEFINE p == r.prio[t]
<1>1. /\ Same(q, r, {"rdy"})
      /\ q.rdy = [r.rdy EXCEPT ![p] = Append(Tail(r.rdy[p]), Head(r.rdy[p]))]
  BY FieldNames DEF ready_list_head_to_tail, IsK, Same, Lists, Typed
<1>2. /\ r.prio \in [All -> Prio] /\ R \in SUBSET All /\ Rdy(r.rdy, r.hi, r.prio, R)
      /\ q.prio = r.prio /\ q.hi = r.hi /\ p \in Prio /\ r.rdy[p] \in Seq(All)
      /\ t \in ToSet(r.rdy[p])
  BY ZenonT(60), <1>1, FieldNames DEF Lists, Typed, Same, Rdy
<1>3. r.rdy[p] # <<>>
  BY <1>2, ToSetDef
<1>4. Rdy([r.rdy EXCEPT ![p] = Append(Tail(r.rdy[p]), Head(r.rdy[p]))], r.hi, r.prio, R)
  BY <1>2, <1>3, RdyRotate
<1>5. Rdy(q.rdy, q.hi, q.prio, R)
  BY <1>1, <1>2, <1>4
<1> QED
  BY <1>1, <1>5, FieldNames DEF Lists, Typed, Same


\* tick_list_insert.
LEMMA ListsTickInsert ==
  ASSUME NEW r, NEW R, NEW B, NEW T, Lists(r, R, B, T), NEW t \in Task, t \notin T,
         NEW n \in Nat, NEW q, q = tick_list_insert(r, t, n)
  PROVE  /\ Lists(q, R, B, T \cup {t}) /\ Same(q, r, {"tick", "tickl"})
         /\ q.tick = [r.tick EXCEPT ![t] = n]
<1> DEFINE i == SelectInSeq(r.tickl, LAMBDA x : r.tick[x] > n)
           l == InsertAt(r.tickl, IF i = 0 THEN Len(r.tickl) + 1 ELSE i, t)
<1>1. q = [r EXCEPT !.tick[t] = n, !.tickl = l]
  BY DEF tick_list_insert, Lists, Typed, IsK
<1>2. r.tick \in [All -> Nat] /\ T \in SUBSET Task /\ Tick(r.tickl, r.tick, T)
  BY DEF Lists, Typed
<1>3. Tick(l, [r.tick EXCEPT ![t] = n], T \cup {t})
  BY <1>2, TickAdd
<1> HIDE DEF l
<1>4. /\ Same(q, r, {"tick", "tickl"}) /\ q.tickl = l /\ q.tick = [r.tick EXCEPT ![t] = n]
  BY <1>1, FieldNames DEF IsK, Same, Lists, Typed
<1>5. q.tick \in [All -> Nat]
  BY <1>2, <1>4
<1> QED
  BY <1>3, <1>4, <1>5, FieldNames DEF Lists, Typed, Same

\* tick_list_rm, for a task that is on the tick list or not.
LEMMA ListsTickRm ==
  ASSUME NEW r, NEW R, NEW B, NEW T, Lists(r, R, B, T), NEW t \in All, NEW q,
         q = tick_list_rm(r, t)
  PROVE  /\ Lists(q, R, B, T \ {t}) /\ Same(q, r, {"tick", "tickl"})
         /\ q.tick = [r.tick EXCEPT ![t] = 0]
<1>1. /\ Same(q, r, {"tick", "tickl"})
      /\ q.tickl = RemoveFirst(r.tickl, t) /\ q.tick = [r.tick EXCEPT ![t] = 0]
  BY ZenonT(30), FieldNames DEF tick_list_rm, IsK, Same, Lists, Typed
<1>2. r.tick \in [All -> Nat] /\ T \in SUBSET Task /\ Tick(r.tickl, r.tick, T)
  BY DEF Lists, Typed
<1>3. Tick(q.tickl, q.tick, T \ {t}) /\ q.tick \in [All -> Nat]
  BY <1>1, <1>2, TickRemove
<1> QED
  BY <1>1, <1>3, FieldNames DEF Lists, Typed, Same

\* blk_list_rm.
LEMMA ListsBlkRm ==
  ASSUME NEW r, NEW R, NEW B, NEW T, Lists(r, R, B, T), NEW t \in B, NEW q,
         q = blk_list_rm(r, t)
  PROVE  Lists(q, R, B \ {t}, T) /\ Same(q, r, {"blk"})
<1> DEFINE o == r.blkobj[t]
<1>1. Same(q, r, {"blk"}) /\ q.blk = [r.blk EXCEPT ![o] = RemoveFirst(r.blk[o], t)]
  BY FieldNames DEF blk_list_rm, IsK, Same, Lists, Typed
<1>2. B \in SUBSET Task /\ o \in Obj /\ Blk(r.blk, r.blkobj, r.prio, B)
  BY DEF Lists
<1>3. Blk(q.blk, r.blkobj, r.prio, B \ {t})
  BY <1>1, <1>2, BlkRemove
<1> QED
  BY <1>1, <1>3, FieldNames DEF Lists, Typed, Same

\* A task is put on the block list of its object.
LEMMA ListsBlkAdd ==
  ASSUME NEW r, NEW R, NEW B, NEW T, Lists(r, R, B, T), NEW t \in Task, t \notin B,
         NEW o \in Obj, r.blkobj[t] = o, NEW q, Same(q, r, {"blk"}),
         q.blk = [r.blk EXCEPT ![o] = pend_list_add(r, r.blk[o], t)]
  PROVE  Lists(q, R, B \cup {t}, T)
<1>2. B \in SUBSET Task /\ Blk(r.blk, r.blkobj, r.prio, B) /\ r.prio \in [All -> Prio]
  BY DEF Lists, Typed
<1>3. Blk(q.blk, r.blkobj, r.prio, B \cup {t})
  BY <1>2, BlkAdd
<1> QED
  BY <1>3, FieldNames DEF Lists, Typed, Same

\* The lists stay what they are when fields change that they do not depend on.
LEMMA ListsOff ==
  ASSUME NEW r, NEW R, NEW B, NEW T, Lists(r, R, B, T), NEW q, Typed(q),
         q.rdy = r.rdy, q.hi = r.hi, q.blk = r.blk, q.tickl = r.tickl, q.tick = r.tick,
         \A x \in R : q.prio[x] = r.prio[x],
         \A x \in B : q.prio[x] = r.prio[x] /\ q.blkobj[x] = r.blkobj[x]
  PROVE  Lists(q, R, B, T)
<1>1. r.prio \in [All -> Prio] /\ B \in SUBSET Task /\ Blk(r.blk, r.blkobj, r.prio, B)
  BY DEF Lists, Typed
<1>2. Blk(q.blk, q.blkobj, q.prio, B)
  BY <1>1, BlkOff
<1>3. \A p : {x \in R : q.prio[x] = p} = {x \in R : r.prio[x] = p}
  OBVIOUS
<1>4. Rdy(q.rdy, q.hi, q.prio, R)
  BY <1>3 DEF Lists, Rdy
<1> QED
  BY <1>2, <1>4 DEF Lists

\* A kernel record is determined by its fields.
LEMMA SameFields ==
  ASSUME NEW r, NEW s, IsK(s), Same(r, s, {})
  PROVE  r = s
  BY DEF IsK, Same

\* The priority of a task that is on no ready and no block list is set.
LEMMA ListsPrio ==
  ASSUME NEW r, NEW R, NEW B, NEW T, Lists(r, R, B, T), NEW t \in All, t \notin R, t \notin B,
         NEW p \in Prio, NEW q, Same(q, r, {"prio"}), q.prio = [r.prio EXCEPT ![t] = p]
  PROVE  Lists(q, R, B, T)
<1>2. q.prio \in [All -> Prio]
  BY DEF Lists, Typed
<1>3. Typed(q)
  BY <1>2, FieldNames DEF Lists, Typed, Same
<1>4. \A x \in R \cup B : q.prio[x] = r.prio[x]
  BY DEF Lists, Typed, All
<1>5. /\ q.rdy = r.rdy /\ q.hi = r.hi /\ q.blk = r.blk /\ q.tickl = r.tickl /\ q.tick = r.tick
      /\ q.blkobj = r.blkobj
  BY FieldNames DEF Same
<1> QED
  BY <1>3, <1>4, <1>5, ListsOff

\* The priority of a task that waits is set and pend_list_reorder called.
LEMMA ListsReorder ==
  ASSUME NEW r, NEW R, NEW B, NEW T, Lists(r, R, B, T), NEW t \in B, t \notin R,
         NEW p \in Prio, NEW set, Same(set, r, {"prio"}), set.prio = [r.prio EXCEPT ![t] = p],
         NEW q, q = pend_list_reorder(set, t)
  PROVE  /\ Lists(q, R, B, T) /\ Same(q, r, {"prio", "blk"})
         /\ q.prio = [r.prio EXCEPT ![t] = p]
<1> DEFINE o == r.blkobj[t]
           l == RemoveFirst(r.blk[o], t)
<1>0. IsK(r) /\ t \in Task /\ t \in All /\ o \in Obj /\ r.blk \in [Obj -> Seq(Task)]
  BY DEF Lists, Typed, All, Blk
<1>1. PICK s1 : s1 = blk_list_rm(r, t)
  OBVIOUS
<1>2. Lists(s1, R, B \ {t}, T) /\ Same(s1, r, {"blk"}) /\ s1.blk = [r.blk EXCEPT ![o] = l]
  <2>1. s1.blk = [r.blk EXCEPT ![o] = l]
    BY <1>0, <1>1, FieldNames DEF IsK, blk_list_rm
  <2> QED
    BY <1>1, <2>1, ListsBlkRm
<1>3. PICK s2 : s2 = [s1 EXCEPT !.prio[t] = p]
  OBVIOUS
<1>4. /\ Lists(s2, R, B \ {t}, T) /\ Same(s2, s1, {"prio"})
      /\ s2.prio = [s1.prio EXCEPT ![t] = p]
  <2>1. Same(s2, s1, {"prio"}) /\ s2.prio = [s1.prio EXCEPT ![t] = p]
    BY <1>2, <1>3, FieldNames DEF IsK, Same, Lists, Typed
  <2> QED
    BY <1>0, <1>2, <2>1, ListsPrio
<1>5. /\ s2.blkobj[t] = o /\ s2.blk = [r.blk EXCEPT ![o] = l]
      /\ s2.prio = [r.prio EXCEPT ![t] = p] /\ IsK(s2) /\ Same(s2, r, {"blk", "prio"})
  BY <1>2, <1>4, FieldNames DEF Same
<1>6. PICK s3 : s3 = [s2 EXCEPT !.blk[o] = pend_list_add(s2, @, t)]
  OBVIOUS
<1>7. Lists(s3, R, (B \ {t}) \cup {t}, T) /\ Same(s3, s2, {"blk"})
  <2>1. /\ Same(s3, s2, {"blk"})
        /\ s3.blk = [s2.blk EXCEPT ![o] = pend_list_add(s2, s2.blk[o], t)]
    BY <1>5, <1>6, FieldNames DEF IsK, Same
  <2> QED
    BY <1>0, <1>4, <1>5, <2>1, ListsBlkAdd
<1>8. s3.blk = [r.blk EXCEPT ![o] = pend_list_add(s2, l, t)]
  <2>1. s2.blk[o] = l
    BY <1>0, <1>5
  <2>2. s3.blk = [s2.blk EXCEPT ![o] = pend_list_add(s2, l, t)]
    BY <1>5, <1>6, <2>1, FieldNames DEF IsK
  <2> QED
    BY <1>5, <2>2
<1>10. set.blkobj[t] = o /\ set.blk = r.blk /\ IsK(set)
  BY <1>0, FieldNames DEF IsK, Same
<1>11. q = [set EXCEPT !.blk[o] = pend_list_add(set, RemoveFirst(@, t), t)]
  BY <1>10 DEF pend_list_reorder
<1>12. Same(q, set, {"blk"}) /\ q.blk = [r.blk EXCEPT ![o] = pend_list_add(set, l, t)]
  BY <1>10, <1>11, FieldNames DEF IsK, Same
<1>13. Same(q, r, {"prio", "blk"}) /\ q.prio = [r.prio EXCEPT ![t] = p]
  BY <1>10, <1>12, FieldNames DEF Same
<1>14. pend_list_add(set, l, t) = pend_list_add(s2, l, t)
  BY <1>5, <1>10 DEF pend_list_add
<1>15. Same(q, s3, {})
  BY <1>5, <1>7, <1>8, <1>12, <1>13, <1>14, FieldNames DEF Same
<1>16. q = s3
  BY <1>7, <1>15, SameFields DEF Same
<1>17. (B \ {t}) \cup {t} = B
  OBVIOUS
<1> QED
  BY <1>7, <1>13, <1>16, <1>17

-----------------------------------------------------------------------------
Ready(r) == {t \in All : r.state[t] = "RDY"}

Blocked(r) == {t \in All : r.state[t] \in {"PEND", "PEND_SUSPENDED"}}

\* each task is on the lists its state says, and a mutex that is waited for has an
\* owner, as the internal routines expect
Core(r) ==
    /\ Lists(r, Ready(r), Blocked(r), ToSet(r.tickl))
    /\ \A t \in Blocked(r) : r.blkobj[t] \in Mutex => r.owner[r.blkobj[t]] \in Task

\* what a change of priorities may change
PriFields == {"prio", "rdy", "hi", "blk", "err"}

\* mutex_pri_look and mutex_pri_limit find a priority.
LEMMA PriLook ==
  ASSUME NEW r, NEW R, NEW B, NEW T, Lists(r, R, B, T), NEW t \in All, NEW p \in Prio
  PROVE  mutex_pri_look(r, t) \in Prio /\ mutex_pri_limit(r, t, p) \in Prio
<1> DEFINE F == first_blk_prios(r, r.mlist[t])
<1>1. /\ r.prio \in [All -> Prio] /\ r.mlist[t] \in Seq(Mutex) /\ r.bprio[t] \in Prio
      /\ r.blk \in [Obj -> Seq(Task)]
  BY DEF Lists, Typed, Blk
<1>2. F \subseteq Prio
  <2> SUFFICES ASSUME NEW m \in ToSet(r.mlist[t]), r.blk[m] # <<>>
               PROVE  r.prio[Head(r.blk[m])] \in Prio
    BY DEF first_blk_prios
  <2>1. m \in Obj
    BY <1>1, ToSetDef DEF Obj
  <2>2. Head(r.blk[m]) \in Task
    BY <1>1, <2>1, HeadTailProperties
  <2> QED
    BY <1>1, <2>2 DEF All
<1> HIDE DEF F
<1>3. Prio \in SUBSET Nat
  BY DEF Prio
<1>4. Min({r.bprio[t]} \cup F) \in Prio
  <2>1. {r.bprio[t]} \cup F \in SUBSET Nat /\ {r.bprio[t]} \cup F # {}
    BY <1>1, <1>2, <1>3
  <2> QED
    BY <1>1, <1>2, <2>1, MinNat
<1>5. Min({p} \cup F) \in Prio
  <2>1. {p} \cup F \in SUBSET Nat /\ {p} \cup F # {}
    BY <1>2, <1>3
  <2> QED
    BY <1>2, <2>1, MinNat
<1> QED
  BY <1>4, <1>5 DEF mutex_pri_look, mutex_pri_limit, F

\* A routine that changes priorities and the order of lists, but no state.
LEMMA CoreKept ==
  ASSUME NEW r, Core(r), NEW q, Same(q, r, PriFields),
         Lists(q, Ready(r), Blocked(r), ToSet(r.tickl))
  PROVE  Core(q)
<1>1. q.state = r.state /\ q.tickl = r.tickl /\ q.blkobj = r.blkobj /\ q.owner = r.owner
  BY FieldNames DEF Same, PriFields
<1> QED
  BY <1>1 DEF Core, Ready, Blocked

\* A ready task gets another priority.
LEMMA PriReady ==
  ASSUME NEW r, Core(r), NEW t \in Task, r.state[t] = "RDY", NEW p \in Prio, NEW off, NEW q,
         off = [ready_list_rm(r, t) EXCEPT !.prio[t] = p],
         q \in {ready_list_add_head(off, t), ready_list_add_tail(off, t)}
  PROVE  Core(q) /\ Same(q, r, PriFields)
<1> DEFINE R == Ready(r)
           B == Blocked(r)
           T == ToSet(r.tickl)
<1>0. t \in R /\ t \notin B /\ t # Idle /\ t \in All /\ Lists(r, R, B, T)
  BY CoreAssumption DEF Core, Ready, Blocked, All
<1> HIDE DEF R, B, T
<1>1. PICK s : s = ready_list_rm(r, t)
  OBVIOUS
<1>2. Lists(s, R \ {t}, B, T) /\ Same(s, r, {"rdy", "hi"})
  BY <1>0, <1>1, ListsReadyRm
<1>3. Same(off, s, {"prio"}) /\ off.prio = [s.prio EXCEPT ![t] = p]
  BY <1>1, <1>2, FieldNames DEF Same, IsK
<1>4. Lists(off, R \ {t}, B, T)
  BY ZenonT(60), <1>0, <1>2, <1>3, ListsPrio
<1>5. Lists(q, (R \ {t}) \cup {t}, B, T) /\ Same(q, off, {"rdy", "hi"})
  BY <1>0, <1>4, ListsReadyAdd
<1>6. (R \ {t}) \cup {t} = R
  BY <1>0
<1>7. Same(q, r, PriFields)
  BY <1>2, <1>3, <1>5, FieldNames DEF Same, PriFields
<1> QED
  BY <1>5, <1>6, <1>7, CoreKept DEF R, B, T

\* A task that is on no list gets another priority.
LEMMA PriOff ==
  ASSUME NEW r, Core(r), NEW t \in Task, t \notin Ready(r), t \notin Blocked(r),
         NEW p \in Prio, NEW q, q = [r EXCEPT !.prio[t] = p]
  PROVE  Core(q) /\ Same(q, r, PriFields)
<1>1. Same(q, r, {"prio"}) /\ q.prio = [r.prio EXCEPT ![t] = p]
  BY FieldNames DEF Core, Lists, Typed, Same, IsK
<1>2. Lists(q, Ready(r), Blocked(r), ToSet(r.tickl))
  BY <1>1, ListsPrio DEF Core, All
<1>3. Same(q, r, PriFields)
  BY <1>1, FieldNames DEF Same, PriFields
<1> QED
  BY <1>2, <1>3, CoreKept

\* A waiting task gets another priority and another place.
LEMMA PriPend ==
  ASSUME NEW r, Core(r), NEW t \in Blocked(r), NEW p \in Prio, NEW q,
         q = pend_list_reorder([r EXCEPT !.prio[t] = p], t)
  PROVE  Core(q) /\ Same(q, r, PriFields)
<1>1. t \notin Ready(r)
  BY DEF Ready, Blocked
<1>2. PICK set : set = [r EXCEPT !.prio[t] = p]
  OBVIOUS
<1>3. Same(set, r, {"prio"}) /\ set.prio = [r.prio EXCEPT ![t] = p]
  BY <1>2, FieldNames DEF Core, Lists, Typed, Same, IsK
<1>4. Lists(q, Ready(r), Blocked(r), ToSet(r.tickl)) /\ Same(q, r, {"prio", "blk"})
  <2>1. q = pend_list_reorder(set, t)
    BY <1>2
  <2>2. Lists(r, Ready(r), Blocked(r), ToSet(r.tickl))
    BY DEF Core
  <2> QED
    BY <1>1, <1>3, <2>1, <2>2, ListsReorder
<1>5. Same(q, r, PriFields)
  BY <1>4, FieldNames DEF Same, PriFields
<1> QED
  BY <1>4, <1>5, CoreKept

\* The error flag is no part of the lists.
LEMMA CoreErr ==
  ASSUME NEW r, Core(r), NEW e, NEW q, q = k_err_proc(r, e)
  PROVE  Core(q) /\ Same(q, r, PriFields)
<1>1. Same(q, r, {"err"})
  BY FieldNames DEF Core, Lists, Typed, Same, IsK, k_err_proc
<1>2. Lists(q, Ready(r), Blocked(r), ToSet(r.tickl))
  BY <1>1, FieldNames DEF Core, Lists, Typed, Same
<1>3. Same(q, r, PriFields)
  BY <1>1, FieldNames DEF Same, PriFields
<1> QED
  BY <1>2, <1>3, CoreKept

\* c.k is the kernel before the loop of task_pri_change, s the loop's state
PriLoop(c, s, n) ==
    /\ Core(s.k) /\ Same(s.k, c, PriFields)
    /\ s.task \in Task \cup {NULL}
    /\ s.pri \in Prio

\* One iteration of the loop of task_pri_change.
LEMMA PriStep ==
  ASSUME NEW c, NEW s, NEW n, PriLoop(c, s, n)
  PROVE  PriLoop(c, pri_change_step(s), n + 1)
<1> DEFINE r == s.k
           t == s.task
           p == s.pri
           set == [r EXCEPT !.prio[t] = p]
           off == [ready_list_rm(r, t) EXCEPT !.prio[t] = p]
           ord == pend_list_reorder(set, t)
           own == r.owner[r.blkobj[t]]
           pri == mutex_pri_look(ord, own)
           done(x) == [k |-> x, task |-> NULL, pri |-> p]
           new == pri_change_step(s)
<1>1. Core(r) /\ Same(r, c, PriFields) /\ t \in Task \cup {NULL} /\ p \in Prio
  BY DEF PriLoop
<1>2. ASSUME NEW q, Core(q), Same(q, r, PriFields), NEW u \in Task \cup {NULL}, NEW x \in Prio,
             new = [k |-> q, task |-> u, pri |-> x]
      PROVE  PriLoop(c, new, n + 1)
  <2>1. Same(q, c, PriFields)
    BY <1>1, <1>2 DEF Same
  <2>2. new.k = q /\ new.task = u /\ new.pri = x
    BY <1>2
  <2> QED
    BY <1>2, <2>1, <2>2 DEF PriLoop
<1>3. Same(r, r, PriFields)
  BY <1>1 DEF Same
<1>4. CASE t = NULL
  <2>1. new = s
    BY <1>4 DEF pri_change_step
  <2> QED
    BY <2>1 DEF PriLoop
<1>5. CASE t # NULL /\ r.prio[t] = p
  <2>1. new = done(r)
    BY <1>5 DEF pri_change_step
  <2> QED
    BY <1>1, <1>2, <1>3, <2>1
<1>6. CASE t # NULL /\ r.prio[t] # p /\ r.state[t] = "RDY"
  <2>1. new = done(IF t = r.active THEN ready_list_add_head(off, t)
                                   ELSE ready_list_add_tail(off, t))
    BY <1>6 DEF pri_change_step
  <2>2. PICK q : q = IF t = r.active THEN ready_list_add_head(off, t)
                                     ELSE ready_list_add_tail(off, t)
    OBVIOUS
  <2>3. Core(q) /\ Same(q, r, PriFields)
    BY <1>1, <1>6, <2>2, PriReady
  <2> QED
    BY <1>1, <1>2, <2>1, <2>2, <2>3
<1>7. CASE /\ t # NULL /\ r.prio[t] # p
           /\ r.state[t] \in {"SLEEP", "SUSPENDED", "SLEEP_SUSPENDED"}
  <2>1. new = done(set)
    BY <1>7 DEF pri_change_step
  <2>2. PICK q : q = set
    OBVIOUS
  <2>3. t \in Task /\ t \notin Ready(r) /\ t \notin Blocked(r)
    BY <1>1, <1>7 DEF Ready, Blocked
  <2>4. Core(q) /\ Same(q, r, PriFields)
    BY <1>1, <2>2, <2>3, PriOff
  <2> QED
    BY SMTT(30), <1>1, <1>2, <2>1, <2>2, <2>4
<1>8. CASE t # NULL /\ r.prio[t] # p /\ r.state[t] \in {"PEND", "PEND_SUSPENDED"}
  <2>1. PICK q : q = ord
    OBVIOUS
  <2>2. t \in Task /\ t \in Blocked(r)
    BY <1>1, <1>8 DEF Blocked, All
  <2>3. Core(q) /\ Same(q, r, PriFields)
    BY SMTT(30), <1>1, <2>1, <2>2, PriPend
  <2>4. \/ new = done(q)
        \/ r.blkobj[t] \in Mutex /\ new = [k |-> q, task |-> own, pri |-> p]
        \/ r.blkobj[t] \in Mutex /\ new = [k |-> q, task |-> own, pri |-> mutex_pri_look(q, own)]
    BY ZenonT(30), <1>8, <2>1 DEF pri_change_step
  <2>5. r.blkobj[t] \in Mutex => own \in Task
    BY <1>1, <2>2 DEF Core
  <2>6. own \in Task => mutex_pri_look(q, own) \in Prio
    BY <1>1, <2>3, PriLook DEF Core, All
  <2> QED
    BY <1>1, <1>2, <2>3, <2>4, <2>5, <2>6
<1>9. CASE /\ t # NULL /\ r.prio[t] # p
           /\ r.state[t] \notin {"RDY", "SLEEP", "SUSPENDED", "SLEEP_SUSPENDED",
                                 "PEND", "PEND_SUSPENDED"}
  <2>1. new = done(k_err_proc(r, "INV_TASK_STATE"))
    BY <1>9 DEF pri_change_step
  <2>2. PICK q : q = k_err_proc(r, "INV_TASK_STATE")
    OBVIOUS
  <2>3. Core(q) /\ Same(q, r, PriFields)
    BY <1>1, <2>2, CoreErr
  <2> QED
    BY SMTT(30), <1>1, <1>2, <2>1, <2>2, <2>3
<1> QED
  BY <1>4, <1>5, <1>6, <1>7, <1>8, <1>9

PriIter(c, s, i) == pri_change_step(s)

P == INSTANCE LoopTheorems WITH Step <- PriIter, Inv <- PriLoop

\* task_pri_change keeps every task on the lists its state says, whatever chain of
\* owners it follows.
LEMMA TaskPriChange ==
  ASSUME NEW r, Core(r), NEW t \in Task, NEW p \in Prio, NEW q, q = task_pri_change(r, t, p)
  PROVE  Core(q) /\ Same(q, r, PriFields)
<1>1. PICK base : base = [k |-> r, task |-> t, pri |-> p]
  OBVIOUS
<1>2. PICK last : last = P!Repeat(r, base, MaxChain)
  OBVIOUS
<1>3. q = IF last.task = NULL THEN last.k ELSE k_err_proc(last.k, "PRI_CHAIN")
  BY <1>1, <1>2 DEF task_pri_change, P!Repeat, PriIter
<1>4. PriLoop(r, base, 0)
  <2>1. base.k = r /\ base.task = t /\ base.pri = p
    BY <1>1
  <2>2. Same(r, r, PriFields)
    BY DEF Core, Lists, Typed, Same
  <2> QED
    BY <2>1, <2>2 DEF PriLoop
<1>5. \A i \in 1..MaxChain : \A s : PriLoop(r, s, i - 1) => PriLoop(r, PriIter(r, s, i), i)
  <2> SUFFICES ASSUME NEW i \in 1..MaxChain, NEW s, PriLoop(r, s, i - 1)
               PROVE  PriLoop(r, pri_change_step(s), i)
    BY DEF PriIter
  <2> QED
    BY PriStep DEF PriLoop
<1>6. MaxChain \in Nat
  BY CoreAssumption
<1>7. PriLoop(r, last, MaxChain)
  BY <1>2, <1>4, <1>5, <1>6, P!RepeatInduction
<1>8. Core(last.k) /\ Same(last.k, r, PriFields)
  BY <1>7 DEF PriLoop
<1>9. CASE last.task = NULL
  BY <1>3, <1>8, <1>9
<1>10. CASE last.task # NULL
  <2>1. Core(q) /\ Same(q, last.k, PriFields)
    BY <1>3, <1>8, <1>10, CoreErr
  <2> QED
    BY <1>8, <2>1 DEF Same
<1> QED
  BY <1>9, <1>10

\* c is the kernel before the loop of task_pri_change for a ready task, the task and
\* its new priority; s is the loop's state after n iterations
PriOnce(c, s, n) ==
    /\ n = 0 => s = [k |-> c[1], task |-> c[2], pri |-> c[3]]
    /\ n # 0 => s.task = NULL
    /\ \A x \in All \ {c[2]} : s.k.prio[x] = c[1].prio[x]

O == INSTANCE LoopTheorems WITH Step <- PriIter, Inv <- PriOnce

\* The first iteration is the last one: nobody's priority depends on a ready task's.
LEMMA PriOnceStep ==
  ASSUME NEW r, Core(r), NEW t \in Task, r.state[t] = "RDY", NEW p, NEW c, c[1] = r, c[2] = t,
         c[3] = p, NEW s, NEW i \in Nat, PriOnce(c, s, i)
  PROVE  PriOnce(c, pri_change_step(s), i + 1)
<1>0. IsK(r) /\ r.prio \in [All -> Prio] /\ t \in All /\ t # NULL
  BY CoreAssumption DEF Core, Lists, Typed, All
<1>1. CASE i # 0
  <2>1. s.task = NULL /\ \A x \in All \ {t} : s.k.prio[x] = r.prio[x]
    BY <1>1 DEF PriOnce
  <2>2. pri_change_step(s) = s
    BY <2>1 DEF pri_change_step
  <2>3. i + 1 # 0
    OBVIOUS
  <2> QED
    BY <2>1, <2>2, <2>3 DEF PriOnce
<1>2. CASE i = 0
  <2>1. s.k = r /\ s.task = t /\ s.pri = p
    BY <1>2 DEF PriOnce
  <2>2. PICK off : off = [ready_list_rm(r, t) EXCEPT !.prio[t] = p]
    OBVIOUS
  <2>3. PICK z : z \in {r, ready_list_add_head(off, t), ready_list_add_tail(off, t)}
                 /\ pri_change_step(s) = [k |-> z, task |-> NULL, pri |-> p]
    BY <1>0, <2>1, <2>2 DEF pri_change_step
  <2>4. z.prio = r.prio \/ z.prio = [r.prio EXCEPT ![t] = p]
    BY ZenonT(60), <1>0, <2>2, <2>3, FieldNames DEF IsK, ready_list_rm, ready_list_add_head,
       ready_list_add_tail, ready_list_init
  <2>5. \A x \in All \ {t} : z.prio[x] = r.prio[x]
    BY <1>0, <2>4
  <2> QED
    BY <2>3, <2>5 DEF PriOnce
<1> QED
  BY <1>1, <1>2

\* task_pri_change changes the priority of a ready task and no other.
LEMMA PriReadyOnly ==
  ASSUME NEW r, Core(r), NEW t \in Task, r.state[t] = "RDY", NEW p, NEW q,
         q = task_pri_change(r, t, p)
  PROVE  \A x \in All \ {t} : q.prio[x] = r.prio[x]
<1>1. PICK base : base = [k |-> r, task |-> t, pri |-> p]
  OBVIOUS
<1>2. PICK c : c = <<r, t, p>>
  OBVIOUS
<1>3. c[1] = r /\ c[2] = t /\ c[3] = p
  BY <1>2
<1>4. PICK last : last = O!Repeat(c, base, MaxChain)
  OBVIOUS
<1>5. q = IF last.task = NULL THEN last.k ELSE k_err_proc(last.k, "PRI_CHAIN")
  BY <1>1, <1>4 DEF task_pri_change, O!Repeat, PriIter
<1>6. PriOnce(c, base, 0)
  BY <1>1, <1>3 DEF PriOnce
<1>7. \A i \in 1..MaxChain : \A s : PriOnce(c, s, i - 1) => PriOnce(c, PriIter(c, s, i), i)
  <2> SUFFICES ASSUME NEW i \in 1..MaxChain, NEW s, PriOnce(c, s, i - 1)
               PROVE  PriOnce(c, pri_change_step(s), i)
    BY DEF PriIter
  <2>1. i - 1 \in Nat /\ (i - 1) + 1 = i
    BY CoreAssumption
  <2>2. PriOnce(c, pri_change_step(s), (i - 1) + 1)
    BY <1>3, <2>1, PriOnceStep
  <2> QED
    BY <2>1, <2>2
<1>8. PriOnce(c, last, MaxChain)
  BY <1>4, <1>6, <1>7, CoreAssumption, O!RepeatInduction
<1>9. q.prio = last.k.prio
  BY <1>5 DEF k_err_proc
<1> QED
  BY <1>3, <1>8, <1>9 DEF PriOnce

\* mutex_release takes a mutex off the list of its owner, who may lose priority.
Dropped(q, r, t, m) ==
    /\ Core(q) /\ Same(q, r, PriFields \cup {"mlist"})
    /\ q.mlist = [r.mlist EXCEPT ![t] = RemoveFirst(r.mlist[t], m)]
    /\ r.state[t] = "RDY" => \A x \in All \ {t} : q.prio[x] = r.prio[x]

LEMMA MutexRelease ==
  ASSUME NEW r, Core(r), NEW t \in Task, IsInjective(r.mlist[t]), NEW rel, NEW q,
         q = mutex_release(r, t, rel)
  PROVE  Dropped(q, r, t, rel)
<1>1. PICK s : s = [r EXCEPT !.mlist[t] = RemoveFirst(@, rel)]
  OBVIOUS
<1>2. /\ Same(s, r, {"mlist"})
      /\ s.mlist = [r.mlist EXCEPT ![t] = RemoveFirst(r.mlist[t], rel)]
  BY <1>1, FieldNames DEF Core, Lists, Typed, Same, IsK
<1>3. Typed(r) /\ t \in All /\ r.mlist \in [All -> Seq(Mutex)] /\ r.mlist[t] \in Seq(Mutex)
  BY DEF Core, Lists, Typed, All
<1>4. s.mlist \in [All -> Seq(Mutex)]
  <2>1. RemoveFirst(r.mlist[t], rel) \in Seq(Mutex)
    BY <1>3, RemoveFirstProperties
  <2> QED
    BY <1>2, <1>3, <2>1
<1>5. Typed(s)
  BY <1>2, <1>3, <1>4, FieldNames DEF Typed, Same
<1>6. /\ s.rdy = r.rdy /\ s.hi = r.hi /\ s.blk = r.blk /\ s.tickl = r.tickl /\ s.tick = r.tick
      /\ s.prio = r.prio /\ s.blkobj = r.blkobj /\ s.state = r.state /\ s.owner = r.owner
  BY <1>2, FieldNames DEF Same
<1>7. Lists(s, Ready(r), Blocked(r), ToSet(r.tickl))
  BY <1>5, <1>6, ListsOff DEF Core
<1>8. Core(s)
  BY <1>6, <1>7 DEF Core, Ready, Blocked
<1>9. PICK new : new = mutex_pri_look(s, t)
  OBVIOUS
<1>10. new \in Prio
  <2>1. s.prio[t] \in Prio
    BY <1>3, <1>5 DEF Typed
  <2> QED
    BY <1>3, <1>7, <1>9, <2>1, PriLook
<1>11. q = IF new # s.prio[t] THEN task_pri_change(s, t, new) ELSE s
  BY <1>1, <1>9 DEF mutex_release
<1>12. Core(q) /\ Same(q, s, PriFields)
  <2>1. CASE new # s.prio[t]
    BY <1>8, <1>10, <1>11, <2>1, TaskPriChange
  <2>2. CASE new = s.prio[t]
    <3>1. q = s
      BY <1>11, <2>2
    <3> QED
      BY <1>2, <1>8, <3>1 DEF Same
  <2> QED
    BY <2>1, <2>2
<1>13. Same(q, r, PriFields \cup {"mlist"})
  BY <1>2, <1>12, FieldNames DEF Same
<1>14. q.mlist = s.mlist
  BY <1>12, FieldNames DEF Same, PriFields
<1>15. r.state[t] = "RDY" => \A x \in All \ {t} : q.prio[x] = r.prio[x]
  BY <1>6, <1>8, <1>11, PriReadyOnly
<1> QED
  BY <1>2, <1>12, <1>13, <1>14, <1>15 DEF Dropped

\* mutex_task_pri_reset changes priorities only.
LEMMA MutexTaskPriReset ==
  ASSUME NEW r, Core(r), NEW t,
         r.blkobj[t] \in Mutex => /\ r.owner[r.blkobj[t]] \in Task
                                  /\ IsInjective(r.mlist[r.owner[r.blkobj[t]]]),
         NEW q, q = mutex_task_pri_reset(r, t)
  PROVE  Core(q) /\ Same(q, r, PriFields)
<1> DEFINE m == r.blkobj[t]
           own == r.owner[m]
<1>0. Typed(r) /\ IsK(r) /\ Same(r, r, PriFields)
  BY DEF Core, Lists, Typed, Same
<1>1. CASE q = r
  BY <1>0, <1>1
<1>2. CASE m \in Mutex /\ q = mutex_release(r, own, NULL)
  <2>1. /\ Core(q) /\ Same(q, r, PriFields \cup {"mlist"})
        /\ q.mlist = [r.mlist EXCEPT ![own] = RemoveFirst(r.mlist[own], NULL)]
    <3>1. own \in Task /\ IsInjective(r.mlist[own])
      BY <1>2
    <3> HIDE DEF own
    <3>2. Dropped(q, r, own, NULL)
      BY SMTT(30), <1>2, <3>1, MutexRelease
    <3> QED
      BY <3>2 DEF Dropped
  <2>2. r.mlist[own] \in Seq(Mutex) /\ own \in All /\ r.mlist \in [All -> Seq(Mutex)]
    BY <1>0, <1>2 DEF Typed, All
  <2>3. RemoveFirst(r.mlist[own], NULL) = r.mlist[own]
    <3>1. NULL \notin ToSet(r.mlist[own])
      BY <2>2, ToSetDef, CoreAssumption DEF Obj
    <3> QED
      BY <2>2, <3>1, ToSetDef DEF RemoveFirst
  <2>4. q.mlist = r.mlist
    BY <2>1, <2>2, <2>3
  <2> QED
    BY <2>1, <2>4, FieldNames DEF Same
<1> QED
  BY <1>1, <1>2 DEF mutex_task_pri_reset

-----------------------------------------------------------------------------
WakeFields == {"rdy", "hi", "blk", "tick", "tickl", "state", "blkst", "blkobj"}

\* the tasks of W, which waited in r, do not wait any more in q
Woken(q, r, W) ==
    /\ Core(q)
    /\ ToSet(q.tickl) = ToSet(r.tickl) \ W
    /\ \A t \in All \ W : q.tick[t] = r.tick[t]
    /\ q.state = [t \in All |-> IF t \in W
                                THEN IF r.state[t] = "PEND" THEN "RDY" ELSE "SUSPENDED"
                                ELSE r.state[t]]
    /\ q.blkobj = [t \in All |-> IF t \in W THEN NULL ELSE r.blkobj[t]]
    /\ \A t \in All \ W : q.blkst[t] = r.blkst[t]

\* pend_task_end, that is pend_task_wakeup and pend_task_rm, takes a waiting task off
\* the block list and the tick list and makes it ready unless it is suspended.
LEMMA PendTaskEnd ==
  ASSUME NEW r, Core(r), NEW t \in Blocked(r), NEW why \in BlkState, NEW q,
         q = pend_task_end(r, t, why)
  PROVE  /\ Woken(q, r, {t}) /\ Same(q, r, WakeFields)
         /\ q.blkst[t] = why /\ \A x \in All \ {t} : q.blkst[x] = r.blkst[x]
<1> DEFINE R == Ready(r)
           B == Blocked(r)
           T == ToSet(r.tickl)
           R2 == IF r.state[t] = "PEND" THEN R \cup {t} ELSE R
           st == IF r.state[t] = "PEND" THEN "RDY" ELSE "SUSPENDED"
<1>0. /\ Lists(r, R, B, T) /\ Typed(r) /\ IsK(r) /\ t \in Task /\ t \in All /\ t \notin R
      /\ r.state[t] \in {"PEND", "PEND_SUSPENDED"}
  BY DEF Core, Lists, Typed, Ready, Blocked
<1>1. PICK off : off = blk_list_rm(r, t)
  OBVIOUS
<1>2. Lists(off, R, B \ {t}, T) /\ Same(off, r, {"blk"})
  BY <1>0, <1>1, ListsBlkRm
<1>3. PICK set : set = [off EXCEPT !.state[t] = st]
  OBVIOUS
<1>4. Same(set, off, {"state"}) /\ set.state = [off.state EXCEPT ![t] = st]
  BY <1>2, <1>3, FieldNames DEF Same, IsK
<1>5. Lists(set, R, B \ {t}, T)
  <2>1. off.state = r.state
    BY <1>2, FieldNames DEF Same
  <2>2. set.state \in [All -> TaskState]
    BY <1>0, <1>4, <2>1 DEF Typed, TaskState
  <2>3. Typed(off)
    BY <1>2 DEF Lists
  <2>4. Typed(set)
    BY <1>4, <2>2, <2>3, FieldNames DEF Typed, Same
  <2>5. /\ set.rdy = off.rdy /\ set.hi = off.hi /\ set.blk = off.blk /\ set.tickl = off.tickl
        /\ set.tick = off.tick /\ set.prio = off.prio /\ set.blkobj = off.blkobj
    BY <1>4, FieldNames DEF Same
  <2> QED
    BY <1>2, <2>4, <2>5, ListsOff
<1>6. PICK next : next = IF r.state[t] = "PEND" THEN ready_list_add(set, t) ELSE set
  OBVIOUS
<1>7. Lists(next, R2, B \ {t}, T) /\ Same(next, set, {"rdy", "hi"})
  <2>1. CASE r.state[t] = "PEND"
    BY <1>0, <1>5, <1>6, <2>1, ListsReadyAdd
  <2>2. CASE r.state[t] # "PEND"
    BY <1>4, <1>5, <1>6, <2>2 DEF Same
  <2> QED
    BY <2>1, <2>2
<1>8. PICK tk : tk = tick_list_rm(next, t)
  OBVIOUS
<1>9. /\ Lists(tk, R2, B \ {t}, T \ {t}) /\ Same(tk, next, {"tick", "tickl"})
      /\ tk.tick = [next.tick EXCEPT ![t] = 0]
  BY <1>0, <1>7, <1>8, ListsTickRm
<1>10. q = [tk EXCEPT !.blkst[t] = why, !.blkobj[t] = NULL]
  BY <1>0, <1>1, <1>3, <1>6, <1>8 DEF pend_task_end
<1>11. /\ Same(q, tk, {"blkst", "blkobj"}) /\ q.blkst = [tk.blkst EXCEPT ![t] = why]
       /\ q.blkobj = [tk.blkobj EXCEPT ![t] = NULL]
  BY ZenonT(30), <1>9, <1>10, FieldNames DEF Same, IsK
<1>12. /\ Same(q, r, WakeFields)
       /\ q.blkst = [r.blkst EXCEPT ![t] = why] /\ q.blkobj = [r.blkobj EXCEPT ![t] = NULL]
       /\ q.state = [r.state EXCEPT ![t] = st] /\ q.tick = [r.tick EXCEPT ![t] = 0]
  BY <1>2, <1>4, <1>7, <1>9, <1>11, FieldNames DEF Same, WakeFields
<1>13. Lists(q, R2, B \ {t}, T \ {t})
  <2>1. /\ Typed(tk) /\ tk.blkst \in [All -> BlkState] /\ B \subseteq All
        /\ tk.blkobj \in [All -> Obj \cup {NULL}]
    BY <1>9 DEF Lists, Typed, Blocked
  <2>2. q.blkst \in [All -> BlkState] /\ q.blkobj \in [All -> Obj \cup {NULL}]
    BY <1>0, <1>11, <2>1
  <2>3. Typed(q)
    BY <1>11, <2>1, <2>2, FieldNames DEF Typed, Same
  <2>4. /\ q.rdy = tk.rdy /\ q.hi = tk.hi /\ q.blk = tk.blk /\ q.tickl = tk.tickl
        /\ q.tick = tk.tick /\ q.prio = tk.prio
    BY <1>11, FieldNames DEF Same
  <2>5. \A x \in B \ {t} : q.blkobj[x] = tk.blkobj[x]
    BY <1>11, <2>1
  <2> QED
    BY <1>9, <2>3, <2>4, <2>5, ListsOff
<1>14. Ready(q) = R2 /\ Blocked(q) = B \ {t}
  BY <1>0, <1>12 DEF Ready, Blocked, Typed
<1>15. ToSet(q.tickl) = T \ {t}
  BY <1>13 DEF Lists, Tick
<1>16. q.owner = r.owner
  BY <1>12, FieldNames DEF Same, WakeFields
<1>17. Core(q)
  <2>1. \A u \in Blocked(q) : q.blkobj[u] = r.blkobj[u] /\ u \in B
    BY <1>0, <1>12, <1>14 DEF Typed, Blocked
  <2> QED
    BY <1>13, <1>14, <1>15, <1>16, <2>1 DEF Core
<1>18. /\ q.state = [x \in All |-> IF x \in {t}
                                  THEN IF r.state[x] = "PEND" THEN "RDY" ELSE "SUSPENDED"
                                  ELSE r.state[x]]
       /\ q.blkobj = [x \in All |-> IF x \in {t} THEN NULL ELSE r.blkobj[x]]
       /\ \A x \in All \ {t} : q.tick[x] = r.tick[x]
       /\ q.blkst[t] = why /\ \A x \in All \ {t} : q.blkst[x] = r.blkst[x]
  <2>1. /\ r.state = [x \in All |-> r.state[x]] /\ r.blkobj = [x \in All |-> r.blkobj[x]]
        /\ r.tick = [x \in All |-> r.tick[x]] /\ r.blkst = [x \in All |-> r.blkst[x]]
    BY <1>0 DEF Typed
  <2> QED
    BY ZenonT(60), <1>0, <1>12, <2>1
<1> QED
  BY <1>12, <1>15, <1>17, <1>18 DEF Woken

\* What is left waiting after some tasks were woken.
LEMMA WokenSets ==
  ASSUME NEW r, Typed(r), NEW W \in SUBSET Blocked(r), NEW q, Woken(q, r, W)
  PROVE  /\ Blocked(q) = Blocked(r) \ W
         /\ Ready(q) = Ready(r) \cup {t \in W : r.state[t] = "PEND"}
         /\ \A t \in All \ W : q.state[t] = r.state[t] /\ q.blkobj[t] = r.blkobj[t]
         /\ \A t \in W : q.state[t] \in {"RDY", "SUSPENDED"} /\ q.blkobj[t] = NULL
<1>1. W \subseteq All
  BY DEF Blocked
<1>2. \A t \in All : /\ q.state[t] = IF t \in W
                                     THEN IF r.state[t] = "PEND" THEN "RDY" ELSE "SUSPENDED"
                                     ELSE r.state[t]
                     /\ q.blkobj[t] = IF t \in W THEN NULL ELSE r.blkobj[t]
  BY DEF Woken
<1>3. Blocked(q) = Blocked(r) \ W
  BY <1>1, <1>2 DEF Blocked
<1>4. Ready(q) = Ready(r) \cup {t \in W : r.state[t] = "PEND"}
  BY <1>1, <1>2 DEF Ready, Blocked
<1> QED
  BY <1>1, <1>2, <1>3, <1>4

\* One task more is woken.
LEMMA WokenNext ==
  ASSUME NEW r, Typed(r), NEW W \in SUBSET Blocked(r), NEW s, Woken(s, r, W),
         NEW t \in Blocked(r) \ W, NEW q, Woken(q, s, {t})
  PROVE  Woken(q, r, W \cup {t})
<1>1. t \in All /\ t \notin W
  BY DEF Blocked
<1>2. \A x \in All : s.state[x] = IF x \in W
                                  THEN IF r.state[x] = "PEND" THEN "RDY" ELSE "SUSPENDED"
                                  ELSE r.state[x]
  BY DEF Woken
<1>3. \A x \in All : s.blkobj[x] = IF x \in W THEN NULL ELSE r.blkobj[x]
  BY DEF Woken
<1>4. q.state = [x \in All |-> IF x \in W \cup {t}
                               THEN IF r.state[x] = "PEND" THEN "RDY" ELSE "SUSPENDED"
                               ELSE r.state[x]]
  BY <1>1, <1>2 DEF Woken
<1>5. q.blkobj = [x \in All |-> IF x \in W \cup {t} THEN NULL ELSE r.blkobj[x]]
  BY <1>1, <1>3 DEF Woken
<1>6. ToSet(q.tickl) = ToSet(r.tickl) \ (W \cup {t})
  BY DEF Woken
<1>7. \A x \in All \ (W \cup {t}) : q.tick[x] = r.tick[x]
  BY DEF Woken
<1> QED
  BY <1>4, <1>5, <1>6, <1>7 DEF Woken

\* the first n members of a list
Upto(l, n) == {l[i] : i \in 1..n}

\* Taking one step more along a list without duplicates.
LEMMA UptoNext ==
  ASSUME NEW S, NEW l \in Seq(S), IsInjective(l), NEW n \in 0..(Len(l) - 1)
  PROVE  /\ Upto(l, n + 1) = Upto(l, n) \cup {l[n + 1]}
         /\ l[n + 1] \notin Upto(l, n)
         /\ l[n + 1] \in ToSet(l)
         /\ Upto(l, n) \in SUBSET ToSet(l)
<1>1. Len(l) \in Nat /\ n + 1 \in 1..Len(l) /\ n \in Int /\ DOMAIN l = 1..Len(l)
  BY LenProperties
<1>2. \A i : i \in 1..(n + 1) <=> i \in 1..n \/ i = n + 1
  BY <1>1
<1>3. \A i \in 1..n : i \in 1..Len(l) /\ i # n + 1
  BY <1>1
<1>4. l[n + 1] \notin Upto(l, n)
  BY <1>1, <1>3 DEF Upto, IsInjective
<1>5. Upto(l, n + 1) = Upto(l, n) \cup {l[n + 1]}
  BY <1>2 DEF Upto
<1>6. l[n + 1] \in ToSet(l) /\ Upto(l, n) \in SUBSET ToSet(l)
  BY <1>1, <1>3, ToSetDef DEF Upto
<1> QED
  BY <1>4, <1>5, <1>6

\* Nothing at first, everything in the end.
LEMMA UptoAll ==
  ASSUME NEW S, NEW l \in Seq(S)
  PROVE  Upto(l, 0) = {} /\ Upto(l, Len(l)) = ToSet(l)
<1>1. Upto(l, 0) = {}
  BY DEF Upto
<1>2. Upto(l, Len(l)) = ToSet(l)
  BY ToSetDef DEF Upto
<1> QED
  BY <1>1, <1>2

\* the loops of pend_rm_all and pend_wakeup_all: c is the kernel before the loop,
\* the list and what ends the wait
EndStep(c, q, t) == pend_task_end(q, t, c[3])

EndInv(c, q, n) ==
    /\ Woken(q, c[1], Upto(c[2], n)) /\ Same(q, c[1], WakeFields)
    /\ \A t \in All : q.blkst[t] = IF t \in Upto(c[2], n) THEN c[3] ELSE c[1].blkst[t]

E == INSTANCE LoopTheorems WITH Step <- EndStep, Inv <- EndInv

\* pend_rm_all and pend_wakeup_all wake every task that waits for the object.
LEMMA PendEndAll ==
  ASSUME NEW r, Core(r), NEW o \in Obj, NEW why \in BlkState, NEW c, NEW q,
         c[1] = r, c[2] = r.blk[o], c[3] = why, q = E!Walk(c, r, r.blk[o])
  PROVE  /\ Woken(q, r, ToSet(r.blk[o])) /\ Same(q, r, WakeFields)
         /\ \A t \in All : q.blkst[t] = IF t \in ToSet(r.blk[o]) THEN why ELSE r.blkst[t]
<1>1. PICK l : l = r.blk[o]
  OBVIOUS
<1>3. c[1] = r /\ c[2] = l /\ c[3] = why
  BY <1>1
<1>4. /\ l \in Seq(Task) /\ IsInjective(l) /\ ToSet(l) \in SUBSET Blocked(r) /\ Typed(r)
      /\ Len(l) \in Nat
  BY <1>1, LenProperties DEF Core, Lists, Blk
<1>5. EndInv(c, r, 0)
  <2>1. Upto(l, 0) = {}
    BY <1>4, UptoAll
  <2>2. Same(r, r, WakeFields)
    BY <1>4 DEF Typed, Same
  <2>3. Woken(r, r, {})
    <3>1. r.state \in [All -> TaskState] /\ r.blkobj \in [All -> Obj \cup {NULL}]
      BY <1>4 DEF Typed
    <3> QED
      BY <3>1 DEF Woken
  <2> QED
    BY <1>3, <2>1, <2>2, <2>3 DEF EndInv
<1>6. ASSUME NEW n \in 0..(Len(l) - 1), NEW s, EndInv(c, s, n)
      PROVE  EndInv(c, EndStep(c, s, l[n + 1]), n + 1)
  <2>0. PICK t, W : t = l[n + 1] /\ W = Upto(l, n)
    OBVIOUS
  <2>1. PICK x : x = pend_task_end(s, t, why)
    OBVIOUS
  <2>2. Woken(s, r, W) /\ Same(s, r, WakeFields) /\ Core(s)
    BY <1>3, <1>6, <2>0 DEF EndInv, Woken
  <2>3. /\ Upto(l, n + 1) = W \cup {t} /\ t \in Blocked(r) \ W /\ W \in SUBSET Blocked(r)
        /\ t \in All
    BY <1>4, <2>0, UptoNext DEF Blocked
  <2>4. t \in Blocked(s)
    BY <1>4, <2>2, <2>3, WokenSets
  <2>5. /\ Woken(x, s, {t}) /\ Same(x, s, WakeFields)
        /\ x.blkst[t] = why /\ \A y \in All \ {t} : x.blkst[y] = s.blkst[y]
    BY <2>1, <2>2, <2>4, PendTaskEnd
  <2>6. Woken(x, r, W \cup {t})
    BY <1>4, <2>2, <2>3, <2>5, WokenNext
  <2>7. Same(x, r, WakeFields)
    BY <2>2, <2>5 DEF Same
  <2>8. \A y \in All : s.blkst[y] = IF y \in W THEN why ELSE r.blkst[y]
    BY <1>3, <1>6, <2>0 DEF EndInv
  <2>9. \A y \in All : x.blkst[y] = IF y \in W \cup {t} THEN why ELSE r.blkst[y]
    BY <2>3, <2>5, <2>8
  <2>10. EndStep(c, s, l[n + 1]) = x
    BY <1>3, <2>0, <2>1 DEF EndStep
  <2> QED
    BY <1>3, <2>3, <2>6, <2>7, <2>9, <2>10 DEF EndInv
<1>7. EndInv(c, E!Walk(c, r, l), Len(l))
  BY <1>4, <1>5, <1>6, E!WalkInduction
<1>8. Upto(l, Len(l)) = ToSet(l)
  BY <1>4, UptoAll
<1> QED
  BY <1>1, <1>3, <1>7, <1>8 DEF EndInv

\* pend_rm_all dismisses every task that waits for the object: it is deleted.
LEMMA PendRmAll ==
  ASSUME NEW r, Core(r), NEW o \in Obj, NEW q, q = pend_rm_all(r, o)
  PROVE  /\ Woken(q, r, ToSet(r.blk[o])) /\ Same(q, r, WakeFields)
         /\ \A t \in All : q.blkst[t] = IF t \in ToSet(r.blk[o]) THEN "DEL" ELSE r.blkst[t]
<1>1. PICK c : c = <<r, r.blk[o], "DEL">>
  OBVIOUS
<1>2. c[1] = r /\ c[2] = r.blk[o] /\ c[3] = "DEL"
  BY <1>1
<1>3. q = E!Walk(c, r, r.blk[o])
  BY <1>2 DEF pend_rm_all, pend_task_rm, EndStep, E!Walk, FoldLeft, MapThenFoldSet, Max,
              E!FoldLeft, E!MapThenFoldSet, E!Max
<1>4. "DEL" \in BlkState
  BY DEF BlkState
<1> QED
  BY <1>2, <1>3, <1>4, PendEndAll

\* pend_wakeup_all wakes every task that waits for the object with success.
LEMMA PendWakeupAll ==
  ASSUME NEW r, Core(r), NEW o \in Obj, NEW q, q = pend_wakeup_all(r, o)
  PROVE  /\ Woken(q, r, ToSet(r.blk[o])) /\ Same(q, r, WakeFields)
         /\ \A t \in All : q.blkst[t] = IF t \in ToSet(r.blk[o]) THEN "FINISH" ELSE r.blkst[t]
<1>1. PICK c : c = <<r, r.blk[o], "FINISH">>
  OBVIOUS
<1>2. c[1] = r /\ c[2] = r.blk[o] /\ c[3] = "FINISH"
  BY <1>1
<1>3. q = E!Walk(c, r, r.blk[o])
  BY <1>2 DEF pend_wakeup_all, pend_task_wakeup, EndStep, E!Walk, FoldLeft, MapThenFoldSet, Max,
              E!FoldLeft, E!MapThenFoldSet, E!Max
<1>4. "FINISH" \in BlkState
  BY DEF BlkState
<1> QED
  BY <1>2, <1>3, <1>4, PendEndAll

-----------------------------------------------------------------------------
\* task t is what it was, and has some time left if it had
Kept(q, r, t) ==
    /\ q.state[t] = r.state[t] /\ q.blkobj[t] = r.blkobj[t] /\ q.blkst[t] = r.blkst[t]
    /\ t \in ToSet(q.tickl) <=> t \in ToSet(r.tickl)
    /\ t \in ToSet(q.tickl) /\ r.tick[t] # 0 => q.tick[t] # 0

\* task t, which slept or waited, does not any more
Freed(q, r, t) ==
    /\ r.state[t] \notin {"RDY", "SUSPENDED", "DELETED"}
    /\ q.state[t] \in {"RDY", "SUSPENDED"}
    /\ q.state[t] = "SUSPENDED"
          => r.state[t] \in {"PEND_SUSPENDED", "SLEEP_SUSPENDED"}
    /\ t \notin ToSet(q.tickl)

\* q comes from r by wake-ups and changes of priority
Calm(q, r) == Core(q) /\ \A t \in All : Kept(q, r, t) \/ Freed(q, r, t)

\* One series of wake-ups and changes of priority after another.
LEMMA CalmTrans ==
  ASSUME NEW r, NEW s, NEW q, Calm(s, r), Calm(q, s)
  PROVE  Calm(q, r)
  BY DEF Calm, Kept, Freed

\* A change of priorities wakes nobody.
LEMMA CalmPri ==
  ASSUME NEW r, NEW q, Core(q), Same(q, r, PriFields \cup {"mlist", "live", "owner", "nested"})
  PROVE  Calm(q, r)
<1>1. /\ q.state = r.state /\ q.blkobj = r.blkobj /\ q.blkst = r.blkst
      /\ q.tick = r.tick /\ q.tickl = r.tickl
  BY FieldNames DEF Same, PriFields
<1> QED
  BY <1>1 DEF Calm, Kept

\* The wake-up of some tasks leaves the others as they were.
LEMMA CalmWoken ==
  ASSUME NEW r, Core(r), NEW W \in SUBSET Blocked(r), NEW q, Woken(q, r, W)
  PROVE  Calm(q, r)
<1>1. \A t \in All \ W : Kept(q, r, t)
  BY DEF Woken, Kept
<1>2. \A t \in W : Freed(q, r, t)
  BY DEF Woken, Freed, Blocked
<1> QED
  BY <1>1, <1>2 DEF Calm, Woken

\* The lists and the states agree.
LEMMA CoreOf ==
  ASSUME NEW q, NEW R, NEW B, NEW T, Lists(q, R, B, T), Ready(q) = R, Blocked(q) = B,
         \A t \in B : q.blkobj[t] \in Mutex => q.owner[q.blkobj[t]] \in Task
  PROVE  Core(q) /\ ToSet(q.tickl) = T
  BY DEF Lists, Tick, Core

\* State, blk_state and, for a task on no block list, blk_obj are set.
LEMMA ListsSet ==
  ASSUME NEW r, NEW R, NEW B, NEW T, Lists(r, R, B, T), NEW q,
         Same(q, r, {"state", "blkst", "blkobj"}),
         q.state \in [All -> TaskState], q.blkst \in [All -> BlkState],
         q.blkobj \in [All -> Obj \cup {NULL}], \A x \in B : q.blkobj[x] = r.blkobj[x]
  PROVE  Lists(q, R, B, T)
<1>1. Typed(q)
  BY FieldNames DEF Lists, Typed, Same
<1>2. /\ q.rdy = r.rdy /\ q.hi = r.hi /\ q.blk = r.blk /\ q.tickl = r.tickl
      /\ q.tick = r.tick /\ q.prio = r.prio
  BY FieldNames DEF Same
<1> QED
  BY <1>1, <1>2, ListsOff

\* the tasks other than t keep their state, their blk_state and their time
Others(s, r, t) ==
    \A x \in All \ {t} : /\ s.state[x] = r.state[x] /\ s.blkst[x] = r.blkst[x]
                         /\ s.tick[x] = r.tick[x]

\* A task is put into a state in which it waits for nothing.
LEMMA Leave ==
  ASSUME NEW r, Core(r), NEW t \in Task, t \notin Ready(r), NEW st \in {"RDY", "SUSPENDED", "DELETED"},
         NEW s, Same(s, r, {"rdy", "hi", "blk", "tick", "tickl", "state", "blkst"}),
         NEW R, st = "RDY" => R = Ready(r) \cup {t}, st # "RDY" => R = Ready(r),
         Lists(s, R, Blocked(r) \ {t}, ToSet(r.tickl) \ {t}),
         s.state[t] = st, Others(s, r, t)
  PROVE  Core(s) /\ \A x \in All \ {t} : Kept(s, r, x)
<1>1. t \in All /\ r.state \in [All -> TaskState] /\ r.tick \in [All -> Nat] /\ Typed(r)
  BY DEF Core, Lists, Typed, All
<1>2. Ready(s) = R
  BY <1>1 DEF Ready, Others
<1>3. Blocked(s) = Blocked(r) \ {t}
  BY <1>1 DEF Blocked, Others
<1>4. s.owner = r.owner /\ s.blkobj = r.blkobj
  BY FieldNames DEF Same
<1>5. Core(s) /\ ToSet(s.tickl) = ToSet(r.tickl) \ {t}
  BY <1>2, <1>3, <1>4, CoreOf DEF Core
<1> QED
  BY <1>1, <1>4, <1>5 DEF Kept, Others

\* task t waits for o, perhaps for a limited time
Waiting(q, r, t, o) ==
    /\ Core(q)
    /\ Same(q, r, {"rdy", "hi", "blk", "tick", "tickl", "state", "blkobj"})
    /\ q.state = [r.state EXCEPT ![t] = "PEND"]
    /\ q.blkobj = [r.blkobj EXCEPT ![t] = o]
    /\ ToSet(q.tickl) \in SUBSET (ToSet(r.tickl) \cup {t})
    /\ ToSet(r.tickl) \in SUBSET ToSet(q.tickl)
    /\ t \in ToSet(q.tickl) => q.tick[t] # 0
    /\ \A x \in All \ {t} : q.tick[x] = r.tick[x]

\* A call that blocks: pend_to_blk_obj.
LEMMA PendToBlkObj ==
  ASSUME NEW r, Core(r), NEW t \in Task, t \in Ready(r), t \notin ToSet(r.tickl),
         NEW o \in Obj, o \in Mutex => r.owner[o] \in Task,
         NEW n \in (Nat \ {0}) \cup {WAIT_FOREVER}, NEW q, q = pend_to_blk_obj(r, o, t, n)
  PROVE  Waiting(q, r, t, o)
<1> DEFINE R == Ready(r)
           B == Blocked(r)
           T == ToSet(r.tickl)
           T2 == IF n = WAIT_FOREVER THEN T ELSE T \cup {t}
<1>0. /\ Lists(r, R, B, T) /\ Typed(r) /\ IsK(r) /\ t \in All /\ t \notin B /\ t # Idle
      /\ t \in R /\ R \subseteq All /\ B \subseteq All
  BY CoreAssumption DEF Core, Lists, Typed, Ready, Blocked, All
<1>1. PICK timed : timed = IF n = WAIT_FOREVER THEN r ELSE tick_list_insert(r, t, n)
  OBVIOUS
<1>2. /\ Lists(timed, R, B, T2) /\ Same(timed, r, {"tick", "tickl"})
      /\ n # WAIT_FOREVER => timed.tick = [r.tick EXCEPT ![t] = n]
      /\ n = WAIT_FOREVER => timed.tick = r.tick
  <2>1. CASE n = WAIT_FOREVER
    BY <1>0, <1>1, <2>1 DEF Same
  <2>2. CASE n # WAIT_FOREVER
    <3>1. n \in Nat /\ timed = tick_list_insert(r, t, n) /\ t \notin T
      BY <1>1, <2>2
    <3>2. /\ Lists(timed, R, B, T \cup {t}) /\ Same(timed, r, {"tick", "tickl"})
          /\ timed.tick = [r.tick EXCEPT ![t] = n]
      BY <1>0, <3>1, ListsTickInsert
    <3> QED
      BY <2>2, <3>2
  <2> QED
    BY <2>1, <2>2
<1>3. PICK set : set = [timed EXCEPT !.blkobj[t] = o, !.state[t] = "PEND"]
  OBVIOUS
<1>4. /\ Same(set, timed, {"blkobj", "state"}) /\ set.blkobj = [timed.blkobj EXCEPT ![t] = o]
      /\ set.state = [timed.state EXCEPT ![t] = "PEND"]
  BY ZenonT(30), <1>2, <1>3, FieldNames DEF Same, IsK
<1>5. Lists(set, R, B, T2)
  <2>1. timed.state \in [All -> TaskState] /\ timed.blkobj \in [All -> Obj \cup {NULL}]
        /\ timed.blkst \in [All -> BlkState]
    BY <1>2 DEF Lists, Typed
  <2>2. set.state \in [All -> TaskState] /\ set.blkobj \in [All -> Obj \cup {NULL}]
    BY ZenonT(60), <1>4, <2>1 DEF TaskState
  <2>3. Same(set, timed, {"state", "blkst", "blkobj"}) /\ set.blkst = timed.blkst
    BY <1>4, FieldNames DEF Same
  <2>4. \A x \in B : set.blkobj[x] = timed.blkobj[x]
    BY <1>0, <1>4, <2>1
  <2> QED
    BY <1>2, <2>1, <2>2, <2>3, <2>4, ListsSet
<1>6. PICK off : off = ready_list_rm(set, t)
  OBVIOUS
<1>7. Lists(off, R \ {t}, B, T2) /\ Same(off, set, {"rdy", "hi"})
  BY <1>0, <1>5, <1>6, ListsReadyRm
<1>8. q = [off EXCEPT !.blk[o] = pend_list_add(off, @, t)]
  BY <1>1, <1>3, <1>6 DEF pend_to_blk_obj
<1>9. Same(q, off, {"blk"}) /\ q.blk = [off.blk EXCEPT ![o] = pend_list_add(off, off.blk[o], t)]
  BY <1>7, <1>8, FieldNames DEF Same, IsK
<1>10. /\ Same(q, r, {"rdy", "hi", "blk", "tick", "tickl", "state", "blkobj"})
       /\ q.state = [r.state EXCEPT ![t] = "PEND"] /\ q.blkobj = [r.blkobj EXCEPT ![t] = o]
       /\ off.blkobj = q.blkobj /\ q.tick = timed.tick /\ q.owner = r.owner
  BY <1>2, <1>4, <1>7, <1>9, FieldNames DEF Same
<1>11. /\ r.blkobj \in [All -> Obj \cup {NULL}] /\ r.state \in [All -> TaskState]
       /\ r.tick \in [All -> Nat]
  BY <1>0 DEF Typed
<1>12. off.blkobj[t] = o
  BY <1>0, <1>10, <1>11
<1>13. Lists(q, R \ {t}, B \cup {t}, T2)
  BY <1>0, <1>7, <1>9, <1>12, ListsBlkAdd
<1>14. Ready(q) = R \ {t} /\ Blocked(q) = B \cup {t}
  BY <1>0, <1>10, <1>11 DEF Ready, Blocked
<1>15. \A x \in B \cup {t} : q.blkobj[x] \in Mutex => q.owner[q.blkobj[x]] \in Task
  BY <1>0, <1>10, <1>11 DEF Core
<1>16. Core(q) /\ ToSet(q.tickl) = T2
  BY <1>13, <1>14, <1>15, CoreOf
<1>17. /\ t \in T2 => q.tick[t] # 0
       /\ \A x \in All \ {t} : q.tick[x] = r.tick[x]
  <2>1. CASE n = WAIT_FOREVER
    BY <1>2, <1>10, <2>1
  <2>2. CASE n # WAIT_FOREVER
    BY <1>0, <1>2, <1>10, <1>11, <2>2
  <2> QED
    BY <2>1, <2>2
<1> QED
  BY <1>10, <1>16, <1>17 DEF Waiting

\* no mutex is twice on the list of its owner
Chains(r) == \A t \in All : IsInjective(r.mlist[t])

\* what the end of a wait may change
EndFields == WakeFields \cup PriFields

\* A task that waited takes the priority it lent back (mutex_task_pri_reset) and
\* forgets what it waited for.
LEMMA LeaveReset ==
  ASSUME NEW r, Core(r), Chains(r), NEW t \in Task, t \in Blocked(r),
         NEW s, Core(s), Same(s, r, {"rdy", "hi", "blk", "tick", "tickl", "state", "blkst"}),
         t \notin Blocked(s), NEW x, x = mutex_task_pri_reset(s, t), NEW q,
         q = x \/ q = [x EXCEPT !.blkobj[t] = NULL]
  PROVE  /\ Core(q) /\ Same(q, s, EndFields) /\ Same(q, r, EndFields)
         /\ q.state = s.state /\ q.tick = s.tick /\ q.tickl = s.tickl /\ q.blkst = s.blkst
         /\ \A u \in All \ {t} : q.blkobj[u] = s.blkobj[u]
<1>1. s.blkobj = r.blkobj /\ s.owner = r.owner /\ s.mlist = r.mlist
  BY FieldNames DEF Same
<1>2. r.blkobj[t] \in Mutex => r.owner[r.blkobj[t]] \in Task
  BY DEF Core
<1>3. r.blkobj[t] \in Mutex => IsInjective(r.mlist[r.owner[r.blkobj[t]]])
  BY <1>2 DEF Chains, All
<1>4. Core(x) /\ Same(x, s, PriFields)
  BY <1>1, <1>2, <1>3, MutexTaskPriReset
<1>5. /\ x.state = s.state /\ x.tick = s.tick /\ x.tickl = s.tickl /\ x.blkst = s.blkst
      /\ x.blkobj = s.blkobj /\ x.owner = s.owner
  BY <1>4, FieldNames DEF Same, PriFields
<1>6. Same(x, s, EndFields) /\ Same(x, r, EndFields)
  BY <1>4, FieldNames DEF Same, PriFields, WakeFields, EndFields
<1>7. CASE q = x
  BY <1>4, <1>5, <1>6, <1>7
<1>8. CASE q = [x EXCEPT !.blkobj[t] = NULL]
  <2>1. Same(q, x, {"blkobj"}) /\ q.blkobj = [x.blkobj EXCEPT ![t] = NULL]
    BY <1>4, <1>8, FieldNames DEF Same, IsK
  <2>2. Same(q, s, EndFields) /\ Same(q, r, EndFields)
    BY <1>6, <2>1, FieldNames DEF Same, WakeFields, EndFields
  <2>3. q.state = x.state /\ q.tick = x.tick /\ q.tickl = x.tickl /\ q.blkst = x.blkst
        /\ q.owner = x.owner
    BY <2>1, FieldNames DEF Same
  <2>4. Lists(x, Ready(x), Blocked(x), ToSet(x.tickl)) /\ Typed(x) /\ t \in All
    BY <1>4 DEF Core, Lists, All
  <2>5. t \notin Blocked(x) /\ Blocked(q) = Blocked(x) /\ Ready(q) = Ready(x)
        /\ Blocked(x) \subseteq All
    BY <1>5, <2>3 DEF Blocked, Ready
  <2>6. /\ x.blkobj \in [All -> Obj \cup {NULL}] /\ x.state \in [All -> TaskState]
        /\ x.blkst \in [All -> BlkState]
    BY <2>4 DEF Typed
  <2>7. q.blkobj \in [All -> Obj \cup {NULL}] /\ \A u \in All \ {t} : q.blkobj[u] = x.blkobj[u]
    BY <2>1, <2>4, <2>6
  <2>8. Same(q, x, {"state", "blkst", "blkobj"})
    BY <2>1 DEF Same
  <2>9. \A u \in Blocked(x) : q.blkobj[u] = x.blkobj[u]
    BY <2>5, <2>7
  <2>10. Lists(q, Ready(x), Blocked(x), ToSet(x.tickl))
    BY <2>3, <2>4, <2>6, <2>7, <2>8, <2>9, ListsSet
  <2>11. \A u \in Blocked(x) : q.blkobj[u] \in Mutex => q.owner[q.blkobj[u]] \in Task
    BY <1>4, <2>3, <2>9 DEF Core
  <2>12. Core(q)
    BY <2>5, <2>10, <2>11, CoreOf
  <2> QED
    BY <1>5, <2>2, <2>3, <2>7, <2>12
<1> QED
  BY <1>7, <1>8

\* what a task on the tick list is doing
Timed(r) == \A t \in ToSet(r.tickl) :
                r.state[t] \in {"SLEEP", "PEND", "SLEEP_SUSPENDED", "PEND_SUSPENDED"}

\* the tasks of W, which were on the tick list in r, had their time in q
Expired(q, r, W) ==
    /\ Calm(q, r) /\ Same(q, r, EndFields)
    /\ ToSet(q.tickl) = ToSet(r.tickl) \ W
    /\ \A t \in All \ W : Kept(q, r, t) /\ q.blkst[t] = r.blkst[t]
    /\ \A t \in W : Freed(q, r, t) /\ (t \in Blocked(r) => q.blkst[t] = "TIMEOUT")

\* tick_expire ends the sleep or the wait of a task.
LEMMA TickExpire ==
  ASSUME NEW r, Core(r), Chains(r), Timed(r), NEW t \in ToSet(r.tickl), NEW q, q = tick_expire(r, t)
  PROVE  Expired(q, r, {t})
<1> DEFINE R == Ready(r)
           B == Blocked(r)
           T == ToSet(r.tickl)
<1>1. /\ Lists(r, R, B, T) /\ Typed(r) /\ IsK(r) /\ t \in Task
      /\ r.state[t] \in {"SLEEP", "PEND", "SLEEP_SUSPENDED", "PEND_SUSPENDED"}
  BY DEF Core, Lists, Typed, Timed
<1>2. /\ Lists(r, R, B, T) /\ Typed(r) /\ IsK(r) /\ t \in Task /\ t \in All /\ t \notin R
      /\ r.state[t] \in {"SLEEP", "PEND", "SLEEP_SUSPENDED", "PEND_SUSPENDED"}
      /\ R \subseteq All /\ B \subseteq All
      /\ t \in B <=> r.state[t] \in {"PEND", "PEND_SUSPENDED"}
  BY <1>1 DEF Ready, Blocked, All
<1>3. PICK st, why, R2 :
         /\ st = IF r.state[t] \in {"SLEEP", "PEND"} THEN "RDY" ELSE "SUSPENDED"
         /\ why = IF t \in B THEN "TIMEOUT" ELSE "FINISH"
         /\ R2 = IF st = "RDY" THEN R \cup {t} ELSE R
  OBVIOUS
<1> DEFINE Mid(s) ==
             /\ Lists(s, R2, B \ {t}, T \ {t})
             /\ Same(s, r, {"rdy", "hi", "blk", "tick", "tickl", "state", "blkst"})
             /\ s.state = [r.state EXCEPT ![t] = st] /\ s.tick = [r.tick EXCEPT ![t] = 0]
             /\ s.blkst = [r.blkst EXCEPT ![t] = why]
             /\ t \in B => q = [mutex_task_pri_reset(s, t) EXCEPT !.blkobj[t] = NULL]
             /\ t \notin B => q = s
<1>4. PICK off : off = tick_list_rm(r, t)
  OBVIOUS
<1>5. /\ Lists(off, R, B, T \ {t}) /\ Same(off, r, {"tick", "tickl"})
      /\ off.tick = [r.tick EXCEPT ![t] = 0]
  BY <1>2, <1>4, ListsTickRm
<1>6. /\ off.state = r.state /\ off.blkst = r.blkst /\ off.blkobj = r.blkobj /\ Typed(off)
      /\ off.state \in [All -> TaskState] /\ off.blkst \in [All -> BlkState]
      /\ off.blkobj \in [All -> Obj \cup {NULL}]
  BY <1>5, FieldNames DEF Same, Lists, Typed
<1>7. why \in BlkState /\ st \in TaskState /\ st \in {"RDY", "SUSPENDED", "DELETED"}
  BY <1>3 DEF BlkState, TaskState
<1>8. \E s : Mid(s)
  <2>1. CASE t \in B
    <3>1. PICK unb : unb = [blk_list_rm(off, t) EXCEPT !.blkst[t] = "TIMEOUT"]
      OBVIOUS
    <3>2. PICK y : y = blk_list_rm(off, t)
      OBVIOUS
    <3>3. Lists(y, R, B \ {t}, T \ {t}) /\ Same(y, off, {"blk"})
      BY <1>5, <2>1, <3>2, ListsBlkRm
    <3>4. Same(unb, y, {"blkst"}) /\ unb.blkst = [y.blkst EXCEPT ![t] = "TIMEOUT"]
      BY <3>1, <3>2, <3>3, FieldNames DEF Same, IsK
    <3>5. /\ unb.state = off.state /\ unb.blkst = [off.blkst EXCEPT ![t] = "TIMEOUT"]
          /\ unb.blkobj = off.blkobj /\ unb.tick = off.tick /\ unb.tickl = off.tickl
          /\ y.blkobj = off.blkobj
      BY <3>3, <3>4, FieldNames DEF Same
    <3>6. Lists(unb, R, B \ {t}, T \ {t})
      <4>1. unb.blkst \in [All -> BlkState]
        BY <1>6, <3>5 DEF BlkState
      <4>2. Same(unb, y, {"state", "blkst", "blkobj"})
        BY <3>4 DEF Same
      <4> QED
        BY <1>6, <3>3, <3>5, <4>1, <4>2, ListsSet
    <3>7. PICK z : z = IF st = "RDY" THEN ready_list_add(unb, t) ELSE unb
      OBVIOUS
    <3>8. Lists(z, R2, B \ {t}, T \ {t}) /\ Same(z, unb, {"rdy", "hi"})
      <4>1. CASE st = "RDY"
        BY <1>2, <1>3, <3>6, <3>7, <4>1, ListsReadyAdd
      <4>2. CASE st # "RDY"
        BY <1>3, <3>4, <3>6, <3>7, <4>2 DEF Same
      <4> QED
        BY <4>1, <4>2
    <3>9. PICK s : s = [z EXCEPT !.state[t] = st]
      OBVIOUS
    <3>10. Same(s, z, {"state"}) /\ s.state = [z.state EXCEPT ![t] = st]
      BY <3>8, <3>9, FieldNames DEF Same, IsK
    <3>11. /\ z.state = r.state /\ z.blkst = unb.blkst /\ z.blkobj = r.blkobj
           /\ s.blkst = z.blkst /\ s.blkobj = z.blkobj /\ s.tick = off.tick
      BY <1>6, <3>5, <3>8, <3>10, FieldNames DEF Same
    <3>12. Lists(s, R2, B \ {t}, T \ {t})
      <4>0. "TIMEOUT" \in BlkState
        BY DEF BlkState
      <4>1. s.state \in [All -> TaskState] /\ s.blkst \in [All -> BlkState]
        <5>1. r.state \in [All -> TaskState]
          BY <1>2 DEF Typed
        <5>2. s.state \in [All -> TaskState]
          BY <1>7, <3>10, <3>11, <5>1
        <5>3. s.blkst = [off.blkst EXCEPT ![t] = "TIMEOUT"]
          BY <3>5, <3>11
        <5>4. s.blkst \in [All -> BlkState]
          BY <1>6, <4>0, <5>3
        <5> QED
          BY <5>2, <5>4
      <4>2. Same(s, z, {"state", "blkst", "blkobj"})
        BY <3>10 DEF Same
      <4> QED
        BY <1>6, <3>8, <3>11, <4>1, <4>2, ListsSet
    <3>13. Same(s, r, {"rdy", "hi", "blk", "tick", "tickl", "state", "blkst"})
      BY <1>5, <3>3, <3>4, <3>8, <3>10, FieldNames DEF Same
    <3>14. q = [mutex_task_pri_reset(s, t) EXCEPT !.blkobj[t] = NULL]
      <4>1. CASE r.state[t] = "PEND"
        BY <1>4, <1>3, <3>1, <3>7, <3>9, <4>1 DEF tick_expire
      <4>2. CASE r.state[t] = "PEND_SUSPENDED"
        BY <1>4, <1>3, <3>1, <3>7, <3>9, <4>2 DEF tick_expire
      <4> QED
        BY <1>2, <2>1, <4>1, <4>2
    <3>15. /\ s.state = [r.state EXCEPT ![t] = st] /\ s.tick = [r.tick EXCEPT ![t] = 0]
           /\ s.blkst = [r.blkst EXCEPT ![t] = why]
      BY <1>3, <1>5, <1>6, <2>1, <3>5, <3>10, <3>11
    <3>16. Mid(s)
      BY <2>1, <3>12, <3>13, <3>14, <3>15
    <3> QED
      BY <3>16
  <2>2. CASE t \notin B
    <3>1. PICK s : s = [off EXCEPT !.state[t] = st, !.blkst[t] = "FINISH"]
      OBVIOUS
    <3>2. /\ Same(s, off, {"state", "blkst"}) /\ s.state = [off.state EXCEPT ![t] = st]
          /\ s.blkst = [off.blkst EXCEPT ![t] = "FINISH"]
      BY ZenonT(30), <1>5, <3>1, FieldNames DEF Same, IsK
    <3>3. Lists(s, R, B, T \ {t})
      <4>1. s.state \in [All -> TaskState] /\ s.blkst \in [All -> BlkState]
        BY ZenonT(60), <1>6, <1>7, <3>2 DEF BlkState
      <4>2. Same(s, off, {"state", "blkst", "blkobj"}) /\ s.blkobj = off.blkobj
        BY <3>2, FieldNames DEF Same
      <4> QED
        BY <1>5, <1>6, <4>1, <4>2, ListsSet
    <3>4. q = IF st = "RDY" THEN ready_list_add(s, t) ELSE s
      <4>1. CASE r.state[t] = "SLEEP"
        BY <1>4, <1>3, <3>1, <4>1 DEF tick_expire
      <4>2. CASE r.state[t] = "SLEEP_SUSPENDED"
        BY <1>4, <1>3, <3>1, <4>2 DEF tick_expire
      <4> QED
        BY <1>2, <2>2, <4>1, <4>2
    <3>5. Lists(q, R2, B, T \ {t}) /\ Same(q, s, {"rdy", "hi"})
      <4>1. CASE st = "RDY"
        BY <1>2, <1>3, <3>3, <3>4, <4>1, ListsReadyAdd
      <4>2. CASE st # "RDY"
        BY <1>3, <3>2, <3>3, <3>4, <4>2 DEF Same
      <4> QED
        BY <4>1, <4>2
    <3>6. B \ {t} = B
      BY <2>2
    <3>7. /\ Same(q, r, {"rdy", "hi", "blk", "tick", "tickl", "state", "blkst"})
          /\ q.state = s.state /\ q.blkst = s.blkst /\ q.tick = off.tick
      BY <1>5, <3>2, <3>5, FieldNames DEF Same
    <3>8. /\ q.state = [r.state EXCEPT ![t] = st] /\ q.tick = [r.tick EXCEPT ![t] = 0]
          /\ q.blkst = [r.blkst EXCEPT ![t] = why]
      BY <1>3, <1>5, <1>6, <2>2, <3>2, <3>7
    <3>9. Mid(q)
      BY <2>2, <3>5, <3>6, <3>7, <3>8
    <3> QED
      BY <3>9
  <2> QED
    BY <2>1, <2>2
<1>9. PICK s : Mid(s)
  BY <1>8
<1>10. /\ Lists(s, R2, B \ {t}, T \ {t})
       /\ Same(s, r, {"rdy", "hi", "blk", "tick", "tickl", "state", "blkst"})
       /\ s.state = [r.state EXCEPT ![t] = st] /\ s.tick = [r.tick EXCEPT ![t] = 0]
       /\ s.blkst = [r.blkst EXCEPT ![t] = why]
       /\ t \in B => q = [mutex_task_pri_reset(s, t) EXCEPT !.blkobj[t] = NULL]
       /\ t \notin B => q = s
  BY <1>9
<1>11. /\ Core(s) /\ ToSet(s.tickl) = T \ {t} /\ s.state[t] = st
       /\ \A x \in All \ {t} : Kept(s, r, x)
  <2>1. s.state[t] = st /\ Others(s, r, t)
    BY <1>2, <1>10 DEF Typed, Others
  <2>2. (st = "RDY" => R2 = Ready(r) \cup {t}) /\ (st # "RDY" => R2 = Ready(r))
    BY <1>3
  <2>3. Lists(s, R2, Blocked(r) \ {t}, ToSet(r.tickl) \ {t})
    BY <1>10
  <2>4. /\ t \notin Ready(r) /\ t \in Task
        /\ Same(s, r, {"rdy", "hi", "blk", "tick", "tickl", "state", "blkst"})
    BY <1>2, <1>10
  <2> HIDE DEF R, B, T
  <2>5. Core(s) /\ \A x \in All \ {t} : Kept(s, r, x)
    BY <1>7, <2>1, <2>2, <2>3, <2>4, Leave
  <2>6. ToSet(s.tickl) = T \ {t}
    BY <1>10 DEF Lists, Tick
  <2> QED
    BY <2>1, <2>5, <2>6
<1>12. t \notin Blocked(s)
  BY <1>7, <1>11 DEF Blocked
<1>13. /\ Core(q) /\ Same(q, r, EndFields)
       /\ q.state = s.state /\ q.tick = s.tick /\ q.tickl = s.tickl /\ q.blkst = s.blkst
       /\ \A u \in All \ {t} : q.blkobj[u] = s.blkobj[u]
  <2>1. CASE t \in B
    <3>1. PICK x : x = mutex_task_pri_reset(s, t)
      OBVIOUS
    <3>2. q = [x EXCEPT !.blkobj[t] = NULL]
      BY <1>10, <2>1, <3>1
    <3> QED
      BY <1>2, <1>10, <1>11, <1>12, <2>1, <3>1, <3>2, LeaveReset
  <2>2. CASE t \notin B
    <3>1. q = s
      BY <1>10, <2>2
    <3>2. Same(s, r, EndFields)
      BY <1>10 DEF Same, EndFields, WakeFields
    <3> QED
      BY <1>11, <3>1, <3>2
  <2> QED
    BY <2>1, <2>2
<1>14. \A x \in All \ {t} : Kept(q, r, x) /\ q.blkst[x] = r.blkst[x]
  <2>1. r.blkst \in [All -> BlkState]
    BY <1>2 DEF Typed
  <2> QED
    BY <1>10, <1>11, <1>13, <2>1 DEF Kept
<1>15. Freed(q, r, t) /\ (t \in B => q.blkst[t] = "TIMEOUT")
  <2>1. r.blkst \in [All -> BlkState]
    BY <1>2 DEF Typed
  <2>2. t \in B => q.blkst[t] = "TIMEOUT"
    BY <1>2, <1>3, <1>10, <1>13, <2>1
  <2>3. q.state[t] = st /\ t \notin ToSet(q.tickl)
    BY <1>11, <1>13
  <2> QED
    BY <1>2, <1>3, <2>2, <2>3 DEF Freed
<1> QED
  BY <1>11, <1>13, <1>14, <1>15 DEF Expired, Calm

\* One expired task more.
LEMMA ExpiredNext ==
  ASSUME NEW r, Core(r), NEW W \in SUBSET ToSet(r.tickl), NEW s, Expired(s, r, W),
         NEW t \in ToSet(r.tickl), t \notin W, NEW q, Expired(q, s, {t})
  PROVE  Expired(q, r, W \cup {t})
<1>1. ToSet(r.tickl) \subseteq All
  BY ToSetDef DEF Core, Lists, Tick, All
<1>2. Kept(s, r, t) /\ s.blkst[t] = r.blkst[t]
  BY <1>1 DEF Expired
<1>3. Calm(q, r) /\ Same(q, r, EndFields)
  BY CalmTrans DEF Expired, Same
<1>4. ToSet(q.tickl) = ToSet(r.tickl) \ (W \cup {t})
  BY DEF Expired
<1>5. \A x \in All \ (W \cup {t}) : Kept(q, r, x) /\ q.blkst[x] = r.blkst[x]
  BY DEF Expired, Kept
<1>6. Freed(q, r, t) /\ (t \in Blocked(r) => q.blkst[t] = "TIMEOUT")
  BY <1>1, <1>2 DEF Expired, Freed, Kept, Blocked
<1>7. \A x \in W : Freed(q, r, x) /\ (x \in Blocked(r) => q.blkst[x] = "TIMEOUT")
  <2> SUFFICES ASSUME NEW x \in W
               PROVE  Freed(q, r, x) /\ (x \in Blocked(r) => q.blkst[x] = "TIMEOUT")
    OBVIOUS
  <2>1. x \in All \ {t}
    BY <1>1
  <2>2. Kept(q, s, x) /\ q.blkst[x] = s.blkst[x] /\ Freed(s, r, x)
        /\ (x \in Blocked(r) => s.blkst[x] = "TIMEOUT")
    BY <2>1 DEF Expired
  <2> QED
    BY <2>2 DEF Freed, Kept
<1> QED
  BY <1>3, <1>4, <1>5, <1>6, <1>7 DEF Expired

\* the loop of tick_list_update: c is the kernel before the loop and the list of
\* the tasks that are due
TickStep(c, q, t) == tick_expire(q, t)

TickInv(c, q, n) == Expired(q, c[1], Upto(c[2], n))

X == INSTANCE LoopTheorems WITH Step <- TickStep, Inv <- TickInv

\* The walk of tick_list_update ends the waits of all tasks it meets.
LEMMA TickWalk ==
  ASSUME NEW r, Core(r), Chains(r), Timed(r), NEW l \in Seq(Task), IsInjective(l),
         ToSet(l) \in SUBSET ToSet(r.tickl), NEW q, q = FoldLeft(tick_expire, r, l)
  PROVE  Expired(q, r, ToSet(l))
<1>1. PICK c : c = <<r, l>>
  OBVIOUS
<1>2. c[1] = r /\ c[2] = l /\ Len(l) \in Nat
  BY <1>1, LenProperties
<1>3. q = X!Walk(c, r, l)
  BY DEF TickStep, X!Walk, FoldLeft, MapThenFoldSet, Max, X!FoldLeft, X!MapThenFoldSet, X!Max
<1>4. TickInv(c, r, 0)
  <2>1. Upto(l, 0) = {}
    BY UptoAll
  <2>2. Same(r, r, EndFields) /\ Calm(r, r) /\ \A t \in All : Kept(r, r, t)
    BY DEF Core, Lists, Typed, Same, Calm, Kept
  <2>3. Expired(r, r, {})
    BY <2>2 DEF Expired
  <2> QED
    BY <1>2, <2>1, <2>3 DEF TickInv
<1>5. ASSUME NEW n \in 0..(Len(l) - 1), NEW s, TickInv(c, s, n)
      PROVE  TickInv(c, TickStep(c, s, l[n + 1]), n + 1)
  <2>0. PICK t, W : t = l[n + 1] /\ W = Upto(l, n)
    OBVIOUS
  <2>1. PICK x : x = tick_expire(s, t)
    OBVIOUS
  <2>2. Expired(s, r, W) /\ Core(s)
    BY <1>2, <1>5, <2>0 DEF TickInv, Expired, Calm
  <2>3. /\ Upto(l, n + 1) = W \cup {t} /\ t \in ToSet(l) /\ t \notin W /\ W \in SUBSET ToSet(l)
    BY <2>0, UptoNext
  <2>4. t \in ToSet(s.tickl) /\ t \in ToSet(r.tickl) /\ W \in SUBSET ToSet(r.tickl)
    BY <2>2, <2>3 DEF Expired
  <2>5. Chains(s)
    <3>1. s.mlist = r.mlist
      BY <2>2, FieldNames DEF Expired, Same, EndFields, WakeFields, PriFields
    <3> QED
      BY <3>1 DEF Chains
  <2>6. Timed(s)
    <3>1. ToSet(r.tickl) \subseteq All
      BY ToSetDef DEF Core, Lists, Tick, All
    <3>2. \A y \in ToSet(s.tickl) : y \in ToSet(r.tickl) /\ Kept(s, r, y)
      BY <2>2, <3>1 DEF Expired
    <3> QED
      BY <3>2 DEF Timed, Kept
  <2>7. Expired(x, s, {t})
    BY <2>1, <2>2, <2>4, <2>5, <2>6, TickExpire
  <2>8. Expired(x, r, W \cup {t})
    BY <2>2, <2>3, <2>4, <2>7, ExpiredNext
  <2>9. TickStep(c, s, l[n + 1]) = x
    BY <2>0, <2>1 DEF TickStep
  <2> QED
    BY <1>2, <2>3, <2>8, <2>9 DEF TickInv
<1>6. TickInv(c, X!Walk(c, r, l), Len(l))
  BY <1>4, <1>5, X!WalkInduction
<1>7. Upto(l, Len(l)) = ToSet(l)
  BY UptoAll
<1> QED
  BY <1>2, <1>3, <1>6, <1>7 DEF TickInv

\* everybody on the tick list has some time left
TimeLeft(r) == \A t \in ToSet(r.tickl) : r.tick[t] # 0

\* A tick ends the waits of the tasks whose time is over, and only those: the
\* others on the list, which the walk does not look at, have time left.
LEMMA TickListUpdate ==
  ASSUME NEW r, Core(r), Chains(r), Timed(r), TimeLeft(r), NEW q, q = tick_list_update(r, 1)
  PROVE  /\ Calm(q, r) /\ Same(q, r, EndFields) /\ TimeLeft(q)
         /\ \A t \in Blocked(r) : t \in Blocked(q) \/ q.blkst[t] = "TIMEOUT"
<1> DEFINE l == r.tickl
<1>0. /\ Typed(r) /\ IsK(r) /\ l \in Seq(Task) /\ IsInjective(l) /\ Ordered(l, r.tick)
      /\ r.tick \in [All -> Nat] /\ ToSet(l) \subseteq Task /\ Task \subseteq All
      /\ Lists(r, Ready(r), Blocked(r), ToSet(l)) /\ Len(l) \in Nat
  BY LenProperties DEF Core, Lists, Tick, Typed, All
<1>1. PICK r1 : r1 = [r EXCEPT !.tick = [t \in All |-> IF Contains(r.tickl, t)
                                                       THEN r.tick[t] - 1 ELSE r.tick[t]]]
  OBVIOUS
<1>2. /\ Same(r1, r, {"tick"})
      /\ r1.tick = [t \in All |-> IF Contains(r.tickl, t) THEN r.tick[t] - 1 ELSE r.tick[t]]
  BY <1>0, <1>1, FieldNames DEF Same, IsK
<1>3. /\ \A t \in ToSet(l) : r1.tick[t] = r.tick[t] - 1
      /\ \A t \in All \ ToSet(l) : r1.tick[t] = r.tick[t]
  BY <1>0, <1>2, ToSetDef
<1>4. r1.tick \in [All -> Nat]
  <2>1. \A t \in All : r1.tick[t] \in Nat
    BY <1>0, <1>3 DEF TimeLeft
  <2> QED
    BY <1>2, <2>1
<1>5. /\ r1.state = r.state /\ r1.tickl = l /\ r1.blkobj = r.blkobj /\ r1.owner = r.owner
      /\ r1.mlist = r.mlist /\ r1.rdy = r.rdy /\ r1.hi = r.hi /\ r1.blk = r.blk
      /\ r1.prio = r.prio /\ r1.blkst = r.blkst
  BY <1>2, FieldNames DEF Same
<1>6. Typed(r1)
  BY <1>0, <1>2, <1>4, FieldNames DEF Typed, Same
<1>7. Ordered(l, r1.tick)
  <2>1. \A i \in 1..Len(l) : l[i] \in ToSet(l) /\ r.tick[l[i]] \in Nat
    BY <1>0, ToSetDef
  <2> SUFFICES ASSUME NEW i \in 1..Len(l), NEW j \in 1..Len(l), i < j
               PROVE  r1.tick[l[i]] <= r1.tick[l[j]]
    BY DEF Ordered
  <2>2. r.tick[l[i]] <= r.tick[l[j]]
    BY <1>0 DEF Ordered
  <2>3. r1.tick[l[i]] = r.tick[l[i]] - 1 /\ r1.tick[l[j]] = r.tick[l[j]] - 1
    BY <1>3, <2>1
  <2> QED
    BY SMTT(30), <2>1, <2>2, <2>3
<1>8. Core(r1)
  <2>1. Ready(r1) = Ready(r) /\ Blocked(r1) = Blocked(r)
    BY <1>5 DEF Ready, Blocked
  <2>2. Lists(r1, Ready(r), Blocked(r), ToSet(l))
    BY <1>0, <1>5, <1>6, <1>7 DEF Lists, Tick
  <2> QED
    BY <1>5, <2>1, <2>2 DEF Core
<1>9. Chains(r1) /\ Timed(r1)
  BY <1>5 DEF Chains, Timed
<1> DEFINE key == [x \in Task |-> r1.tick[x]]
           p == Place(l, key, 0)
<1>10. key \in [Task -> Int] /\ Ordered(l, key) /\ \A i \in 1..Len(l) : key[l[i]] = r1.tick[l[i]]
  <2>1. \A i \in 1..Len(l) : l[i] \in Task
    BY <1>0, ElementOfSeq
  <2>2. key \in [Task -> Int]
    BY <1>0, <1>4
  <2> QED
    BY <1>7, <2>1, <2>2 DEF Ordered
<1>11. p \in 1..(Len(l) + 1) /\ \A i \in 1..Len(l) : i < p <=> r1.tick[l[i]] <= 0
  <2>1. p \in 1..(Len(l) + 1) /\ \A i \in 1..Len(l) : i < p <=> key[l[i]] <= 0
    <3>1. l \in Seq(Task) /\ key \in [Task -> Int] /\ Ordered(l, key) /\ 0 \in Int
      BY <1>0, <1>10
    <3> HIDE DEF key, l
    <3> QED
      BY <3>1, PlaceSplits
  <2> QED
    BY <1>10, <2>1
<1> DEFINE i0 == SelectInSeq(l, LAMBDA x : r1.tick[x] > 0)
<1>12. (IF i0 = 0 THEN Len(l) ELSE i0 - 1) = p - 1
  <2>1. {i \in 1..Len(l) : key[l[i]] > 0} = {i \in 1..Len(l) : r1.tick[l[i]] > 0}
    BY <1>10
  <2>2. CASE {i \in 1..Len(l) : r1.tick[l[i]] > 0} = {}
    <3>1. i0 = 0
      BY <2>2 DEF SelectInSeq
    <3>2. p = Len(l) + 1
      BY <2>1, <2>2 DEF Place
    <3> QED
      BY <1>0, <3>1, <3>2
  <2>3. CASE {i \in 1..Len(l) : r1.tick[l[i]] > 0} # {}
    <3>1. i0 = p
      BY <1>0, <2>1, <2>3 DEF SelectInSeq, Place
    <3>2. p # 0
      BY <1>11
    <3> QED
      BY <3>1, <3>2
  <2> QED
    BY <2>2, <2>3
<1>13. PICK due : due = SubSeq(l, 1, p - 1)
  OBVIOUS
<1>14. q = FoldLeft(tick_expire, r1, due)
  <2>1. tick_list_update(r, 1) =
          FoldLeft(tick_expire, r1, SubSeq(r1.tickl, 1, IF SelectInSeq(r1.tickl, LAMBDA x : r1.tick[x] > 0) = 0
             THEN Len(r1.tickl) ELSE SelectInSeq(r1.tickl, LAMBDA x : r1.tick[x] > 0) - 1))
    BY <1>0, <1>1 DEF tick_list_update, IsK
  <2> QED
    BY <1>5, <1>12, <1>13, <2>1
<1> HIDE DEF p, i0, key
<1>15. /\ due \in Seq(Task) /\ IsInjective(due) /\ ToSet(due) \in SUBSET ToSet(l) /\ Len(due) = p - 1
       /\ \A i \in 1..(p - 1) : due[i] = l[i]
  <2>1. p - 1 \in 0..Len(l)
    BY <1>0, <1>11
  <2> QED
    BY <1>0, <1>13, <2>1, PrefixProperties
<1>16. Expired(q, r1, ToSet(due))
  BY <1>5, <1>8, <1>9, <1>14, <1>15, TickWalk
<1>17. \A t \in ToSet(l) \ ToSet(due) : r1.tick[t] # 0
  <2> SUFFICES ASSUME NEW t \in ToSet(l), t \notin ToSet(due) PROVE r1.tick[t] # 0
    OBVIOUS
  <2>1. PICK i \in 1..Len(l) : l[i] = t
    BY <1>0, ToSetDef
  <2>2. ~ (i < p)
    <3>1. \A j \in 1..(p - 1) : due[j] \in ToSet(due)
      BY <1>15, ToSetDef
    <3>2. i < p => i \in 1..(p - 1)
      BY <1>0, <1>11
    <3> QED
      BY <1>15, <2>1, <3>1, <3>2
  <2>3. ~ (r1.tick[t] <= 0)
    BY <1>11, <2>1, <2>2
  <2> QED
    BY <2>3
<1>18. Same(q, r, EndFields)
  BY <1>2, <1>16, FieldNames DEF Expired, Same, EndFields, WakeFields
<1>19. TimeLeft(q)
  <2>1. ToSet(q.tickl) = ToSet(l) \ ToSet(due)
    BY <1>5, <1>16 DEF Expired
  <2>2. \A t \in ToSet(q.tickl) : Kept(q, r1, t)
    BY <1>0, <1>16, <2>1 DEF Expired
  <2> QED
    BY <1>17, <2>1, <2>2 DEF TimeLeft, Kept
<1>20. Calm(q, r)
  <2>1. \A t \in All : Kept(q, r, t) \/ Freed(q, r, t)
    <3>1. \A t \in All : Kept(q, r1, t) \/ Freed(q, r1, t)
      BY <1>16 DEF Expired, Calm
    <3> QED
      BY <1>5, <1>19, <3>1 DEF Kept, Freed, TimeLeft
  <2> QED
    BY <1>16, <2>1 DEF Calm, Expired
<1>21. \A t \in Blocked(r) : t \in Blocked(q) \/ q.blkst[t] = "TIMEOUT"
  BY <1>5, <1>16 DEF Expired, Kept, Blocked
<1> QED
  BY <1>18, <1>19, <1>20, <1>21

(***************************************************************************)
(* The invariant of the kernel, the scheduler, the interrupts, k_task.c.    *)
(***************************************************************************)

(* The parts of the invariant, as predicates of a kernel record: they are   *)
(* also used of the states in the middle of a service.                      *)

\* the fields no internal routine touches have their types
Types(r) ==
    /\ r.lock \in 0..MaxLock /\ r.intr \in 0..MaxIntr
    /\ r.susp \in [All -> Nat] /\ r.slice \in [All -> Nat] /\ r.total \in [All -> Nat]
    /\ r.policy \in [All -> {"RR", "FIFO"}]
    /\ r.live \in [Obj -> BOOLEAN]
    /\ r.nested \in [Mutex -> Nat] /\ r.count \in [Sem -> Nat]
    /\ r.flags \in [Event -> SUBSET UNION SetFlags] /\ r.want \in [All -> Wants \cup {NULL}]
    /\ r.pc \in [All -> PC] /\ r.wait \in [All -> Obj \cup {NULL}]
    /\ r.arg \in [All -> [task : Task, pri : NewPris] \cup {NULL}]
    /\ r.actl = [t \in All |-> r.actl[t]] /\ r.msg = [t \in All |-> r.msg[t]]

\* on the tick list are the tasks that sleep and some of those that wait, all of
\* them with time left
Waits(r) ==
    /\ Timed(r) /\ TimeLeft(r)
    /\ \A t \in All : r.state[t] \in {"SLEEP", "SLEEP_SUSPENDED"} => t \in ToSet(r.tickl)

\* a suspended task has suspensions to take back
Suspended(r) ==
    \A t \in All : r.state[t] \in {"SUSPENDED", "SLEEP_SUSPENDED", "PEND_SUSPENDED"}
                      => r.susp[t] # 0

\* what the tasks of B wait for exists and is not to be had
Denied(B, blkobj, live, owner, count, want, flags) ==
    \A t \in B : LET o == blkobj[t] IN
        /\ live[o]
        /\ o \in Mutex => owner[o] \in Task \ {t}
        /\ o \in Sem => count[o] = 0
        /\ o \in Event => ~ Met(want[t], flags[o])

\* the owners of the mutexes and the mutex lists of the tasks agree
Owns(mlist, live, owner, nested, state) ==
    /\ \A t \in All : IsInjective(mlist[t])
    /\ \A t \in All : \A m \in ToSet(mlist[t]) : live[m] /\ owner[m] = t
    /\ \A m \in Mutex : live[m] /\ owner[m] # NULL =>
          /\ m \in ToSet(mlist[owner[m]])
          /\ nested[m] # 0
          /\ state[owner[m]] # "DELETED"

\* a task in the middle of krhino_task_pri_change has its arguments
Args(r) == \A t \in All : r.pc[t] = "prichg" => r.arg[t] \in [task : Task, pri : NewPris]

\* all of it but what is said of the running task
Sys(r) ==
    /\ Core(r) /\ Types(r) /\ Waits(r) /\ Suspended(r) /\ Args(r)
    /\ Denied(Blocked(r), r.blkobj, r.live, r.owner, r.count, r.want, r.flags)
    /\ Owns(r.mlist, r.live, r.owner, r.nested, r.state)

\* the running task is ready, unless it is on its way to core_sched or an
\* interrupt handler, which ends in a choice of the next task, came between
Runs(lock, intr, pc, state) ==
    lock # 0 \/ (intr = 0 /\ pc \in {"user", "pend", "prichg"}) => state = "RDY"

\* the inductive invariant
Good(r) == Sys(r) /\ Runs(r.lock, r.intr, r.pc[r.active], r.state[r.active])

KInv == Good(k)

-----------------------------------------------------------------------------
\* the fields that only Types, Args and Runs depend on
QuietFields == {"active", "lock", "intr", "slice", "total", "policy", "ring", "num", "msg",
                "actl", "pc", "wait", "arg", "err"}

\* the fields the lists and the priorities do not depend on
StillFields == QuietFields \cup {"live", "nested", "count", "flags", "want", "susp"}

\* The lists and the priorities do not depend on these fields.
LEMMA CoreStill ==
  ASSUME NEW r, Core(r), NEW q, Same(q, r, StillFields), q.active \in All
  PROVE  Core(q)
<1>1. /\ q.hi = r.hi /\ q.rdy = r.rdy /\ q.prio = r.prio /\ q.bprio = r.bprio
      /\ q.state = r.state /\ q.blkst = r.blkst /\ q.blkobj = r.blkobj
      /\ q.tick = r.tick /\ q.tickl = r.tickl /\ q.blk = r.blk
      /\ q.owner = r.owner /\ q.mlist = r.mlist
  BY FieldNames DEF Same, StillFields, QuietFields
<1>2. Ready(q) = Ready(r) /\ Blocked(q) = Blocked(r)
  BY <1>1 DEF Ready, Blocked
<1>3. Typed(q)
  BY <1>1 DEF Core, Lists, Typed, Same
<1> QED
  BY <1>1, <1>2, <1>3 DEF Core, Lists

\* Setting such fields keeps the invariant if what tasks wait for is still not to
\* be had and the owners still own.
LEMMA StillSys ==
  ASSUME NEW r, Sys(r), NEW q, Same(q, r, StillFields), q.active \in All, Types(q), Args(q),
         Suspended(q), Denied(Blocked(r), r.blkobj, q.live, r.owner, q.count, q.want, q.flags),
         Owns(r.mlist, q.live, r.owner, q.nested, r.state)
  PROVE  Sys(q)
<1>1. /\ q.state = r.state /\ q.blkobj = r.blkobj /\ q.tick = r.tick /\ q.tickl = r.tickl
      /\ q.owner = r.owner /\ q.mlist = r.mlist
  BY FieldNames DEF Same, StillFields, QuietFields
<1>2. Ready(q) = Ready(r) /\ Blocked(q) = Blocked(r)
  BY <1>1 DEF Ready, Blocked
<1>3. Core(q)
  BY CoreStill DEF Sys
<1>4. Waits(q)
  BY <1>1 DEF Sys, Waits, Timed, TimeLeft
<1> QED
  BY <1>1, <1>2, <1>3, <1>4 DEF Sys

\* Setting quiet fields keeps the rest of the invariant.
LEMMA QuietSys ==
  ASSUME NEW r, Sys(r), NEW q, Same(q, r, QuietFields), q.active \in All, Types(q), Args(q)
  PROVE  Sys(q)
<1>1. /\ q.live = r.live /\ q.nested = r.nested /\ q.count = r.count /\ q.flags = r.flags
      /\ q.want = r.want /\ q.susp = r.susp /\ q.state = r.state
  BY FieldNames DEF Same, QuietFields
<1>2. Same(q, r, StillFields)
  BY DEF Same, StillFields
<1>3. Suspended(q)
  BY <1>1 DEF Sys, Suspended
<1>4. /\ Denied(Blocked(r), r.blkobj, q.live, r.owner, q.count, q.want, q.flags)
      /\ Owns(r.mlist, q.live, r.owner, q.nested, r.state)
  BY <1>1 DEF Sys
<1> QED
  BY <1>2, <1>3, <1>4, StillSys

\* Wake-ups and changes of priority keep the invariant.
LEMMA CalmSys ==
  ASSUME NEW r, Sys(r), NEW q, Calm(q, r), Same(q, r, EndFields)
  PROVE  Sys(q) /\ q.active = r.active /\ q.lock = r.lock /\ q.intr = r.intr /\ q.pc = r.pc
         /\ \A t \in All : r.state[t] = "RDY" => q.state[t] = "RDY"
<1>1. /\ q.active = r.active /\ q.lock = r.lock /\ q.intr = r.intr /\ q.susp = r.susp
      /\ q.slice = r.slice /\ q.total = r.total /\ q.policy = r.policy /\ q.live = r.live
      /\ q.nested = r.nested /\ q.count = r.count /\ q.flags = r.flags /\ q.want = r.want
      /\ q.pc = r.pc /\ q.wait = r.wait /\ q.arg = r.arg /\ q.actl = r.actl /\ q.msg = r.msg
      /\ q.owner = r.owner /\ q.mlist = r.mlist
  BY FieldNames DEF Same, EndFields, WakeFields, PriFields
<1>2. Core(q) /\ \A t \in All : Kept(q, r, t) \/ Freed(q, r, t)
  BY DEF Calm
<1>3. Types(q) /\ Args(q)
  BY <1>1 DEF Sys, Types, Args
<1>4. Waits(q)
  <2>1. ToSet(q.tickl) \subseteq All
    BY <1>2 DEF Core, Lists, Tick, All
  <2>2. Timed(q)
    BY <1>2, <2>1 DEF Sys, Waits, Timed, Kept, Freed
  <2>3. TimeLeft(q)
    BY <1>2, <2>1 DEF Sys, Waits, TimeLeft, Kept, Freed
  <2>4. \A t \in All : q.state[t] \in {"SLEEP", "SLEEP_SUSPENDED"} => t \in ToSet(q.tickl)
    BY <1>2 DEF Sys, Waits, Kept, Freed
  <2> QED
    BY <2>2, <2>3, <2>4 DEF Waits
<1>5. Suspended(q)
  BY <1>1, <1>2 DEF Sys, Suspended, Kept, Freed
<1>6. \A t \in Blocked(q) : t \in Blocked(r) /\ q.blkobj[t] = r.blkobj[t]
  BY <1>2 DEF Blocked, Kept, Freed
<1>7. Denied(Blocked(q), q.blkobj, r.live, r.owner, r.count, r.want, r.flags)
  <2>1. Denied(Blocked(r), r.blkobj, r.live, r.owner, r.count, r.want, r.flags)
    BY DEF Sys
  <2> QED
    BY <1>6, <2>1 DEF Denied
<1>8. Owns(r.mlist, r.live, r.owner, r.nested, q.state)
  <2>1. \A t \in All : r.state[t] # "DELETED" => q.state[t] # "DELETED"
    BY <1>2 DEF Kept, Freed
  <2>2. \A m \in Mutex : r.owner[m] # NULL => r.owner[m] \in All
    BY DEF Sys, Core, Lists, Typed, All
  <2>3. Owns(r.mlist, r.live, r.owner, r.nested, r.state)
    BY DEF Sys
  <2> QED
    BY <2>1, <2>2, <2>3 DEF Owns
<1>9. \A t \in All : r.state[t] = "RDY" => q.state[t] = "RDY"
  BY <1>2 DEF Kept, Freed
<1> QED
  BY <1>1, <1>2, <1>3, <1>4, <1>5, <1>7, <1>8, <1>9 DEF Sys


\* RHINO_CRITICAL_EXIT_SCHED: the caller may have lost the processor, unless it
\* holds a scheduler lock.
LEMMA ExitSched ==
  ASSUME NEW r, Sys(r), NEW q, q = exit_sched(r), r.lock # 0 => r.state[r.active] = "RDY"
  PROVE  Good(q)
<1>1. r.intr \in Nat /\ r.active \in All /\ IsK(r) /\ r.pc \in [All -> PC]
  BY DEF Sys, Types, Core, Lists, Typed
<1>2. CASE r.intr > 0
  <2>1. q = r
    BY <1>2 DEF exit_sched
  <2>2. r.intr # 0
    BY <1>1, <1>2
  <2> QED
    BY <2>1, <2>2 DEF Runs, Good
<1>3. CASE ~ (r.intr > 0)
  <2>1. q = [r EXCEPT !.pc[r.active] = "sched"]
    BY <1>3 DEF exit_sched
  <2>2. Same(q, r, {"pc"}) /\ q.pc = [r.pc EXCEPT ![r.active] = "sched"]
    BY <1>1, <2>1, FieldNames DEF Same, IsK
  <2>3. /\ q.active = r.active /\ q.lock = r.lock /\ q.intr = r.intr /\ q.susp = r.susp
        /\ q.slice = r.slice /\ q.total = r.total /\ q.policy = r.policy /\ q.live = r.live
        /\ q.nested = r.nested /\ q.count = r.count /\ q.flags = r.flags /\ q.want = r.want
        /\ q.wait = r.wait /\ q.arg = r.arg /\ q.actl = r.actl /\ q.msg = r.msg
        /\ q.state = r.state
    BY <2>2, FieldNames DEF Same
  <2>4. /\ q.pc \in [All -> PC] /\ q.pc[r.active] = "sched"
        /\ \A t \in All : q.pc[t] = "prichg" => r.pc[t] = "prichg"
    BY <1>1, <2>2 DEF PC
  <2>5. Types(q) /\ Args(q)
    BY <2>3, <2>4 DEF Sys, Types, Args
  <2>6. Same(q, r, QuietFields)
    BY <2>2 DEF Same, QuietFields
  <2>7. Sys(q)
    BY <1>1, <2>3, <2>5, <2>6, QuietSys
  <2> QED
    BY <2>3, <2>4, <2>7 DEF Runs, Good
<1> QED
  BY <1>2, <1>3

\* The same at the end of a service that has blocked its caller.
LEMMA ExitSchedPend ==
  ASSUME NEW r, Sys(r), r.lock = 0, NEW o \in Obj \cup {NULL}, NEW q, q = exit_sched_pend(r, o)
  PROVE  Good(q)
<1>1. /\ r.active \in All /\ IsK(r) /\ r.pc \in [All -> PC]
      /\ r.wait \in [All -> Obj \cup {NULL}]
  BY DEF Sys, Types, Core, Lists, Typed
<1>2. /\ Same(q, r, {"pc", "wait"}) /\ q.pc = [r.pc EXCEPT ![r.active] = "sched_pend"]
      /\ q.wait = [r.wait EXCEPT ![r.active] = o]
  BY ZenonT(30), <1>1, FieldNames DEF exit_sched_pend, Same, IsK
<1>3. /\ q.active = r.active /\ q.lock = r.lock /\ q.intr = r.intr /\ q.susp = r.susp
      /\ q.slice = r.slice /\ q.total = r.total /\ q.policy = r.policy /\ q.live = r.live
      /\ q.nested = r.nested /\ q.count = r.count /\ q.flags = r.flags /\ q.want = r.want
      /\ q.arg = r.arg /\ q.actl = r.actl /\ q.msg = r.msg /\ q.state = r.state
  BY <1>2, FieldNames DEF Same
<1>4. /\ q.pc \in [All -> PC] /\ q.pc[r.active] = "sched_pend"
      /\ \A t \in All : q.pc[t] = "prichg" => r.pc[t] = "prichg"
  BY <1>1, <1>2 DEF PC
<1>5. q.wait \in [All -> Obj \cup {NULL}]
  BY <1>1, <1>2
<1>6. Types(q) /\ Args(q)
  BY <1>3, <1>4, <1>5 DEF Sys, Types, Args
<1>7. Same(q, r, QuietFields)
  BY <1>2 DEF Same, QuietFields
<1>8. Sys(q)
  BY <1>1, <1>3, <1>6, <1>7, QuietSys
<1> QED
  BY <1>3, <1>4, <1>8 DEF Runs, Good

-----------------------------------------------------------------------------
(* Which of the tasks that wait a service serves.  The services on tasks,   *)
(* here, serve nobody, but for the deletion of a task that owns mutexes.    *)

\* the tasks that waited in r and have been served in q
Served(q, r) ==
    {t \in Blocked(r) : t \notin Blocked(q) /\ q.state[t] # "DELETED" /\ q.blkst[t] = "FINISH"}

\* who was served was told flags that meet its request, which are consumed, or nobody
\* more urgent waits for what it got
Deserved(q, r) ==
    \A t \in Served(q, r) : LET o == r.blkobj[t] IN
        /\ o \in Event => /\ Met(r.want[t], q.actl[t])
                          /\ r.want[t].clear => r.want[t].flags \cap q.flags[o] = {}
        /\ o \notin Event => \A x \in Blocked(q) : q.blkobj[x] = o => r.prio[t] <= r.prio[x]

\* Nobody is served if whoever stops waiting is deleted or told why it was in vain.
LEMMA NoneServed ==
  ASSUME NEW r, NEW q,
         \A t \in Blocked(r) : \/ q.state[t] \in {"PEND", "PEND_SUSPENDED", "DELETED"}
                               \/ q.blkst[t] # "FINISH"
  PROVE  Deserved(q, r)
  BY DEF Deserved, Served, Blocked

\* No state changes, or only that of tasks that do not wait.
LEMMA StateKept ==
  ASSUME NEW r, NEW q, \A t \in Blocked(r) : q.state[t] = r.state[t]
  PROVE  Deserved(q, r)
  BY NoneServed DEF Blocked

\* Who is served does not depend on the other fields.
LEMMA ServesSame ==
  ASSUME NEW r, NEW s, Deserved(s, r), NEW q, q.state = s.state, q.blkst = s.blkst,
         q.blkobj = s.blkobj, q.actl = s.actl, q.flags = s.flags
  PROVE  Deserved(q, r)
<1>1. Served(q, r) = Served(s, r) /\ Blocked(q) = Blocked(s)
  BY DEF Served, Blocked
<1> QED
  BY <1>1 DEF Deserved

\* The end of a service serves nobody.
LEMMA ExitServes ==
  ASSUME NEW r, NEW s, IsK(s), Deserved(s, r), NEW q,
         q = exit_sched(s) \/ \E o : q = exit_sched_pend(s, o)
  PROVE  Deserved(q, r)
<1>1. /\ q.state = s.state /\ q.blkst = s.blkst /\ q.blkobj = s.blkobj /\ q.actl = s.actl
      /\ q.flags = s.flags
  BY ZenonT(30), FieldNames DEF IsK, exit_sched, exit_sched_pend
<1>2. Served(q, r) = Served(s, r) /\ Blocked(q) = Blocked(s)
  BY <1>1 DEF Served, Blocked
<1> QED
  BY <1>1, <1>2 DEF Deserved

-----------------------------------------------------------------------------
(* k_sys.c, k_sched.c and k_time.c.                                         *)

\* The task the scheduler chooses is ready.
LEMMA Preferred ==
  ASSUME NEW r, Core(r)
  PROVE  LET u == preferred_cpu_ready_task_get(r) IN u \in All /\ r.state[u] = "RDY"
<1>1. /\ r.prio \in [All -> Prio] /\ Ready(r) \in SUBSET All /\ Ready(r) # {}
      /\ Rdy(r.rdy, r.hi, r.prio, Ready(r))
  BY DEF Core, Lists, Typed
<1>2. Head(r.rdy[r.hi]) \in Ready(r)
  BY <1>1, RdyFirst
<1> QED
  BY <1>2 DEF preferred_cpu_ready_task_get, Ready

\* A task that calls a service is ready and waits for nothing.
LEMMA Caller ==
  ASSUME NEW r, Good(r), NEW t \in All, r.intr = 0, r.active = t,
         r.pc[t] \in {"user", "pend", "prichg"}
  PROVE  /\ t \in Ready(r) /\ r.state[t] = "RDY" /\ t \notin Blocked(r)
         /\ t \notin ToSet(r.tickl)
<1>1. r.state[t] = "RDY"
  BY DEF Good, Runs
<1> QED
  BY <1>1 DEF Good, Sys, Waits, Timed, Ready, Blocked

\* the types of all fields
LEMMA AllTypes ==
  ASSUME NEW r, Sys(r)
  PROVE  /\ IsK(r) /\ r.active \in All /\ r.lock \in Nat /\ r.intr \in Nat
         /\ r.prio \in [All -> Prio] /\ r.bprio \in [All -> Prio]
         /\ r.state \in [All -> TaskState] /\ r.blkst \in [All -> BlkState]
         /\ r.blkobj \in [All -> Obj \cup {NULL}] /\ r.tick \in [All -> Nat]
         /\ r.owner \in [Mutex -> Task \cup {NULL}] /\ r.mlist \in [All -> Seq(Mutex)]
         /\ r.susp \in [All -> Nat] /\ r.slice \in [All -> Nat] /\ r.total \in [All -> Nat]
         /\ r.policy \in [All -> {"RR", "FIFO"}] /\ r.live \in [Obj -> BOOLEAN]
         /\ r.nested \in [Mutex -> Nat] /\ r.count \in [Sem -> Nat]
         /\ r.flags \in [Event -> SUBSET UNION SetFlags] /\ r.want \in [All -> Wants \cup {NULL}]
         /\ r.pc \in [All -> PC] /\ r.wait \in [All -> Obj \cup {NULL}]
         /\ r.arg \in [All -> [task : Task, pri : NewPris] \cup {NULL}]
<1>1. /\ IsK(r) /\ r.active \in All
      /\ r.prio \in [All -> Prio] /\ r.bprio \in [All -> Prio]
      /\ r.state \in [All -> TaskState] /\ r.blkst \in [All -> BlkState]
      /\ r.blkobj \in [All -> Obj \cup {NULL}] /\ r.tick \in [All -> Nat]
      /\ r.owner \in [Mutex -> Task \cup {NULL}] /\ r.mlist \in [All -> Seq(Mutex)]
  BY DEF Sys, Core, Lists, Typed
<1>2. r.lock \in Nat /\ r.intr \in Nat
  BY DEF Sys, Types
<1> QED
  BY <1>1, <1>2 DEF Sys, Types

\* core_sched ends in application code of the task it chose.
LEMMA CoreSched ==
  ASSUME Good(k), NEW t \in All, core_sched(t)
  PROVE  Good(k')
<1>0. Sys(k) /\ IsK(k) /\ k.pc \in [All -> PC] /\ k.lock \in Nat /\ Core(k)
  BY AllTypes DEF Good, Sys
<1>1. PICK u : u = IF k.lock > 0 THEN t ELSE preferred_cpu_ready_task_get(k)
  OBVIOUS
<1>2. u \in All /\ k.state[u] = "RDY"
  <2>1. CASE k.lock > 0
    <3>1. k.lock # 0 /\ u = k.active
      BY <1>0, <1>1, <2>1 DEF core_sched
    <3> QED
      BY <1>0, <1>1, <2>1, <3>1 DEF Good, Runs
  <2>2. CASE ~ (k.lock > 0)
    BY <1>0, <1>1, <2>2, Preferred
  <2> QED
    BY <2>1, <2>2
<1>3. /\ Same(k', k, {"active", "pc"}) /\ k'.active = u
      /\ k'.pc = [k.pc EXCEPT ![t] = IF k.pc[t] = "sched" THEN "user" ELSE "pend"]
  BY ZenonT(30), <1>0, <1>1, FieldNames DEF core_sched, Same, IsK
<1>4. k'.lock = k.lock /\ k'.intr = k.intr /\ k'.state = k.state /\ k'.arg = k.arg
  BY <1>3, FieldNames DEF Same
<1>5. /\ k'.pc \in [All -> PC]
      /\ \A x \in All : k'.pc[x] = "prichg" => k.pc[x] = "prichg"
  BY <1>0, <1>3 DEF PC
<1>6. Types(k') /\ Args(k')
  BY <1>0, <1>3, <1>4, <1>5, FieldNames DEF Sys, Types, Args, Same
<1>7. Same(k', k, QuietFields)
  BY <1>3 DEF Same, QuietFields
<1>8. Sys(k')
  BY <1>0, <1>2, <1>3, <1>6, <1>7, QuietSys
<1> QED
  BY <1>2, <1>3, <1>4, <1>8 DEF Good, Runs

\* The return of a call that blocked.
LEMMA PendStateEndProc ==
  ASSUME Good(k), NEW t \in All, pend_state_end_proc(t)
  PROVE  Good(k')
<1>0. /\ Sys(k) /\ IsK(k) /\ k.pc \in [All -> PC] /\ k.wait \in [All -> Obj \cup {NULL}]
      /\ k.want \in [All -> Wants \cup {NULL}] /\ Types(k)
  BY AllTypes DEF Good, Sys
<1>1. k.intr = 0 /\ k.active = t /\ k.pc[t] = "pend"
  BY DEF pend_state_end_proc
<1>2. t \notin Blocked(k) /\ k.state[t] = "RDY"
  BY <1>1, Caller
<1>3. /\ Same(k', k, {"pc", "wait", "msg", "want", "actl"})
      /\ k'.pc = [k.pc EXCEPT ![t] = "user"] /\ k'.wait = [k.wait EXCEPT ![t] = NULL]
      /\ k'.want = [k.want EXCEPT ![t] = NULL] /\ k'.msg = [k.msg EXCEPT ![t] = NULL]
      /\ k'.actl = [k.actl EXCEPT ![t] = {}]
  BY ZenonT(30), <1>0, FieldNames DEF pend_state_end_proc, Same, IsK
<1>4. /\ k'.want \in [All -> Wants \cup {NULL}] /\ \A x \in Blocked(k) : k'.want[x] = k.want[x]
      /\ k'.pc \in [All -> PC] /\ k'.wait \in [All -> Obj \cup {NULL}]
      /\ \A x \in All : k'.pc[x] = "prichg" => k.pc[x] = "prichg"
  BY <1>0, <1>2, <1>3 DEF Blocked, PC
<1>5. k'.msg = [x \in All |-> k'.msg[x]] /\ k'.actl = [x \in All |-> k'.actl[x]]
  BY <1>0, <1>3 DEF Types
<1>6. Types(k') /\ Args(k') /\ Suspended(k')
  BY SMTT(30), <1>0, <1>3, <1>4, <1>5, FieldNames DEF Sys, Types, Args, Suspended, Same
<1>7. /\ Same(k', k, StillFields) /\ k'.active = t /\ k'.live = k.live /\ k'.count = k.count
      /\ k'.flags = k.flags /\ k'.nested = k.nested /\ k'.state = k.state
  BY <1>1, <1>3, FieldNames DEF Same, StillFields, QuietFields
<1>8. Denied(Blocked(k), k.blkobj, k.live, k.owner, k.count, k'.want, k.flags)
  BY <1>0, <1>4 DEF Sys, Denied
<1>9. Owns(k.mlist, k.live, k.owner, k.nested, k.state)
  BY <1>0 DEF Sys
<1>10. Sys(k')
  BY <1>0, <1>6, <1>7, <1>8, <1>9, StillSys
<1> QED
  BY <1>2, <1>7, <1>10 DEF Good, Runs

\* krhino_sched_disable.
LEMMA SchedDisable ==
  ASSUME Good(k), NEW t \in Task, krhino_sched_disable(t)
  PROVE  Good(k')
<1>0. Sys(k) /\ IsK(k) /\ k.lock \in 0..MaxLock /\ MaxLock \in Nat /\ t \in All
  BY AllTypes, SchedAssumption DEF Good, Sys, Types, All
<1>1. k.intr = 0 /\ k.active = t /\ k.pc[t] = "user" /\ k.state[t] = "RDY"
  BY <1>0, Caller DEF krhino_sched_disable, Calls
<1>2. Same(k', k, {"lock"}) /\ k'.lock = k.lock + 1 /\ k.lock < MaxLock
  BY <1>0, FieldNames DEF krhino_sched_disable, Same, IsK
<1>3. k'.lock \in 0..MaxLock
  BY <1>0, <1>2
<1>4. Types(k') /\ Args(k')
  BY <1>0, <1>2, <1>3, FieldNames DEF Sys, Types, Args, Same
<1>5. Same(k', k, QuietFields) /\ k'.active = t /\ k'.state = k.state
  BY <1>1, <1>2, FieldNames DEF Same, QuietFields
<1>6. Sys(k')
  BY <1>0, <1>4, <1>5, QuietSys
<1> QED
  BY <1>1, <1>5, <1>6 DEF Good, Runs

\* krhino_sched_enable.
LEMMA SchedEnable ==
  ASSUME Good(k), NEW t \in Task, krhino_sched_enable(t)
  PROVE  Good(k')
<1>0. Sys(k) /\ IsK(k) /\ k.lock \in 0..MaxLock /\ MaxLock \in Nat /\ t \in All
  BY AllTypes, SchedAssumption DEF Good, Sys, Types, All
<1>1. k.intr = 0 /\ k.active = t /\ k.pc[t] = "user" /\ k.state[t] = "RDY" /\ k.lock > 0
  BY <1>0, Caller DEF krhino_sched_enable, Calls
<1>2. PICK s : s = [k EXCEPT !.lock = @ - 1]
  OBVIOUS
<1>3. Same(s, k, {"lock"}) /\ s.lock = k.lock - 1
  BY <1>0, <1>2, FieldNames DEF Same, IsK
<1>4. s.lock \in 0..MaxLock
  BY <1>0, <1>1, <1>3
<1>5. Types(s) /\ Args(s)
  BY <1>0, <1>3, <1>4, FieldNames DEF Sys, Types, Args, Same
<1>6. Same(s, k, QuietFields) /\ s.active = t /\ s.state = k.state
  BY <1>1, <1>3, FieldNames DEF Same, QuietFields
<1>7. Sys(s)
  BY <1>0, <1>5, <1>6, QuietSys
<1>8. k' = s \/ k' = exit_sched(s)
  BY <1>2 DEF krhino_sched_enable
<1> QED
  BY <1>1, <1>6, <1>7, <1>8, ExitSched DEF Good, Runs

\* krhino_intrpt_enter.
LEMMA IntrptEnter ==
  ASSUME Good(k), krhino_intrpt_enter
  PROVE  Good(k')
<1>0. Sys(k) /\ IsK(k) /\ k.intr \in 0..MaxIntr /\ MaxIntr \in Nat /\ k.active \in All
  BY AllTypes, SchedAssumption DEF Good, Sys, Types
<1>1. Same(k', k, {"intr"}) /\ k'.intr = k.intr + 1 /\ k.intr < MaxIntr
  BY <1>0, FieldNames DEF krhino_intrpt_enter, Same, IsK
<1>2. k'.intr \in 0..MaxIntr /\ k'.intr # 0
  BY <1>0, <1>1
<1>3. Types(k') /\ Args(k')
  BY <1>0, <1>1, <1>2, FieldNames DEF Sys, Types, Args, Same
<1>4. /\ Same(k', k, QuietFields) /\ k'.active = k.active /\ k'.state = k.state
      /\ k'.lock = k.lock /\ k'.pc = k.pc
  BY <1>1, FieldNames DEF Same, QuietFields
<1>5. Sys(k')
  BY <1>0, <1>3, <1>4, QuietSys
<1> QED
  BY <1>2, <1>4, <1>5 DEF Good, Runs

\* krhino_intrpt_exit: the outermost handler chooses the next task unless the
\* scheduler is locked, when the running task is ready.
LEMMA IntrptExit ==
  ASSUME Good(k), krhino_intrpt_exit
  PROVE  Good(k')
<1>0. /\ Sys(k) /\ IsK(k) /\ k.intr \in 0..MaxIntr /\ MaxIntr \in Nat /\ k.active \in All
      /\ k.lock \in Nat /\ k.intr > 0 /\ Core(k)
  BY AllTypes, SchedAssumption DEF Good, Sys, Types, krhino_intrpt_exit
<1>1. PICK u : u = IF k.intr > 1 \/ k.lock > 0 THEN k.active ELSE preferred_cpu_ready_task_get(k)
  OBVIOUS
<1>2. u \in All
  BY <1>0, <1>1, Preferred
<1>3. Same(k', k, {"intr", "active"}) /\ k'.intr = k.intr - 1 /\ k'.active = u
  BY ZenonT(30), <1>0, <1>1, FieldNames DEF krhino_intrpt_exit, Same, IsK
<1>4. k'.intr \in 0..MaxIntr
  BY <1>0, <1>3
<1>5. Types(k') /\ Args(k')
  BY <1>0, <1>3, <1>4, FieldNames DEF Sys, Types, Args, Same
<1>6. /\ Same(k', k, QuietFields) /\ k'.state = k.state /\ k'.lock = k.lock /\ k'.pc = k.pc
  BY <1>3, FieldNames DEF Same, QuietFields
<1>7. Sys(k')
  BY <1>0, <1>2, <1>3, <1>5, <1>6, QuietSys
<1>8. k.lock # 0 => k.state[u] = "RDY"
  BY <1>0, <1>1 DEF Good, Runs
<1>9. k.lock = 0 /\ k'.intr = 0 => k.state[u] = "RDY"
  <2>1. SUFFICES ASSUME k.lock = 0, k'.intr = 0
                 PROVE  k.state[u] = "RDY"
    OBVIOUS
  <2>2. ~ (k.intr > 1 \/ k.lock > 0)
    BY <1>0, <1>3, <2>1
  <2> QED
    BY <1>0, <1>1, <2>2, Preferred
<1> QED
  BY <1>3, <1>6, <1>7, <1>8, <1>9 DEF Good, Runs

\* Another order on a ready list keeps the invariant.
LEMMA RdySys ==
  ASSUME NEW r, Sys(r), NEW s, Lists(s, Ready(r), Blocked(r), ToSet(r.tickl)),
         Same(s, r, {"rdy"}), NEW q, Same(q, r, {"rdy", "slice"}), q.rdy = s.rdy,
         q.slice \in [All -> Nat]
  PROVE  Sys(q)
<1>1. /\ q.state = r.state /\ q.blkobj = r.blkobj /\ q.owner = r.owner /\ q.tickl = r.tickl
      /\ q.prio = r.prio /\ q.bprio = r.bprio /\ q.tick = r.tick /\ q.susp = r.susp
      /\ q.live = r.live /\ q.count = r.count /\ q.want = r.want /\ q.flags = r.flags
      /\ q.nested = r.nested /\ q.mlist = r.mlist /\ q.active = r.active /\ q.blk = r.blk
      /\ q.blkst = r.blkst
      /\ q.rdy = s.rdy /\ q.hi = s.hi /\ s.prio = r.prio /\ s.blkobj = r.blkobj
      /\ s.blk = r.blk /\ s.tick = r.tick /\ s.tickl = r.tickl
  BY FieldNames DEF Same
<1>2. Typed(q)
  BY <1>1 DEF Sys, Core, Lists, Typed, Same
<1>3. Ready(q) = Ready(r) /\ Blocked(q) = Blocked(r)
  BY <1>1 DEF Ready, Blocked
<1>4. Lists(q, Ready(r), Blocked(r), ToSet(r.tickl))
  BY <1>1, <1>2, ListsOff
<1>5. Core(q)
  BY <1>1, <1>3, <1>4 DEF Sys, Core
<1>6. Types(q) /\ Args(q) /\ Suspended(q)
  BY FieldNames DEF Sys, Types, Args, Same, Suspended
<1>7. Waits(q)
  BY <1>1 DEF Sys, Waits, Timed, TimeLeft
<1> QED
  BY <1>1, <1>3, <1>5, <1>6, <1>7 DEF Sys

\* time_slice_update turns a ready list round at most.
LEMMA TimeSlice ==
  ASSUME NEW r, Sys(r), NEW q, q = time_slice_update(r)
  PROVE  Sys(q) /\ Same(q, r, {"rdy", "slice"})
<1>0. /\ IsK(r) /\ r.slice \in [All -> Nat] /\ r.total \in [All -> Nat] /\ Core(r)
      /\ r.active \in All /\ r.prio \in [All -> Prio]
  BY AllTypes DEF Sys
<1>1. PICK l : l = r.rdy[r.prio[r.active]]
  OBVIOUS
<1>2. CASE l = <<>> \/ Len(l) = 1 \/ r.policy[Head(l)] = "FIFO"
  <2>1. q = r
    BY ZenonT(30), <1>1, <1>2 DEF time_slice_update
  <2> QED
    BY SMTT(30), <1>0, <2>1 DEF Same
<1>3. CASE ~ (l = <<>> \/ Len(l) = 1 \/ r.policy[Head(l)] = "FIFO")
  <2>1. /\ l \in Seq(All) /\ ToSet(l) \in SUBSET Ready(r)
        /\ Lists(r, Ready(r), Blocked(r), ToSet(r.tickl))
    BY <1>0, <1>1 DEF Core, Lists, Rdy
  <2>2. PICK h : h = Head(l)
    OBVIOUS
  <2>3. h \in Ready(r) /\ h \in All
    BY <1>3, <2>1, <2>2, ToSetDef, HeadTailProperties DEF Ready
  <2>4. PICK s, n : s \in {r, ready_list_head_to_tail(r, h)} /\ n \in Nat
                    /\ q = [s EXCEPT !.slice[h] = n]
    <3>1. PICK left : left = IF r.slice[h] > 0 THEN r.slice[h] - 1 ELSE 0
      OBVIOUS
    <3>2. left \in Nat
      BY <1>0, <2>3, <3>1
    <3>3. \/ q = [r EXCEPT !.slice[h] = left]
          \/ q = [ready_list_head_to_tail(r, h) EXCEPT !.slice[h] = r.total[h]]
      BY ZenonT(30), <1>1, <1>3, <2>2, <3>1 DEF time_slice_update
    <3> QED
      BY <1>0, <2>3, <3>2, <3>3
  <2>5. Lists(s, Ready(r), Blocked(r), ToSet(r.tickl)) /\ Same(s, r, {"rdy"})
    <3>1. CASE s = r
      BY <1>0, <2>1, <3>1 DEF Same
    <3>2. CASE s = ready_list_head_to_tail(r, h)
      BY <2>1, <2>3, <3>2, ListsRotate
    <3> QED
      BY <2>4, <3>1, <3>2
  <2>6. Same(q, s, {"slice"}) /\ q.slice = [r.slice EXCEPT ![h] = n]
    BY <2>4, <2>5, FieldNames DEF Same, IsK
  <2>7. Same(q, r, {"rdy", "slice"})
    BY <2>5, <2>6 DEF Same
  <2>8. q.rdy = s.rdy /\ q.slice \in [All -> Nat]
    BY <1>0, <2>4, <2>6, FieldNames DEF Same
  <2> QED
    BY <2>5, <2>7, <2>8, RdySys
<1> QED
  BY <1>2, <1>3

\* krhino_tick_proc.
LEMMA TickProc ==
  ASSUME Good(k), krhino_tick_proc
  PROVE  Good(k') /\ Deserved(k', k)
<1>0. Sys(k) /\ Core(k) /\ Timed(k) /\ TimeLeft(k) /\ k.active \in All
  BY AllTypes DEF Good, Sys, Waits
<1>1. Chains(k)
  BY <1>0 DEF Sys, Owns, Chains
<1>2. PICK s : s = tick_list_update(k, 1)
  OBVIOUS
<1>3. /\ Calm(s, k) /\ Same(s, k, EndFields)
      /\ \A t \in Blocked(k) : t \in Blocked(s) \/ s.blkst[t] = "TIMEOUT"
  BY <1>0, <1>1, <1>2, TickListUpdate
<1>4. /\ Sys(s) /\ s.active = k.active /\ s.lock = k.lock /\ s.intr = k.intr /\ s.pc = k.pc
      /\ \A t \in All : k.state[t] = "RDY" => s.state[t] = "RDY"
  BY <1>0, <1>3, CalmSys
<1>5. k' = time_slice_update(s)
  BY <1>2 DEF krhino_tick_proc
<1>6. Sys(k') /\ Same(k', s, {"rdy", "slice"})
  BY <1>4, <1>5, TimeSlice
<1>7. k'.active = s.active /\ k'.lock = s.lock /\ k'.intr = s.intr /\ k'.pc = s.pc
      /\ k'.state = s.state /\ k'.blkst = s.blkst
  BY <1>6, FieldNames DEF Same
<1>8. Deserved(k', k)
  <2>1. \A t \in Blocked(k) : k'.state[t] \in {"PEND", "PEND_SUSPENDED"} \/ k'.blkst[t] # "FINISH"
    BY <1>3, <1>7 DEF Blocked
  <2> QED
    BY <2>1, NoneServed
<1> QED
  BY <1>0, <1>4, <1>6, <1>7, <1>8 DEF Good, Runs

-----------------------------------------------------------------------------
(* Services that change what one task does.                                 *)

\* the lists and the tasks other than t do not depend on these fields
OneFields == EndFields \cup QuietFields \cup {"bprio", "susp", "want"}

\* the tasks other than t go on as before
Apart(q, r, t) ==
    \A x \in All \ {t} : Kept(q, r, x) /\ q.susp[x] = r.susp[x] /\ q.want[x] = r.want[x]

\* task t is where its state says
Alone(q, t) ==
    /\ t \in ToSet(q.tickl) => /\ q.state[t] \in {"SLEEP", "PEND", "SLEEP_SUSPENDED",
                                                  "PEND_SUSPENDED"}
                               /\ q.tick[t] # 0
    /\ q.state[t] \in {"SLEEP", "SLEEP_SUSPENDED"} => t \in ToSet(q.tickl)
    /\ q.state[t] \in {"SUSPENDED", "SLEEP_SUSPENDED", "PEND_SUSPENDED"} => q.susp[t] # 0
    /\ q.state[t] # "DELETED"

\* A service that changes what one task does keeps the invariant.
LEMMA OneSys ==
  ASSUME NEW r, Sys(r), NEW t \in Task, NEW q, Core(q), Types(q), Args(q),
         Same(q, r, OneFields), Apart(q, r, t), Alone(q, t),
         t \in Blocked(q) => Denied({t}, q.blkobj, r.live, r.owner, r.count, q.want, r.flags)
  PROVE  Sys(q)
<1>1. /\ q.live = r.live /\ q.owner = r.owner /\ q.count = r.count /\ q.flags = r.flags
      /\ q.mlist = r.mlist /\ q.nested = r.nested
  BY FieldNames DEF Same, OneFields, EndFields, WakeFields, PriFields, QuietFields
<1>2. ToSet(q.tickl) \subseteq All
  BY DEF Core, Lists, Tick, All
<1>3. Waits(q)
  <2>1. Timed(q) /\ TimeLeft(q)
    BY <1>2 DEF Sys, Waits, Timed, TimeLeft, Apart, Alone, Kept
  <2>2. \A x \in All : q.state[x] \in {"SLEEP", "SLEEP_SUSPENDED"} => x \in ToSet(q.tickl)
    BY DEF Sys, Waits, Apart, Alone, Kept
  <2> QED
    BY <2>1, <2>2 DEF Waits
<1>4. Suspended(q)
  BY DEF Sys, Suspended, Apart, Alone, Kept
<1>5. \A x \in Blocked(q) : x = t \/ (/\ x \in Blocked(r) /\ q.blkobj[x] = r.blkobj[x]
                                      /\ q.want[x] = r.want[x])
  BY DEF Blocked, Apart, Kept
<1>6. Denied(Blocked(q), q.blkobj, r.live, r.owner, r.count, q.want, r.flags)
  <2>1. Denied(Blocked(r), r.blkobj, r.live, r.owner, r.count, r.want, r.flags)
    BY DEF Sys
  <2> QED
    BY <1>5, <2>1 DEF Denied
<1>7. Owns(r.mlist, r.live, r.owner, r.nested, q.state)
  <2>1. \A x \in All : r.state[x] # "DELETED" => q.state[x] # "DELETED"
    BY DEF Apart, Alone, Kept
  <2>2. \A m \in Mutex : r.owner[m] # NULL => r.owner[m] \in All
    BY DEF Sys, Core, Lists, Typed, All
  <2>3. Owns(r.mlist, r.live, r.owner, r.nested, r.state)
    BY DEF Sys
  <2> QED
    BY <2>1, <2>2, <2>3 DEF Owns
<1> QED
  BY <1>1, <1>3, <1>4, <1>6, <1>7 DEF Sys

\* A service that blocks its caller on an object that is not to be had.
LEMMA BlockGood ==
  ASSUME NEW r, Sys(r), r.lock = 0, NEW t \in Task, r.active = t, r.state[t] = "RDY",
         NEW o \in Obj, NEW b, b = [r.blkobj EXCEPT ![t] = o],
         Denied({t}, b, r.live, r.owner, r.count, r.want, r.flags),
         NEW n \in (Nat \ {0}) \cup {WAIT_FOREVER}, NEW q,
         q = exit_sched_pend(pend_to_blk_obj(r, o, t, n), o)
  PROVE  Good(q)
<1>1. /\ Core(r) /\ t \in All /\ t \in Ready(r) /\ t \notin ToSet(r.tickl)
      /\ r.blkobj \in [All -> Obj \cup {NULL}] /\ r.state \in [All -> TaskState]
  BY AllTypes DEF Sys, All, Ready, Waits, Timed
<1>2. o \in Mutex => r.owner[o] \in Task
  <2>1. b[t] = o
    BY <1>1
  <2> QED
    BY <2>1 DEF Denied
<1>3. PICK s : s = pend_to_blk_obj(r, o, t, n)
  OBVIOUS
<1>4. Waiting(s, r, t, o)
  BY <1>1, <1>2, <1>3, PendToBlkObj
<1>5. /\ Core(s)
      /\ Same(s, r, {"rdy", "hi", "blk", "tick", "tickl", "state", "blkobj"})
      /\ s.state = [r.state EXCEPT ![t] = "PEND"]
      /\ s.blkobj = [r.blkobj EXCEPT ![t] = o]
      /\ ToSet(s.tickl) \in SUBSET (ToSet(r.tickl) \cup {t})
      /\ ToSet(r.tickl) \in SUBSET ToSet(s.tickl)
      /\ t \in ToSet(s.tickl) => s.tick[t] # 0
      /\ \A x \in All \ {t} : s.tick[x] = r.tick[x]
  BY <1>4 DEF Waiting
<1>6. /\ s.state[t] = "PEND" /\ s.blkobj[t] = o
      /\ \A x \in All \ {t} : s.state[x] = r.state[x] /\ s.blkobj[x] = r.blkobj[x]
  BY <1>1, <1>5
<1>7. s.susp = r.susp /\ s.want = r.want /\ s.lock = r.lock /\ s.blkst = r.blkst
  BY <1>5, FieldNames DEF Same
<1>8. Apart(s, r, t) /\ Alone(s, t)
  BY <1>5, <1>6, <1>7 DEF Apart, Alone, Kept
<1>9. Types(s) /\ Args(s)
  BY SMTT(30), <1>5, FieldNames DEF Sys, Types, Args, Same
<1>10. Same(s, r, OneFields)
  BY <1>5 DEF Same, OneFields, EndFields, WakeFields, PriFields
<1>11. Denied({t}, s.blkobj, r.live, r.owner, r.count, s.want, r.flags)
  BY <1>5, <1>7
<1>12. Sys(s)
  BY <1>5, <1>8, <1>9, <1>10, <1>11, OneSys
<1> QED
  BY <1>3, <1>7, <1>12, ExitSchedPend

-----------------------------------------------------------------------------
(* k_task.c.                                                                *)

\* krhino_task_sleep.
LEMMA TaskSleep ==
  ASSUME Good(k), NEW t \in Task, NEW n \in SleepTicks, krhino_task_sleep(t, n)
  PROVE  Good(k')
<1>0. /\ Sys(k) /\ Core(k) /\ IsK(k) /\ t \in All /\ k.state \in [All -> TaskState]
      /\ n \in Nat \ {0} /\ k.tick \in [All -> Nat] /\ k.lock = 0 /\ k.active = t
  BY AllTypes, TaskAssumption DEF Good, Sys, All, krhino_task_sleep, Calls
<1>1. t \in Ready(k) /\ k.state[t] = "RDY" /\ t \notin Blocked(k) /\ t \notin ToSet(k.tickl)
  BY <1>0, Caller DEF krhino_task_sleep, Calls
<1>2. PICK s1 : s1 = [k EXCEPT !.state[t] = "SLEEP"]
  OBVIOUS
<1>3. PICK s2 : s2 = tick_list_insert(s1, t, n)
  OBVIOUS
<1>4. PICK s : s = ready_list_rm(s2, t)
  OBVIOUS
<1>5. k' = exit_sched_pend(s, NULL)
  BY <1>2, <1>3, <1>4 DEF krhino_task_sleep
<1>6. Same(s1, k, {"state"}) /\ s1.state = [k.state EXCEPT ![t] = "SLEEP"]
  BY <1>0, <1>2, FieldNames DEF Same, IsK
<1>7. Lists(k, Ready(k), Blocked(k), ToSet(k.tickl)) /\ t # Idle
  BY <1>0, CoreAssumption DEF Core
<1>8. Lists(s1, Ready(k), Blocked(k), ToSet(k.tickl))
  <2>1. /\ s1.blkst = k.blkst /\ s1.blkobj = k.blkobj
        /\ Same(s1, k, {"state", "blkst", "blkobj"})
    BY <1>6, FieldNames DEF Same
  <2>2. s1.state \in [All -> TaskState]
    BY <1>0, <1>6 DEF TaskState
  <2>3. s1.blkst \in [All -> BlkState] /\ s1.blkobj \in [All -> Obj \cup {NULL}]
    BY <2>1, <1>0, AllTypes
  <2> QED
    BY <1>7, <2>1, <2>2, <2>3, ListsSet
<1>9. /\ Lists(s2, Ready(k), Blocked(k), ToSet(k.tickl) \cup {t})
      /\ Same(s2, s1, {"tick", "tickl"}) /\ s2.tick = [s1.tick EXCEPT ![t] = n]
  <2>1. n \in Nat
    BY <1>0
  <2> QED
    BY <1>1, <1>3, <1>8, <2>1, ListsTickInsert
<1>10. /\ Lists(s, Ready(k) \ {t}, Blocked(k), ToSet(k.tickl) \cup {t})
       /\ Same(s, s2, {"rdy", "hi"})
  BY <1>1, <1>4, <1>7, <1>9, ListsReadyRm
<1>11. Same(s, k, {"rdy", "hi", "tick", "tickl", "state"})
  BY <1>6, <1>9, <1>10 DEF Same
<1>12. s.state = [k.state EXCEPT ![t] = "SLEEP"] /\ s.tick = [k.tick EXCEPT ![t] = n]
  BY <1>6, <1>9, <1>10, FieldNames DEF Same
<1>13. s.blkobj = k.blkobj /\ s.owner = k.owner /\ s.susp = k.susp /\ s.want = k.want
       /\ s.lock = k.lock /\ s.blkst = k.blkst
  BY <1>11, FieldNames DEF Same
<1>14. Ready(s) = Ready(k) \ {t}
  BY <1>0, <1>12 DEF Ready
<1>15. Blocked(s) = Blocked(k)
  BY <1>0, <1>1, <1>12 DEF Blocked
<1>16. \A x \in Blocked(k) : s.blkobj[x] \in Mutex => s.owner[s.blkobj[x]] \in Task
  BY <1>0, <1>13 DEF Core
<1>17. Core(s) /\ ToSet(s.tickl) = ToSet(k.tickl) \cup {t}
  BY <1>10, <1>14, <1>15, <1>16, CoreOf
<1>18. Apart(s, k, t) /\ Alone(s, t)
  BY <1>0, <1>12, <1>13, <1>17 DEF Apart, Alone, Kept
<1>19. Types(s) /\ Args(s)
  BY <1>0, <1>11, FieldNames DEF Sys, Types, Args, Same
<1>20. Same(s, k, OneFields)
  BY <1>11 DEF Same, OneFields, EndFields, WakeFields, PriFields
<1>21. Sys(s)
  BY <1>0, <1>1, <1>15, <1>17, <1>18, <1>19, <1>20, OneSys
<1> QED
  BY <1>0, <1>5, <1>13, <1>21, ExitSchedPend

\* krhino_task_yield.
LEMMA TaskYield ==
  ASSUME Good(k), NEW t \in Task, krhino_task_yield(t)
  PROVE  Good(k')
<1>0. /\ Sys(k) /\ t \in All /\ Core(k) /\ k.active = t /\ k.slice \in [All -> Nat]
  BY AllTypes DEF Good, Sys, All, krhino_task_yield, Calls
<1>1. t \in Ready(k) /\ k.state[t] = "RDY"
  BY <1>0, Caller DEF krhino_task_yield, Calls
<1>2. PICK s : s = ready_list_head_to_tail(k, t)
  OBVIOUS
<1>3. Lists(k, Ready(k), Blocked(k), ToSet(k.tickl))
  BY <1>0 DEF Core
<1>4. Lists(s, Ready(k), Blocked(k), ToSet(k.tickl)) /\ Same(s, k, {"rdy"})
  BY <1>1, <1>2, <1>3, ListsRotate
<1>5. s.slice = k.slice /\ s.active = k.active /\ s.state = k.state
  BY <1>4, FieldNames DEF Same
<1>6. Same(s, k, {"rdy", "slice"})
  BY <1>4 DEF Same
<1>7. Sys(s)
  BY <1>0, <1>4, <1>5, <1>6, RdySys
<1>8. k' = exit_sched(s)
  BY <1>2 DEF krhino_task_yield
<1> QED
  BY <1>0, <1>1, <1>5, <1>7, <1>8, ExitSched

\* krhino_task_time_slice_set.
LEMMA TimeSliceSet ==
  ASSUME Good(k), NEW t \in Task, NEW u \in Task, NEW n \in Slices,
         krhino_task_time_slice_set(t, u, n)
  PROVE  Good(k')
<1>0. /\ Sys(k) /\ IsK(k) /\ k.active \in All /\ k.slice \in [All -> Nat]
      /\ k.total \in [All -> Nat] /\ u \in All
  BY AllTypes DEF Good, All
<1>1. PICK v : v = IF n > 0 THEN n ELSE Slice
  OBVIOUS
<1>2. v \in Nat
  BY <1>1, TaskAssumption, SchedAssumption
<1>3. /\ Same(k', k, {"slice", "total"}) /\ k'.slice = [k.slice EXCEPT ![u] = v]
      /\ k'.total = [k.total EXCEPT ![u] = v]
  BY ZenonT(30), <1>0, <1>1, FieldNames DEF krhino_task_time_slice_set, Same, IsK
<1>4. k'.slice \in [All -> Nat] /\ k'.total \in [All -> Nat]
  BY <1>0, <1>2, <1>3
<1>5. Types(k') /\ Args(k')
  BY <1>0, <1>3, <1>4, FieldNames DEF Sys, Types, Args, Same
<1>6. /\ Same(k', k, QuietFields) /\ k'.active = k.active /\ k'.state = k.state
      /\ k'.lock = k.lock /\ k'.pc = k.pc /\ k'.intr = k.intr
  BY <1>3, FieldNames DEF Same, QuietFields
<1>7. Sys(k')
  BY <1>0, <1>5, <1>6, QuietSys
<1> QED
  BY <1>6, <1>7 DEF Good

\* krhino_sched_policy_set.
LEMMA PolicySet ==
  ASSUME Good(k), NEW t \in Task, NEW u \in Task, NEW p \in {"RR", "FIFO"},
         krhino_sched_policy_set(t, u, p)
  PROVE  Good(k')
<1>0. /\ Sys(k) /\ IsK(k) /\ k.active \in All /\ k.policy \in [All -> {"RR", "FIFO"}]
  BY AllTypes DEF Good
<1>1. Same(k', k, {"policy"}) /\ k'.policy = [k.policy EXCEPT ![u] = p]
  BY <1>0, FieldNames DEF krhino_sched_policy_set, Same, IsK
<1>2. k'.policy \in [All -> {"RR", "FIFO"}]
  BY <1>0, <1>1
<1>3. Types(k') /\ Args(k')
  BY <1>0, <1>1, <1>2, FieldNames DEF Sys, Types, Args, Same
<1>4. /\ Same(k', k, QuietFields) /\ k'.active = k.active /\ k'.state = k.state
      /\ k'.lock = k.lock /\ k'.pc = k.pc /\ k'.intr = k.intr
  BY <1>1, FieldNames DEF Same, QuietFields
<1>5. Sys(k')
  BY <1>0, <1>3, <1>4, QuietSys
<1> QED
  BY <1>4, <1>5 DEF Good

\* a and b differ in the suspension at most
Flip(a, b) == \/ a = b
              \/ {a, b} = {"SLEEP", "SLEEP_SUSPENDED"}
              \/ {a, b} = {"PEND", "PEND_SUSPENDED"}

\* A task that is not ready is suspended or resumed.
LEMMA FlipSys ==
  ASSUME NEW r, Sys(r), NEW u \in Task, NEW st \in TaskState \ {"DELETED"}, NEW n \in Nat, NEW q,
         Same(q, r, {"state", "susp"}), q.state = [r.state EXCEPT ![u] = st],
         q.susp = [r.susp EXCEPT ![u] = n], Flip(r.state[u], st), r.state[u] # "RDY",
         st \in {"SUSPENDED", "SLEEP_SUSPENDED", "PEND_SUSPENDED"} => n # 0
  PROVE  Sys(q)
<1>0. /\ IsK(r) /\ u \in All /\ r.state \in [All -> TaskState] /\ r.susp \in [All -> Nat]
      /\ Core(r)
  BY AllTypes DEF Sys, All
<1>1. /\ q.state[u] = st /\ q.susp[u] = n
      /\ \A x \in All \ {u} : q.state[x] = r.state[x] /\ q.susp[x] = r.susp[x]
  BY <1>0
<1>2. /\ st = "RDY" <=> r.state[u] = "RDY"
      /\ st \in {"PEND", "PEND_SUSPENDED"} <=> r.state[u] \in {"PEND", "PEND_SUSPENDED"}
      /\ st \in {"SLEEP", "SLEEP_SUSPENDED"} <=> r.state[u] \in {"SLEEP", "SLEEP_SUSPENDED"}
  BY DEF Flip
<1>3. Ready(q) = Ready(r)
  BY <1>1, <1>2 DEF Ready
<1>4. Blocked(q) = Blocked(r)
  BY <1>1, <1>2 DEF Blocked
<1>5. /\ q.blkobj = r.blkobj /\ q.want = r.want /\ q.tickl = r.tickl /\ q.tick = r.tick
      /\ q.active = r.active /\ q.prio = r.prio /\ q.bprio = r.bprio /\ q.owner = r.owner
      /\ q.mlist = r.mlist /\ q.blkst = r.blkst /\ q.rdy = r.rdy /\ q.hi = r.hi /\ q.blk = r.blk
  BY FieldNames DEF Same
<1>6. q.state \in [All -> TaskState] /\ q.susp \in [All -> Nat]
  BY <1>0
<1>7. Typed(q)
  BY <1>0, <1>5, <1>6 DEF Core, Lists, Typed, Same
<1>8. Core(q)
  BY <1>0, <1>3, <1>4, <1>5, <1>7 DEF Core, Lists
<1>9. Apart(q, r, u)
  BY <1>1, <1>5 DEF Apart, Kept
<1>10. Alone(q, u)
  BY <1>0, <1>1, <1>2, <1>5 DEF Alone, Sys, Waits, Timed, TimeLeft
<1>11. Types(q) /\ Args(q)
  BY <1>6, FieldNames DEF Sys, Types, Args, Same
<1>12. Same(q, r, OneFields)
  BY DEF Same, OneFields, EndFields, WakeFields
<1>13. u \in Blocked(q) => Denied({u}, q.blkobj, r.live, r.owner, r.count, q.want, r.flags)
  BY <1>4, <1>5 DEF Sys, Denied
<1> QED
  BY <1>8, <1>9, <1>10, <1>11, <1>12, <1>13, OneSys

\* A ready task is suspended.
LEMMA SuspendSys ==
  ASSUME NEW r, Sys(r), NEW u \in Task, r.state[u] = "RDY", NEW s, Same(s, r, {"state", "susp"}),
         s.state = [r.state EXCEPT ![u] = "SUSPENDED"], s.susp = [r.susp EXCEPT ![u] = 1],
         NEW q, q = ready_list_rm(s, u)
  PROVE  Sys(q) /\ Same(q, r, {"rdy", "hi", "state", "susp"}) /\ q.state = s.state
<1>0. /\ IsK(r) /\ u \in All /\ r.state \in [All -> TaskState] /\ r.susp \in [All -> Nat]
      /\ Core(r) /\ u # Idle /\ u \in Ready(r)
  BY AllTypes, CoreAssumption DEF Sys, All, Ready
<1>1. /\ s.blkobj = r.blkobj /\ s.want = r.want /\ s.tickl = r.tickl /\ s.tick = r.tick
      /\ s.active = r.active /\ s.prio = r.prio /\ s.bprio = r.bprio /\ s.owner = r.owner
      /\ s.mlist = r.mlist /\ s.blkst = r.blkst /\ s.rdy = r.rdy /\ s.hi = r.hi /\ s.blk = r.blk
  BY FieldNames DEF Same
<1>2. s.state \in [All -> TaskState] /\ s.susp \in [All -> Nat]
  BY <1>0 DEF TaskState
<1>3. Typed(s)
  BY <1>0, <1>1, <1>2 DEF Core, Lists, Typed, Same
<1>4. Lists(s, Ready(r), Blocked(r), ToSet(r.tickl))
  BY <1>0, <1>1, <1>3 DEF Core, Lists
<1>5. Lists(q, Ready(r) \ {u}, Blocked(r), ToSet(r.tickl)) /\ Same(q, s, {"rdy", "hi"})
  BY <1>0, <1>4, ListsReadyRm
<1>6. /\ Same(q, r, {"rdy", "hi", "state", "susp"}) /\ q.state = s.state /\ q.susp = s.susp
      /\ q.blkobj = r.blkobj /\ q.want = r.want /\ q.tickl = r.tickl /\ q.tick = r.tick
      /\ q.owner = r.owner /\ q.blkst = r.blkst
  BY <1>1, <1>5, FieldNames DEF Same
<1>7. /\ q.state[u] = "SUSPENDED" /\ q.susp[u] = 1
      /\ \A x \in All \ {u} : q.state[x] = r.state[x] /\ q.susp[x] = r.susp[x]
  BY <1>0, <1>6
<1>8. Ready(q) = Ready(r) \ {u}
  BY <1>7 DEF Ready
<1>9. Blocked(q) = Blocked(r)
  BY <1>7 DEF Blocked
<1>10. Core(q)
  BY <1>0, <1>5, <1>6, <1>8, <1>9 DEF Core
<1>11. Apart(q, r, u)
  BY <1>6, <1>7 DEF Apart, Kept
<1>12. Alone(q, u)
  BY <1>0, <1>6, <1>7 DEF Alone, Sys, Waits, Timed
<1>13. q.susp \in [All -> Nat]
  BY <1>2, <1>6
<1>14. Types(q) /\ Args(q)
  BY SMTT(30), <1>6, <1>13, FieldNames DEF Sys, Types, Args, Same
<1>15. Same(q, r, OneFields)
  BY <1>6 DEF Same, OneFields, EndFields, WakeFields
<1>16. u \notin Blocked(q)
  BY <1>7 DEF Blocked
<1> QED
  BY <1>6, <1>10, <1>11, <1>12, <1>14, <1>15, <1>16, OneSys

\* krhino_task_suspend.
LEMMA TaskSuspend ==
  ASSUME Good(k), NEW u \in Task, krhino_task_suspend(u)
  PROVE  Good(k')
<1>0. /\ Sys(k) /\ IsK(k) /\ k.active \in All /\ k.lock \in Nat /\ k.intr \in Nat /\ u \in All
      /\ k.state \in [All -> TaskState] /\ k.susp \in [All -> Nat]
  BY AllTypes DEF Good, All
<1>1. k.lock # 0 => k.state[k.active] = "RDY" /\ u # k.active
  BY <1>0 DEF Good, Runs, krhino_task_suspend
<1>2. CASE /\ k.state[u] = "RDY"
           /\ k' = exit_sched(ready_list_rm([k EXCEPT !.susp[u] = 1,
                                                      !.state[u] = "SUSPENDED"], u))
  <2>1. PICK s : s = [k EXCEPT !.susp[u] = 1, !.state[u] = "SUSPENDED"]
    OBVIOUS
  <2>2. /\ Same(s, k, {"state", "susp"}) /\ s.state = [k.state EXCEPT ![u] = "SUSPENDED"]
        /\ s.susp = [k.susp EXCEPT ![u] = 1]
    BY ZenonT(30), <1>0, <2>1, FieldNames DEF Same, IsK
  <2>3. PICK q : q = ready_list_rm(s, u)
    OBVIOUS
  <2>4. Sys(q) /\ Same(q, k, {"rdy", "hi", "state", "susp"}) /\ q.state = s.state
    BY <1>0, <1>2, <2>2, <2>3, SuspendSys
  <2>5. q.lock = k.lock /\ q.active = k.active
    BY <2>4, FieldNames DEF Same
  <2>6. q.lock # 0 => q.state[q.active] = "RDY"
    BY <1>0, <1>1, <2>2, <2>4, <2>5
  <2> QED
    BY <1>2, <2>1, <2>3, <2>4, <2>6, ExitSched
<1>3. ASSUME NEW st \in TaskState \ {"DELETED"}, NEW n \in Nat, NEW q, Same(q, k, {"state", "susp"}),
             q.state = [k.state EXCEPT ![u] = st], q.susp = [k.susp EXCEPT ![u] = n],
             Flip(k.state[u], st), k.state[u] # "RDY",
             st \in {"SUSPENDED", "SLEEP_SUSPENDED", "PEND_SUSPENDED"} => n # 0,
             k' = exit_sched(q)
      PROVE  Good(k')
  <2>1. Sys(q)
    BY <1>0, <1>3, FlipSys
  <2>2. q.lock = k.lock /\ q.active = k.active
    BY <1>3, FieldNames DEF Same
  <2>3. q.lock # 0 => q.state[q.active] = "RDY"
    BY <1>0, <1>1, <1>3, <2>2
  <2> QED
    BY <1>3, <2>1, <2>3, ExitSched
<1>4. CASE /\ k.state[u] \in {"SLEEP", "PEND"}
           /\ k' = exit_sched([k EXCEPT !.susp[u] = 1, !.state[u] =
                         IF @ = "SLEEP" THEN "SLEEP_SUSPENDED" ELSE "PEND_SUSPENDED"])
  <2>1. PICK st : st = IF k.state[u] = "SLEEP" THEN "SLEEP_SUSPENDED" ELSE "PEND_SUSPENDED"
    OBVIOUS
  <2>2. PICK q : q = [k EXCEPT !.susp[u] = 1, !.state[u] = st]
    OBVIOUS
  <2>3. /\ Same(q, k, {"state", "susp"}) /\ q.state = [k.state EXCEPT ![u] = st]
        /\ q.susp = [k.susp EXCEPT ![u] = 1]
    BY ZenonT(30), <1>0, <2>2, FieldNames DEF Same, IsK
  <2>4. st \in TaskState \ {"DELETED"} /\ Flip(k.state[u], st) /\ k.state[u] # "RDY"
    BY <1>4, <2>1 DEF TaskState, Flip
  <2>5. k' = exit_sched(q)
    <3>1. q = [k EXCEPT !.susp[u] = 1, !.state[u] =
                         IF @ = "SLEEP" THEN "SLEEP_SUSPENDED" ELSE "PEND_SUSPENDED"]
      BY <2>1, <2>2
    <3> QED
      BY <1>4, <3>1
  <2> QED
    BY <1>3, <2>3, <2>4, <2>5
<1>5. CASE /\ k.state[u] \in {"SUSPENDED", "SLEEP_SUSPENDED", "PEND_SUSPENDED"}
           /\ k' = exit_sched([k EXCEPT !.susp[u] = @ + 1])
  <2>1. PICK n : n = k.susp[u] + 1
    OBVIOUS
  <2>2. n \in Nat /\ n # 0
    BY <1>0, <2>1
  <2>3. PICK q : q = [k EXCEPT !.susp[u] = n]
    OBVIOUS
  <2>4. Same(q, k, {"susp"}) /\ q.susp = [k.susp EXCEPT ![u] = n]
    BY <1>0, <2>3, FieldNames DEF Same, IsK
  <2>5. Same(q, k, {"state", "susp"}) /\ q.state = k.state
    BY <2>4, FieldNames DEF Same
  <2>6. q.state = [k.state EXCEPT ![u] = k.state[u]]
    BY <1>0, <2>5
  <2>7. /\ k.state[u] \in TaskState \ {"DELETED"} /\ k.state[u] # "RDY"
        /\ Flip(k.state[u], k.state[u])
    BY <1>5 DEF TaskState, Flip
  <2>8. k' = exit_sched(q)
    BY <1>5, <2>1, <2>3
  <2> QED
    BY <1>3, <2>2, <2>4, <2>5, <2>6, <2>7, <2>8
<1> QED
  BY <1>2, <1>4, <1>5 DEF krhino_task_suspend

\* A suspended task that waits for nothing is made ready.
LEMMA ResumeSys ==
  ASSUME NEW r, Sys(r), NEW u \in Task, r.state[u] = "SUSPENDED", NEW n \in Nat, NEW s,
         Same(s, r, {"state", "susp"}), s.state = [r.state EXCEPT ![u] = "RDY"],
         s.susp = [r.susp EXCEPT ![u] = n], NEW q, q = ready_list_add(s, u)
  PROVE  Sys(q) /\ Same(q, r, {"rdy", "hi", "state", "susp"}) /\ q.state = s.state
<1>0. /\ IsK(r) /\ u \in All /\ r.state \in [All -> TaskState] /\ r.susp \in [All -> Nat]
      /\ Core(r) /\ u \notin Ready(r)
  BY AllTypes DEF Sys, All, Ready
<1>1. /\ s.blkobj = r.blkobj /\ s.want = r.want /\ s.tickl = r.tickl /\ s.tick = r.tick
      /\ s.active = r.active /\ s.prio = r.prio /\ s.bprio = r.bprio /\ s.owner = r.owner
      /\ s.mlist = r.mlist /\ s.blkst = r.blkst /\ s.rdy = r.rdy /\ s.hi = r.hi /\ s.blk = r.blk
  BY FieldNames DEF Same
<1>2. s.state \in [All -> TaskState] /\ s.susp \in [All -> Nat]
  BY <1>0 DEF TaskState
<1>3. Typed(s)
  BY <1>0, <1>1, <1>2 DEF Core, Lists, Typed, Same
<1>4. Lists(s, Ready(r), Blocked(r), ToSet(r.tickl))
  BY <1>0, <1>1, <1>3 DEF Core, Lists
<1>5. Lists(q, Ready(r) \cup {u}, Blocked(r), ToSet(r.tickl)) /\ Same(q, s, {"rdy", "hi"})
  BY <1>0, <1>4, ListsReadyAdd
<1>6. /\ Same(q, r, {"rdy", "hi", "state", "susp"}) /\ q.state = s.state /\ q.susp = s.susp
      /\ q.blkobj = r.blkobj /\ q.want = r.want /\ q.tickl = r.tickl /\ q.tick = r.tick
      /\ q.owner = r.owner /\ q.blkst = r.blkst
  BY <1>1, <1>5, FieldNames DEF Same
<1>7. /\ q.state[u] = "RDY"
      /\ \A x \in All \ {u} : q.state[x] = r.state[x] /\ q.susp[x] = r.susp[x]
  BY <1>0, <1>6
<1>8. Ready(q) = Ready(r) \cup {u}
  BY <1>0, <1>7 DEF Ready
<1>9. Blocked(q) = Blocked(r)
  BY <1>7 DEF Blocked
<1>10. Core(q)
  BY <1>0, <1>5, <1>6, <1>8, <1>9 DEF Core
<1>11. Apart(q, r, u)
  BY <1>6, <1>7 DEF Apart, Kept
<1>12. Alone(q, u)
  BY <1>0, <1>6, <1>7 DEF Alone, Sys, Waits, Timed
<1>13. q.susp \in [All -> Nat]
  BY <1>2, <1>6
<1>14. Types(q) /\ Args(q)
  BY SMTT(30), <1>6, <1>13, FieldNames DEF Sys, Types, Args, Same
<1>15. Same(q, r, OneFields)
  BY <1>6 DEF Same, OneFields, EndFields, WakeFields
<1>16. u \notin Blocked(q)
  BY <1>7 DEF Blocked
<1> QED
  BY <1>6, <1>10, <1>11, <1>12, <1>14, <1>15, <1>16, OneSys

\* A service that keeps who is ready ends.
LEMMA ReadyGood ==
  ASSUME NEW r, Good(r), NEW s, Sys(s), s.active = r.active, s.lock = r.lock,
         \A x \in All : r.state[x] = "RDY" => s.state[x] = "RDY", NEW q, q = exit_sched(s)
  PROVE  Good(q)
<1>1. r.active \in All
  BY AllTypes DEF Good
<1>2. s.lock # 0 => s.state[s.active] = "RDY"
  BY <1>1 DEF Good, Runs
<1> QED
  BY <1>2, ExitSched

\* A service that wakes tasks and changes priorities ends.
LEMMA CalmGood ==
  ASSUME NEW r, Good(r), NEW s, Calm(s, r), Same(s, r, EndFields), NEW q, q = exit_sched(s)
  PROVE  Good(q)
<1>1. Sys(r)
  BY DEF Good
<1>2. /\ Sys(s) /\ s.active = r.active /\ s.lock = r.lock
      /\ \A x \in All : r.state[x] = "RDY" => s.state[x] = "RDY"
  BY <1>1, CalmSys
<1> QED
  BY <1>2, ReadyGood

\* krhino_task_resume.
LEMMA TaskResume ==
  ASSUME Good(k), NEW u \in Task, krhino_task_resume(u)
  PROVE  Good(k')
<1>0. /\ Sys(k) /\ IsK(k) /\ u \in All /\ k.state \in [All -> TaskState] /\ k.susp \in [All -> Nat]
      /\ k.state[u] \in {"SUSPENDED", "SLEEP_SUSPENDED", "PEND_SUSPENDED"}
  BY AllTypes DEF Good, All, krhino_task_resume
<1>1. PICK n : n = k.susp[u] - 1
  OBVIOUS
<1>2. n \in Nat
  BY <1>0, <1>1 DEF Sys, Suspended
<1>3. PICK k1 : k1 = [k EXCEPT !.susp[u] = @ - 1]
  OBVIOUS
<1>4. Same(k1, k, {"susp"}) /\ k1.susp = [k.susp EXCEPT ![u] = n]
  BY <1>0, <1>1, <1>3, FieldNames DEF Same, IsK
<1>5. k1.susp[u] = n /\ k1.state = k.state /\ IsK(k1) /\ k1.lock = k.lock /\ k1.active = k.active
  BY <1>0, <1>4, FieldNames DEF Same
<1>6. ASSUME NEW st \in TaskState \ {"DELETED"}, NEW q, Same(q, k, {"state", "susp"}),
             q.state = [k.state EXCEPT ![u] = st], q.susp = [k.susp EXCEPT ![u] = n],
             Flip(k.state[u], st),
             st \in {"SUSPENDED", "SLEEP_SUSPENDED", "PEND_SUSPENDED"} => n # 0,
             k' = exit_sched(q)
      PROVE  Good(k')
  <2>1. Sys(q)
    BY <1>0, <1>2, <1>6, FlipSys
  <2>2. q.lock = k.lock /\ q.active = k.active
    BY <1>6, FieldNames DEF Same
  <2>3. \A x \in All : k.state[x] = "RDY" => q.state[x] = "RDY"
    BY <1>0, <1>6
  <2> QED
    BY <1>6, <2>1, <2>2, <2>3, ReadyGood
<1>7. CASE k1.susp[u] > 0
  <2>1. k' = exit_sched(k1)
    BY <1>3, <1>7 DEF krhino_task_resume
  <2>2. Same(k1, k, {"state", "susp"})
    BY <1>4 DEF Same
  <2>3. k1.state = [k.state EXCEPT ![u] = k.state[u]]
    BY <1>0, <1>5
  <2>4. k.state[u] \in TaskState \ {"DELETED"} /\ Flip(k.state[u], k.state[u]) /\ n # 0
    BY <1>0, <1>5, <1>7 DEF TaskState, Flip
  <2> QED
    BY <1>4, <1>6, <2>1, <2>2, <2>3, <2>4
<1>8. CASE ~ (k1.susp[u] > 0)
  <2>1. CASE k.state[u] = "SUSPENDED"
    <3>1. PICK s : s = [k1 EXCEPT !.state[u] = "RDY"]
      OBVIOUS
    <3>2. Same(s, k1, {"state"}) /\ s.state = [k1.state EXCEPT ![u] = "RDY"]
      BY <1>5, <3>1, FieldNames DEF Same, IsK
    <3>3. Same(s, k, {"state", "susp"}) /\ s.susp = k1.susp
      BY <1>4, <3>2, FieldNames DEF Same
    <3>4. PICK q : q = ready_list_add(s, u)
      OBVIOUS
    <3>5. Sys(q) /\ Same(q, k, {"rdy", "hi", "state", "susp"}) /\ q.state = s.state
      BY <1>0, <1>2, <1>4, <1>5, <2>1, <3>2, <3>3, <3>4, ResumeSys
    <3>6. q.lock = k.lock /\ q.active = k.active
      BY <3>5, FieldNames DEF Same
    <3>7. \A x \in All : k.state[x] = "RDY" => q.state[x] = "RDY"
      BY <1>0, <1>5, <3>2, <3>5
    <3>8. k' = exit_sched(q)
      BY <1>3, <1>8, <2>1, <3>1, <3>4 DEF krhino_task_resume
    <3> QED
      BY <3>5, <3>6, <3>7, <3>8, ReadyGood
  <2>2. CASE k.state[u] # "SUSPENDED"
    <3>1. PICK st : st = IF k.state[u] = "SLEEP_SUSPENDED" THEN "SLEEP" ELSE "PEND"
      OBVIOUS
    <3>2. PICK q : q = [k1 EXCEPT !.state[u] = st]
      OBVIOUS
    <3>3. Same(q, k1, {"state"}) /\ q.state = [k1.state EXCEPT ![u] = st]
      BY <1>5, <3>2, FieldNames DEF Same, IsK
    <3>4. Same(q, k, {"state", "susp"}) /\ q.susp = k1.susp
      BY <1>4, <3>3, FieldNames DEF Same
    <3>5. st \in TaskState \ {"DELETED"} /\ Flip(k.state[u], st)
          /\ st \notin {"SUSPENDED", "SLEEP_SUSPENDED", "PEND_SUSPENDED"}
      BY <1>0, <2>2, <3>1 DEF TaskState, Flip
    <3>6. k' = exit_sched(q)
      <4>1. CASE k.state[u] = "SLEEP_SUSPENDED"
        BY <1>3, <1>8, <3>1, <3>2, <4>1 DEF krhino_task_resume
      <4>2. CASE k.state[u] = "PEND_SUSPENDED"
        BY <1>3, <1>8, <3>1, <3>2, <4>2 DEF krhino_task_resume
      <4> QED
        BY <1>0, <2>2, <4>1, <4>2
    <3> QED
      BY <1>4, <1>5, <1>6, <3>3, <3>4, <3>5, <3>6
  <2> QED
    BY <2>1, <2>2
<1> QED
  BY <1>7, <1>8

\* the checks of krhino_task_pri_change.
LEMMA PriChangeCheck ==
  ASSUME Good(k), NEW t \in Task, NEW u \in Task, NEW p \in NewPris, pri_change_check(t, u, p)
  PROVE  Good(k')
<1>0. /\ Sys(k) /\ IsK(k) /\ t \in All /\ k.pc \in [All -> PC] /\ k.active = t
      /\ k.arg \in [All -> [task : Task, pri : NewPris] \cup {NULL}]
  BY AllTypes DEF Good, All, pri_change_check, Calls
<1>1. k.state[t] = "RDY"
  BY <1>0, Caller DEF pri_change_check, Calls
<1>2. PICK a : a = [task |-> u, pri |-> p]
  OBVIOUS
<1>3. a \in [task : Task, pri : NewPris]
  BY <1>2
<1>4. /\ Same(k', k, {"pc", "arg"}) /\ k'.pc = [k.pc EXCEPT ![t] = "prichg"]
      /\ k'.arg = [k.arg EXCEPT ![t] = a]
  BY ZenonT(30), <1>0, <1>2, FieldNames DEF pri_change_check, Same, IsK
<1>5. k'.pc \in [All -> PC] /\ k'.arg \in [All -> [task : Task, pri : NewPris] \cup {NULL}]
  BY <1>0, <1>3, <1>4 DEF PC
<1>7. Args(k')
  BY <1>0, <1>3, <1>4 DEF Sys, Args
<1>8. Types(k')
  BY <1>0, <1>4, <1>5, FieldNames DEF Sys, Types, Same
<1>9. /\ Same(k', k, QuietFields) /\ k'.active = k.active /\ k'.state = k.state
  BY <1>4, FieldNames DEF Same, QuietFields
<1>10. Sys(k')
  BY <1>0, <1>7, <1>8, <1>9, QuietSys
<1> QED
  BY <1>0, <1>1, <1>9, <1>10 DEF Good, Runs

\* task t has changed priorities and returns from krhino_task_pri_change
PriSet(q, r, t) ==
    /\ Core(q) /\ Same(q, r, PriFields \cup {"bprio", "arg", "pc"})
    /\ q.arg = [r.arg EXCEPT ![t] = NULL]
    /\ \E v \in {"user", "sched"} : q.pc = [r.pc EXCEPT ![t] = v]

\* What the critical section of krhino_task_pri_change changes.
LEMMA PriChangeFields ==
  ASSUME Good(k), NEW t \in Task, pri_change_set(t)
  PROVE  PriSet(k', k, t)
<1>0. /\ Sys(k) /\ Core(k) /\ IsK(k) /\ t \in All /\ k.pc \in [All -> PC] /\ k.active = t
      /\ k.intr = 0 /\ k.pc[t] = "prichg" /\ k.bprio \in [All -> Prio]
      /\ k.arg \in [All -> [task : Task, pri : NewPris] \cup {NULL}]
  BY AllTypes DEF Good, Sys, All, pri_change_set
<1>2. PICK u, p : u = k.arg[t].task /\ p = k.arg[t].pri
  OBVIOUS
<1>3. u \in Task /\ u \in All /\ p \in Prio
  <2>1. k.arg[t] \in [task : Task, pri : NewPris]
    BY <1>0 DEF Sys, Args
  <2>2. u \in Task /\ p \in NewPris
    BY <1>2, <2>1
  <2>3. p \in UserPri
    BY <2>2, TaskAssumption
  <2>4. p \in Prio
    BY <2>3, CoreAssumption DEF UserPri, Prio
  <2> QED
    BY <2>2, <2>4 DEF All
<1>4. PICK new : new = mutex_pri_limit(k, u, p)
  OBVIOUS
<1>5. new \in Prio
  BY <1>0, <1>3, <1>4, PriLook DEF Core
<1>6. PICK k1 : k1 = [k EXCEPT !.bprio[u] = p, !.arg[t] = NULL]
  OBVIOUS
<1>7. /\ Same(k1, k, {"bprio", "arg"}) /\ k1.bprio = [k.bprio EXCEPT ![u] = p]
      /\ k1.arg = [k.arg EXCEPT ![t] = NULL]
  BY ZenonT(30), <1>0, <1>6, FieldNames DEF Same, IsK
<1>8. k1.bprio \in [All -> Prio]
  BY <1>0, <1>3, <1>7
<1>9. /\ k1.hi = k.hi /\ k1.rdy = k.rdy /\ k1.prio = k.prio /\ k1.active = k.active
      /\ k1.state = k.state /\ k1.blkst = k.blkst /\ k1.blkobj = k.blkobj
      /\ k1.tick = k.tick /\ k1.tickl = k.tickl /\ k1.blk = k.blk
      /\ k1.owner = k.owner /\ k1.mlist = k.mlist
  BY <1>7, FieldNames DEF Same
<1>10. Core(k1)
  <2>1. Typed(k1)
    BY <1>0, <1>7, <1>8, <1>9 DEF Core, Lists, Typed, Same
  <2>2. Ready(k1) = Ready(k) /\ Blocked(k1) = Blocked(k)
    BY <1>9 DEF Ready, Blocked
  <2> QED
    BY <1>0, <1>9, <2>1, <2>2 DEF Core, Lists
<1>11. PICK k2 : k2 = task_pri_change(k1, u, new)
  OBVIOUS
<1>12. Core(k2) /\ Same(k2, k1, PriFields)
  BY <1>3, <1>5, <1>10, <1>11, TaskPriChange
<1>13. PICK v \in {"user", "sched"} : k' = [k2 EXCEPT !.pc[t] = v]
  <2>1. k2.intr = 0 /\ k2.active = t
    BY <1>0, <1>7, <1>12, FieldNames DEF Same, PriFields
  <2>2. exit_sched(k2) = [k2 EXCEPT !.pc[t] = "sched"]
    BY SMTT(30), <2>1 DEF exit_sched
  <2>3. k' = exit_sched(k2) \/ k' = [k2 EXCEPT !.pc[t] = "user"]
    BY <1>2, <1>4, <1>6, <1>11 DEF pri_change_set
  <2> QED
    BY <2>2, <2>3
<1>14. Same(k', k2, {"pc"}) /\ k'.pc = [k2.pc EXCEPT ![t] = v]
  BY <1>12, <1>13, FieldNames DEF Same, IsK
<1>15. Same(k', k, PriFields \cup {"bprio", "arg", "pc"})
  BY <1>7, <1>12, <1>14 DEF Same
<1>16. k'.active = k2.active /\ k2.pc = k.pc /\ k'.arg = [k.arg EXCEPT ![t] = NULL]
  BY <1>7, <1>12, <1>14, FieldNames DEF Same, PriFields
<1>17. Core(k')
  <2>1. Same(k', k2, StillFields)
    BY <1>14 DEF Same, StillFields, QuietFields
  <2>2. k2.active \in All
    BY <1>12 DEF Core, Lists, Typed
  <2> QED
    BY <1>12, <1>16, <2>1, <2>2, CoreStill
<1> QED
  BY <1>13, <1>14, <1>15, <1>16, <1>17 DEF PriSet

\* the critical section of krhino_task_pri_change.
LEMMA PriChangeSet ==
  ASSUME Good(k), NEW t \in Task, pri_change_set(t)
  PROVE  Good(k') /\ Deserved(k', k)
<1>0. /\ Sys(k) /\ t \in All /\ k.pc \in [All -> PC] /\ k.active = t
      /\ k.intr = 0 /\ k.pc[t] = "prichg"
      /\ k.arg \in [All -> [task : Task, pri : NewPris] \cup {NULL}]
  BY AllTypes DEF Good, Sys, All, pri_change_set
<1>1. t \in Ready(k) /\ k.state[t] = "RDY" /\ t \notin Blocked(k) /\ t \notin ToSet(k.tickl)
  BY <1>0, Caller
<1>2. PriSet(k', k, t)
  BY PriChangeFields
<1>13. PICK v \in {"user", "sched"} : k'.pc = [k.pc EXCEPT ![t] = v]
  BY <1>2 DEF PriSet
<1>15. Same(k', k, PriFields \cup {"bprio", "arg", "pc"}) /\ k'.arg = [k.arg EXCEPT ![t] = NULL]
  BY <1>2 DEF PriSet
<1>16. /\ k'.state = k.state /\ k'.blkobj = k.blkobj /\ k'.tick = k.tick /\ k'.tickl = k.tickl
       /\ k'.susp = k.susp /\ k'.want = k.want /\ k'.active = t /\ k'.intr = 0
       /\ k'.lock = k.lock /\ k'.blkst = k.blkst
  BY <1>0, <1>15, FieldNames DEF Same, PriFields
<1>17. Core(k')
  BY <1>2 DEF PriSet
<1>18. k'.pc \in [All -> PC] /\ k'.pc[t] = v /\ \A x \in All \ {t} : k'.pc[x] = k.pc[x]
  BY <1>0, <1>13 DEF PC
<1>19. /\ k'.arg \in [All -> [task : Task, pri : NewPris] \cup {NULL}]
       /\ \A x \in All \ {t} : k'.arg[x] = k.arg[x]
  BY <1>0, <1>15
<1>20. Types(k') /\ Args(k')
  <2>1. Args(k')
    BY <1>0, <1>13, <1>18, <1>19 DEF Sys, Args
  <2> QED
    BY SMTT(30), <1>0, <1>15, <1>18, <1>19, <2>1, FieldNames DEF Sys, Types, Same, PriFields
<1>21. Apart(k', k, t) /\ Alone(k', t)
  BY <1>0, <1>1, <1>16 DEF Apart, Alone, Kept
<1>22. Same(k', k, OneFields) /\ t \notin Blocked(k')
  BY <1>1, <1>15, <1>16 DEF Same, OneFields, EndFields, QuietFields, Blocked
<1>23. Sys(k')
  BY <1>0, <1>17, <1>20, <1>21, <1>22, OneSys
<1>24. Good(k')
  BY SMTT(30), <1>1, <1>16, <1>23 DEF Good, Runs
<1>25. Deserved(k', k)
  BY <1>16, StateKept
<1> QED
  BY <1>24, <1>25

\* task u, which slept or waited, is ready
Aborted(s, r, u) ==
    /\ Core(s) /\ s.state[u] = "RDY" /\ u \notin ToSet(s.tickl) /\ u \notin Blocked(s)
    /\ s.blkst[u] = "ABORT"
    /\ Same(s, r, {"rdy", "hi", "blk", "tick", "tickl", "state", "blkst"})
    /\ \A x \in All \ {u} : Kept(s, r, x)

\* krhino_task_wait_abort takes a task off the lists and makes it ready.
LEMMA AbortLists ==
  ASSUME NEW r, Core(r), NEW u \in Task,
         r.state[u] \in {"SLEEP", "PEND", "SLEEP_SUSPENDED", "PEND_SUSPENDED"},
         NEW off, off = tick_list_rm(r, u), NEW y,
         u \in Blocked(r) => y = blk_list_rm(off, u), u \notin Blocked(r) => y = off,
         NEW z, z = ready_list_add(y, u), NEW s, Same(s, z, {"state", "blkst"}),
         s.state = [z.state EXCEPT ![u] = "RDY"], s.blkst = [z.blkst EXCEPT ![u] = "ABORT"]
  PROVE  Aborted(s, r, u)
<1> DEFINE R == Ready(r)
           B == Blocked(r)
           T == ToSet(r.tickl)
<1>0. /\ Lists(r, R, B, T) /\ Typed(r) /\ IsK(r) /\ u \in All /\ u \notin R
      /\ r.state \in [All -> TaskState] /\ r.blkst \in [All -> BlkState]
      /\ r.tick \in [All -> Nat] /\ r.blkobj \in [All -> Obj \cup {NULL}]
  BY DEF Core, Lists, Typed, Ready, All
<1>1. /\ Lists(off, R, B, T \ {u}) /\ Same(off, r, {"tick", "tickl"})
      /\ off.tick = [r.tick EXCEPT ![u] = 0]
  <2>1. Lists(r, R, B, T) /\ u \in All
    BY <1>0
  <2> HIDE DEF R, B, T
  <2> QED
    BY <2>1, ListsTickRm
<1>2. Lists(y, R, B \ {u}, T \ {u}) /\ Same(y, off, {"blk"})
  <2>1. CASE u \in B
    BY <1>1, <2>1, ListsBlkRm
  <2>2. CASE u \notin B
    <3>1. B \ {u} = B /\ y = off
      BY <2>2
    <3> QED
      BY <1>1, <3>1 DEF Same
  <2> QED
    BY <2>1, <2>2
<1>3. Lists(z, R \cup {u}, B \ {u}, T \ {u}) /\ Same(z, y, {"rdy", "hi"})
  BY <1>0, <1>2, ListsReadyAdd
<1>4. /\ z.state = r.state /\ z.blkst = r.blkst /\ z.blkobj = r.blkobj /\ s.blkobj = r.blkobj
      /\ s.tick = off.tick
  BY <1>1, <1>2, <1>3, FieldNames DEF Same
<1>5. Same(s, r, {"rdy", "hi", "blk", "tick", "tickl", "state", "blkst"})
  BY <1>1, <1>2, <1>3 DEF Same
<1>6. Same(s, z, {"state", "blkst", "blkobj"})
  BY DEF Same
<1>7. s.state \in [All -> TaskState] /\ s.blkst \in [All -> BlkState]
  <2>1. "RDY" \in TaskState /\ "ABORT" \in BlkState
    BY DEF TaskState, BlkState
  <2> QED
    BY <1>0, <1>4, <2>1
<1>8. Lists(s, R \cup {u}, B \ {u}, T \ {u})
  BY <1>0, <1>3, <1>4, <1>6, <1>7, ListsSet
<1>9. s.state[u] = "RDY" /\ s.blkst[u] = "ABORT" /\ Others(s, r, u)
  BY <1>0, <1>1, <1>4 DEF Others
<1>10. Core(s) /\ \A x \in All \ {u} : Kept(s, r, x)
  BY <1>0, <1>5, <1>8, <1>9, Leave
<1>11. u \notin ToSet(s.tickl) /\ u \notin Blocked(s)
  BY <1>8, <1>9 DEF Lists, Tick, Blocked
<1> QED
  BY <1>5, <1>9, <1>10, <1>11 DEF Aborted

\* A task that slept is made ready.
LEMMA AbortSleep ==
  ASSUME NEW r, NEW u \in Task, r.state[u] \in {"SLEEP", "SLEEP_SUSPENDED"},
         NEW s, Aborted(s, r, u)
  PROVE  Calm(s, r) /\ Same(s, r, EndFields) /\ Deserved(s, r)
<1>1. Freed(s, r, u)
  BY DEF Aborted, Freed
<1>2. Same(s, r, EndFields)
  BY DEF Aborted, Same, EndFields, WakeFields
<1>3. Deserved(s, r)
  BY NoneServed DEF Aborted, Kept, Blocked
<1> QED
  BY <1>1, <1>2, <1>3 DEF Aborted, Calm

\* the wait of a task has been aborted: s is the kernel before the task's priority is
\* taken back
WaitAborted(q, s, r) ==
    /\ Calm(q, r) /\ Same(q, r, EndFields) /\ Deserved(q, r)
    /\ q.state = s.state /\ q.blkst = s.blkst

\* A task that waited is made ready and takes the priority it lent back.
LEMMA AbortWait ==
  ASSUME NEW r, Core(r), Chains(r), NEW u \in Task, u \in Blocked(r), NEW s, Aborted(s, r, u),
         NEW x, x = mutex_task_pri_reset(s, u), NEW q, q = [x EXCEPT !.blkobj[u] = NULL]
  PROVE  WaitAborted(q, s, r)
<1>1. /\ Core(s) /\ Same(s, r, {"rdy", "hi", "blk", "tick", "tickl", "state", "blkst"})
      /\ u \notin Blocked(s)
  BY DEF Aborted
<1>2. /\ Core(q) /\ Same(q, s, EndFields) /\ Same(q, r, EndFields)
      /\ q.state = s.state /\ q.tick = s.tick /\ q.tickl = s.tickl /\ q.blkst = s.blkst
      /\ \A w \in All \ {u} : q.blkobj[w] = s.blkobj[w]
  BY <1>1, LeaveReset
<1>3. Freed(q, r, u)
  BY <1>2 DEF Freed, Aborted, Blocked
<1>4. \A w \in All \ {u} : Kept(q, r, w)
  BY <1>2 DEF Kept, Aborted
<1>5. Deserved(q, r)
  <2>1. q.blkst[u] # "FINISH"
    BY <1>2 DEF Aborted
  <2>2. \A w \in Blocked(r) \ {u} : q.state[w] \in {"PEND", "PEND_SUSPENDED"}
    BY <1>4 DEF Kept, Blocked
  <2> QED
    BY <2>1, <2>2, NoneServed
<1> QED
  BY <1>2, <1>3, <1>4, <1>5 DEF Calm, WaitAborted

\* krhino_task_wait_abort.
LEMMA TaskWaitAbort ==
  ASSUME Good(k), NEW t \in Task, NEW u \in Task, krhino_task_wait_abort(t, u)
  PROVE  Good(k') /\ Deserved(k', k)
<1>0. /\ Sys(k) /\ Core(k) /\ IsK(k) /\ u \in All /\ k.state \in [All -> TaskState]
      /\ k.susp \in [All -> Nat]
  BY AllTypes DEF Good, Sys, All
<1>1. Chains(k)
  BY <1>0 DEF Sys, Owns, Chains
<1>2. PICK off : off = tick_list_rm(k, u)
  OBVIOUS
<1>3. CASE k.state[u] = "RDY" /\ k' = exit_sched(k)
  <2>1. Deserved(k, k)
    BY StateKept
  <2> QED
    BY <1>0, <1>3, <2>1, ReadyGood, ExitServes
<1>4. CASE /\ k.state[u] = "SUSPENDED"
           /\ k' = exit_sched(ready_list_add([k EXCEPT !.state[u] = "RDY"], u))
  <2>1. PICK s : s = [k EXCEPT !.state[u] = "RDY"]
    OBVIOUS
  <2>2. Same(s, k, {"state"}) /\ s.state = [k.state EXCEPT ![u] = "RDY"]
    BY <1>0, <2>1, FieldNames DEF Same, IsK
  <2>3. Same(s, k, {"state", "susp"}) /\ s.susp = k.susp
    BY <2>2, FieldNames DEF Same
  <2>4. s.susp = [k.susp EXCEPT ![u] = k.susp[u]] /\ k.susp[u] \in Nat
    BY <1>0, <2>3
  <2>5. PICK q : q = ready_list_add(s, u)
    OBVIOUS
  <2>6. Sys(q) /\ Same(q, k, {"rdy", "hi", "state", "susp"}) /\ q.state = s.state
    BY <1>0, <1>4, <2>2, <2>3, <2>4, <2>5, ResumeSys
  <2>7. q.lock = k.lock /\ q.active = k.active
    BY <2>6, FieldNames DEF Same
  <2>8. \A x \in All : k.state[x] = "RDY" => q.state[x] = "RDY"
    BY <1>0, <2>2, <2>6
  <2>9. IsK(q) /\ \A x \in Blocked(k) : q.state[x] = k.state[x]
    BY <1>0, <1>4, <2>2, <2>6 DEF Same, Blocked
  <2>10. k' = exit_sched(q)
    BY <1>4, <2>1, <2>5
  <2> QED
    BY <2>6, <2>7, <2>8, <2>9, <2>10, ReadyGood, ExitServes, StateKept
<1>5. CASE /\ k.state[u] \in {"SLEEP", "SLEEP_SUSPENDED"}
           /\ k' = exit_sched([ready_list_add(off, u) EXCEPT
                                    !.state[u] = "RDY", !.blkst[u] = "ABORT"])
  <2>1. u \notin Blocked(k)
    BY <1>5 DEF Blocked
  <2>2. PICK z : z = ready_list_add(off, u)
    OBVIOUS
  <2>3. PICK s : s = [z EXCEPT !.state[u] = "RDY", !.blkst[u] = "ABORT"]
    OBVIOUS
  <2>4. IsK(z)
    <3>1. Lists(off, Ready(k), Blocked(k), ToSet(k.tickl) \ {u})
      BY <1>0, <1>2, ListsTickRm DEF Core
    <3>2. u \notin Ready(k)
      BY <1>5 DEF Ready
    <3> QED
      BY <1>0, <2>2, <3>1, <3>2, ListsReadyAdd DEF Same
  <2>5. /\ Same(s, z, {"state", "blkst"}) /\ s.state = [z.state EXCEPT ![u] = "RDY"]
        /\ s.blkst = [z.blkst EXCEPT ![u] = "ABORT"]
    BY ZenonT(30), <2>3, <2>4, FieldNames DEF Same, IsK
  <2>6. Aborted(s, k, u)
    BY <1>0, <1>2, <1>5, <2>1, <2>2, <2>5, AbortLists
  <2>7. Calm(s, k) /\ Same(s, k, EndFields) /\ Deserved(s, k) /\ IsK(s)
    BY <1>5, <2>6, AbortSleep DEF Same
  <2>8. k' = exit_sched(s)
    BY <1>5, <2>2, <2>3
  <2> QED
    BY <2>7, <2>8, CalmGood, ExitServes
<1>6. CASE /\ k.state[u] \in {"PEND", "PEND_SUSPENDED"}
           /\ k' = exit_sched([mutex_task_pri_reset(
                                 [ready_list_add(blk_list_rm(off, u), u) EXCEPT
                                    !.state[u] = "RDY", !.blkst[u] = "ABORT"], u)
                               EXCEPT !.blkobj[u] = NULL])
  <2>1. u \in Blocked(k)
    BY <1>0, <1>6 DEF Blocked
  <2>2. PICK y : y = blk_list_rm(off, u)
    OBVIOUS
  <2>3. PICK z : z = ready_list_add(y, u)
    OBVIOUS
  <2>4. PICK s : s = [z EXCEPT !.state[u] = "RDY", !.blkst[u] = "ABORT"]
    OBVIOUS
  <2>5. IsK(z)
    <3>1. Lists(off, Ready(k), Blocked(k), ToSet(k.tickl) \ {u})
      BY <1>0, <1>2, ListsTickRm DEF Core
    <3>2. Lists(y, Ready(k), Blocked(k) \ {u}, ToSet(k.tickl) \ {u})
      BY <2>1, <2>2, <3>1, ListsBlkRm
    <3>3. u \notin Ready(k)
      BY SMTT(30), <1>6 DEF Ready
    <3> QED
      BY <1>0, <2>3, <3>2, <3>3, ListsReadyAdd DEF Same
  <2>6. /\ Same(s, z, {"state", "blkst"}) /\ s.state = [z.state EXCEPT ![u] = "RDY"]
        /\ s.blkst = [z.blkst EXCEPT ![u] = "ABORT"]
    BY ZenonT(30), <2>4, <2>5, FieldNames DEF Same, IsK
  <2>7. Aborted(s, k, u)
    BY <1>0, <1>2, <1>6, <2>1, <2>2, <2>3, <2>6, AbortLists
  <2>8. PICK x : x = mutex_task_pri_reset(s, u)
    OBVIOUS
  <2>9. PICK q : q = [x EXCEPT !.blkobj[u] = NULL]
    OBVIOUS
  <2>10. Calm(q, k) /\ Same(q, k, EndFields) /\ Deserved(q, k)
    <3>1. WaitAborted(q, s, k)
      BY <1>0, <1>1, <2>1, <2>7, <2>8, <2>9, AbortWait
    <3> QED
      BY <3>1 DEF WaitAborted
  <2>11. k' = exit_sched(q) /\ IsK(q)
    BY <1>6, <2>2, <2>3, <2>4, <2>8, <2>9, <2>10 DEF Same
  <2> QED
    BY <2>10, <2>11, CalmGood, ExitServes
<1> QED
  BY <1>2, <1>3, <1>4, <1>5, <1>6 DEF krhino_task_wait_abort

\* the fields task_create sets
CreateFields == {"prio", "bprio", "state", "susp", "blkst", "blkobj", "tick", "policy", "slice",
                 "total", "msg", "want", "actl", "pc", "wait", "arg", "mlist"}

\* the control block of u is that of a new task of priority p
Fresh(s, r, u, p, st, n) ==
    /\ Same(s, r, CreateFields)
    /\ s.prio = [r.prio EXCEPT ![u] = p] /\ s.bprio = [r.bprio EXCEPT ![u] = p]
    /\ s.state = [r.state EXCEPT ![u] = st] /\ s.susp = [r.susp EXCEPT ![u] = n]
    /\ s.blkst = [r.blkst EXCEPT ![u] = "FINISH"] /\ s.blkobj = [r.blkobj EXCEPT ![u] = NULL]
    /\ s.tick = [r.tick EXCEPT ![u] = 0] /\ s.mlist = [r.mlist EXCEPT ![u] = <<>>]
    /\ s.policy = [r.policy EXCEPT ![u] = "RR"] /\ s.slice = [r.slice EXCEPT ![u] = Slice]
    /\ s.total = [r.total EXCEPT ![u] = Slice] /\ s.msg = [r.msg EXCEPT ![u] = NULL]
    /\ s.want = [r.want EXCEPT ![u] = NULL] /\ s.actl = [r.actl EXCEPT ![u] = {}]
    /\ s.pc = [r.pc EXCEPT ![u] = "user"] /\ s.wait = [r.wait EXCEPT ![u] = NULL]
    /\ s.arg = [r.arg EXCEPT ![u] = NULL]

\* A deleted task is on no list and owns no mutex.
LEMMA DeletedTask ==
  ASSUME NEW r, Sys(r), NEW u \in Task, r.state[u] = "DELETED"
  PROVE  /\ u \in All /\ u \notin Ready(r) /\ u \notin Blocked(r) /\ u \notin ToSet(r.tickl)
         /\ r.mlist[u] = <<>>
<1>1. u \in All /\ u \notin Ready(r) /\ u \notin Blocked(r) /\ r.mlist \in [All -> Seq(Mutex)]
  BY AllTypes DEF All, Ready, Blocked
<1>2. u \notin ToSet(r.tickl)
  BY DEF Sys, Waits, Timed
<1>3. \A m \in ToSet(r.mlist[u]) : m \in Mutex /\ r.live[m] /\ r.owner[m] = u
  <2>1. ToSet(r.mlist[u]) \in SUBSET Mutex
    BY <1>1, ToSetDef
  <2> QED
    BY <1>1, <2>1 DEF Sys, Owns
<1>4. \A m \in Mutex : r.live[m] => r.owner[m] # u
  <2>1. u # NULL
    BY CoreAssumption DEF All
  <2> QED
    BY <2>1 DEF Sys, Owns
<1>5. ToSet(r.mlist[u]) = {}
  BY <1>3, <1>4
<1>6. r.mlist[u] \in Seq(Mutex)
  BY <1>1
<1>7. r.mlist[u] = <<>>
  BY <1>5, <1>6, ToSetDef
<1> QED
  BY <1>1, <1>2, <1>7

\* A new control block keeps the invariant, with the task still on no ready list.
LEMMA FreshTask ==
  ASSUME NEW r, Sys(r), NEW u \in Task, r.state[u] = "DELETED", NEW p \in Prio,
         NEW st \in {"RDY", "SUSPENDED"}, NEW n \in Nat, NEW s, Fresh(s, r, u, p, st, n)
  PROVE  /\ Lists(s, Ready(r), Blocked(r), ToSet(r.tickl)) /\ Types(s) /\ Args(s)
         /\ Same(s, r, OneFields) /\ s.mlist = r.mlist
<1>0. /\ u \in All /\ u \notin Ready(r) /\ u \notin Blocked(r) /\ u \notin ToSet(r.tickl)
      /\ r.mlist[u] = <<>>
  BY DeletedTask
<1>1. /\ IsK(r) /\ r.active \in All
      /\ r.prio \in [All -> Prio] /\ r.bprio \in [All -> Prio]
      /\ r.state \in [All -> TaskState] /\ r.blkst \in [All -> BlkState]
      /\ r.blkobj \in [All -> Obj \cup {NULL}] /\ r.tick \in [All -> Nat]
      /\ r.owner \in [Mutex -> Task \cup {NULL}] /\ r.mlist \in [All -> Seq(Mutex)]
  BY AllTypes
<1>2. /\ r.susp \in [All -> Nat] /\ r.slice \in [All -> Nat] /\ r.total \in [All -> Nat]
      /\ r.policy \in [All -> {"RR", "FIFO"}] /\ r.want \in [All -> Wants \cup {NULL}]
      /\ r.pc \in [All -> PC] /\ r.wait \in [All -> Obj \cup {NULL}]
      /\ r.arg \in [All -> [task : Task, pri : NewPris] \cup {NULL}]
  BY AllTypes
<1>3. s.mlist = r.mlist
  <2>1. s.mlist = [r.mlist EXCEPT ![u] = r.mlist[u]]
    BY <1>0 DEF Fresh
  <2> QED
    BY <1>1, <2>1
<1>4. Same(s, r, OneFields)
  <2>1. Same(s, r, CreateFields \ {"mlist"})
    BY <1>3, FieldNames DEF Same, Fresh
  <2> QED
    BY <2>1 DEF Same, CreateFields, OneFields, EndFields, QuietFields, WakeFields, PriFields
<1>5. /\ s.active = r.active /\ s.rdy = r.rdy /\ s.hi = r.hi /\ s.blk = r.blk /\ s.tickl = r.tickl
      /\ s.owner = r.owner /\ s.lock = r.lock /\ s.intr = r.intr /\ s.live = r.live
      /\ s.nested = r.nested /\ s.count = r.count /\ s.flags = r.flags
  BY FieldNames DEF Fresh, Same, CreateFields
<1>6. s.prio \in [All -> Prio] /\ s.bprio \in [All -> Prio]
  BY <1>0, <1>1 DEF Fresh
<1>7. s.state \in [All -> TaskState] /\ s.blkst \in [All -> BlkState]
  <2>1. st \in TaskState /\ "FINISH" \in BlkState
    BY DEF TaskState, BlkState
  <2> QED
    BY <1>0, <1>1, <2>1 DEF Fresh
<1>8. s.blkobj \in [All -> Obj \cup {NULL}] /\ s.tick \in [All -> Nat]
  BY <1>0, <1>1 DEF Fresh
<1>9. Typed(s)
  BY <1>1, <1>3, <1>4, <1>5, <1>6, <1>7, <1>8 DEF Typed, Same
<1>10. \A x \in All \ {u} : /\ s.prio[x] = r.prio[x] /\ s.blkobj[x] = r.blkobj[x]
                           /\ s.tick[x] = r.tick[x]
  BY <1>1 DEF Fresh
<1>11. Lists(s, Ready(r), Blocked(r), ToSet(r.tickl))
  <2>1. Lists(r, Ready(r), Blocked(r), ToSet(r.tickl))
    BY DEF Sys, Core
  <2>2. Ready(r) \in SUBSET (All \ {u}) /\ Blocked(r) \in SUBSET (All \ {u})
    BY <1>0 DEF Ready, Blocked
  <2>3. Rdy(s.rdy, s.hi, s.prio, Ready(r))
    <3>1. \A q \in Prio : {x \in Ready(r) : s.prio[x] = q} = {x \in Ready(r) : r.prio[x] = q}
      BY <1>10, <2>2
    <3> QED
      BY <1>5, <2>1, <3>1 DEF Lists, Rdy
  <2>4. Blk(s.blk, s.blkobj, s.prio, Blocked(r))
    <3>1. Blk(r.blk, r.blkobj, r.prio, Blocked(r)) /\ Blocked(r) \in SUBSET Task
      BY <2>1 DEF Lists
    <3>2. \A x \in Blocked(r) : s.blkobj[x] = r.blkobj[x] /\ s.prio[x] = r.prio[x]
      BY <1>10, <2>2
    <3>3. Blk(r.blk, s.blkobj, s.prio, Blocked(r))
      BY ZenonT(60), <1>1, <3>1, <3>2, BlkOff
    <3> QED
      BY <1>5, <3>3
  <2>5. Tick(s.tickl, s.tick, ToSet(r.tickl))
    <3>1. Tick(r.tickl, r.tick, ToSet(r.tickl)) /\ r.tickl \in Seq(Task)
      BY <2>1 DEF Lists, Tick
    <3>2. \A i \in 1..Len(r.tickl) : r.tickl[i] \in ToSet(r.tickl) /\ r.tickl[i] \in Task
      BY <3>1, ToSetDef
    <3>3. \A i \in 1..Len(r.tickl) : s.tick[r.tickl[i]] = r.tick[r.tickl[i]]
      BY <1>0, <1>10, <3>2 DEF All
    <3>4. Ordered(r.tickl, s.tick)
      BY <3>1, <3>3 DEF Tick, Ordered
    <3> QED
      BY <1>5, <3>1, <3>4 DEF Tick
  <2>6. \A x \in Blocked(r) : s.blkobj[x] \in Obj
    BY <1>10, <2>1, <2>2 DEF Lists
  <2> QED
    BY <1>9, <2>1, <2>3, <2>4, <2>5, <2>6 DEF Lists
<1>12. /\ s.susp \in [All -> Nat] /\ s.slice \in [All -> Nat] /\ s.total \in [All -> Nat]
       /\ s.policy \in [All -> {"RR", "FIFO"}] /\ s.want \in [All -> Wants \cup {NULL}]
  BY <1>0, <1>2, SchedAssumption DEF Fresh
<1>13. /\ s.pc \in [All -> PC] /\ s.wait \in [All -> Obj \cup {NULL}]
       /\ s.arg \in [All -> [task : Task, pri : NewPris] \cup {NULL}]
  BY <1>0, <1>2 DEF Fresh, PC
<1>14. Args(s)
  BY <1>0, <1>2 DEF Sys, Args, Fresh
<1>15. s.actl = [x \in All |-> s.actl[x]] /\ s.msg = [x \in All |-> s.msg[x]]
  BY DEF Sys, Types, Fresh
<1>16. Types(s)
  BY <1>5, <1>12, <1>13, <1>15 DEF Sys, Types
<1> QED
  BY <1>3, <1>4, <1>11, <1>14, <1>16

\* krhino_task_create.
LEMMA TaskCreate ==
  ASSUME Good(k), NEW t \in Task, NEW u \in Task, NEW p \in NewPris, NEW autorun \in BOOLEAN,
         krhino_task_create(t, u, p, autorun)
  PROVE  Good(k')
<1>0. /\ Sys(k) /\ Core(k) /\ IsK(k) /\ u \in All /\ t \in All /\ k.active = t /\ k.pc[t] = "user"
      /\ k.intr = 0 /\ u # t /\ k.state[u] = "DELETED" /\ k.state \in [All -> TaskState]
      /\ k.susp \in [All -> Nat] /\ k.want \in [All -> Wants \cup {NULL}]
      /\ k.tick \in [All -> Nat] /\ k.blkobj \in [All -> Obj \cup {NULL}]
  BY AllTypes DEF Good, Sys, All, krhino_task_create, Calls
<1>1. k.state[t] = "RDY"
  BY <1>0, Caller
<1>2. p \in Prio
  <2>1. p \in UserPri
    BY TaskAssumption
  <2> QED
    BY <2>1, CoreAssumption DEF UserPri, Prio
<1>3. PICK st, n : /\ st = IF autorun THEN "RDY" ELSE "SUSPENDED"
                   /\ n = IF autorun THEN 0 ELSE 1
  OBVIOUS
<1>4. PICK s : s = [k EXCEPT
               !.prio = [k.prio EXCEPT ![u] = p], !.bprio = [k.bprio EXCEPT ![u] = p],
               !.state = [k.state EXCEPT ![u] = st], !.susp = [k.susp EXCEPT ![u] = n],
               !.blkst = [k.blkst EXCEPT ![u] = "FINISH"],
               !.blkobj = [k.blkobj EXCEPT ![u] = NULL], !.tick = [k.tick EXCEPT ![u] = 0],
               !.mlist = [k.mlist EXCEPT ![u] = <<>>], !.policy = [k.policy EXCEPT ![u] = "RR"],
               !.slice = [k.slice EXCEPT ![u] = Slice], !.total = [k.total EXCEPT ![u] = Slice],
               !.msg = [k.msg EXCEPT ![u] = NULL], !.want = [k.want EXCEPT ![u] = NULL],
               !.actl = [k.actl EXCEPT ![u] = {}], !.pc = [k.pc EXCEPT ![u] = "user"],
               !.wait = [k.wait EXCEPT ![u] = NULL], !.arg = [k.arg EXCEPT ![u] = NULL]]
  OBVIOUS
<1>5. k' = IF autorun THEN exit_sched(ready_list_add_tail(s, u)) ELSE s
  BY <1>3, <1>4 DEF krhino_task_create
<1>6. Fresh(s, k, u, p, st, n)
  <2>1. Same(s, k, CreateFields)
    BY ZenonT(60), <1>0, <1>4, FieldNames DEF Same, IsK, CreateFields
  <2> QED
    BY <1>0, <1>4, <2>1, FieldNames DEF Fresh, IsK
<1>7. st \in {"RDY", "SUSPENDED"} /\ n \in Nat
  BY <1>3
<1>8. /\ Lists(s, Ready(k), Blocked(k), ToSet(k.tickl)) /\ Types(s) /\ Args(s)
      /\ Same(s, k, OneFields) /\ s.mlist = k.mlist
  BY <1>0, <1>2, <1>6, <1>7, FreshTask
<1>9. /\ u \notin Ready(k) /\ u \notin Blocked(k) /\ u \notin ToSet(k.tickl)
  BY <1>0, DeletedTask
<1>10. /\ s.state[u] = st /\ s.susp[u] = n
       /\ \A x \in All \ {u} : /\ s.state[x] = k.state[x] /\ s.susp[x] = k.susp[x]
                               /\ s.want[x] = k.want[x] /\ s.tick[x] = k.tick[x]
                               /\ s.blkobj[x] = k.blkobj[x] /\ s.blkst[x] = k.blkst[x]
  BY <1>0, <1>6 DEF Fresh
<1>11. /\ s.active = t /\ s.lock = k.lock /\ s.intr = k.intr /\ s.tickl = k.tickl
       /\ s.owner = k.owner
  BY <1>0, <1>6, FieldNames DEF Fresh, Same, CreateFields
<1>12. PICK q : q = IF autorun THEN ready_list_add_tail(s, u) ELSE s
  OBVIOUS
<1>13. PICK R : R = IF autorun THEN Ready(k) \cup {u} ELSE Ready(k)
  OBVIOUS
<1>14. Lists(q, R, Blocked(k), ToSet(k.tickl)) /\ Same(q, s, {"rdy", "hi"})
  <2>1. CASE autorun
    <3>1. q = ready_list_add_tail(s, u) /\ R = Ready(k) \cup {u}
      BY <1>12, <1>13, <2>1
    <3> QED
      BY <1>0, <1>8, <1>9, <3>1, ListsReadyAdd
  <2>2. CASE ~ autorun
    <3>1. q = s /\ R = Ready(k)
      BY <1>12, <1>13, <2>2
    <3> QED
      BY <1>8, <3>1 DEF Same
  <2> QED
    BY <2>1, <2>2
<1>15. /\ q.state = s.state /\ q.susp = s.susp /\ q.want = s.want /\ q.tick = s.tick
       /\ q.tickl = s.tickl /\ q.blkobj = s.blkobj /\ q.owner = s.owner /\ q.active = s.active
       /\ q.lock = s.lock /\ q.pc = s.pc /\ q.blkst = s.blkst
  BY <1>14, FieldNames DEF Same
<1>16. Blocked(q) = Blocked(k)
  BY <1>7, <1>9, <1>10, <1>15 DEF Blocked
<1>17. Ready(q) = R
  <2>1. CASE autorun
    <3>1. st = "RDY" /\ R = Ready(k) \cup {u}
      BY <1>3, <1>13, <2>1
    <3> QED
      BY <1>0, <1>10, <1>15, <3>1 DEF Ready
  <2>2. CASE ~ autorun
    <3>1. st = "SUSPENDED" /\ R = Ready(k)
      BY <1>3, <1>13, <2>2
    <3> QED
      BY <1>0, <1>9, <1>10, <1>15, <3>1 DEF Ready
  <2> QED
    BY <2>1, <2>2
<1>18. Core(q)
  <2>1. \A x \in Blocked(k) : q.blkobj[x] \in Mutex => q.owner[q.blkobj[x]] \in Task
    <3>1. \A x \in Blocked(k) : q.blkobj[x] = k.blkobj[x]
      BY <1>9, <1>10, <1>15 DEF Blocked
    <3>2. q.owner = k.owner
      BY <1>11, <1>15
    <3> QED
      BY <1>0, <3>1, <3>2 DEF Core
  <2> QED
    BY <1>14, <1>16, <1>17, <2>1, CoreOf
<1>19. Apart(q, k, u)
  BY <1>10, <1>11, <1>15 DEF Apart, Kept
<1>20. Alone(q, u)
  BY <1>3, <1>9, <1>10, <1>11, <1>15 DEF Alone
<1>21. Same(q, k, OneFields)
  BY <1>8, <1>14 DEF Same, OneFields, EndFields, WakeFields
<1>22. Types(q) /\ Args(q)
  BY <1>8, <1>14, FieldNames DEF Types, Args, Same
<1>23. Sys(q)
  BY <1>0, <1>9, <1>16, <1>18, <1>19, <1>20, <1>21, <1>22, OneSys
<1>24. q.state[q.active] = "RDY"
  BY <1>0, <1>1, <1>10, <1>11, <1>15
<1>25. CASE autorun
  BY <1>5, <1>12, <1>23, <1>24, <1>25, ExitSched
<1>26. CASE ~ autorun
  BY <1>5, <1>12, <1>23, <1>24, <1>26 DEF Good, Runs
<1> QED
  BY <1>25, <1>26

-----------------------------------------------------------------------------
(* The deletion of a task hands its mutexes over.                           *)

\* Other owners of the mutexes keep the lists.
LEMMA OwnerCore ==
  ASSUME NEW r, Core(r), NEW q, Same(q, r, {"owner", "mlist", "nested", "live"}),
         q.owner \in [Mutex -> Task \cup {NULL}], q.mlist \in [All -> Seq(Mutex)],
         \A t \in Blocked(r) : r.blkobj[t] \in Mutex => q.owner[r.blkobj[t]] \in Task
  PROVE  Core(q) /\ Calm(q, r)
<1>1. /\ q.hi = r.hi /\ q.rdy = r.rdy /\ q.prio = r.prio /\ q.bprio = r.bprio
      /\ q.state = r.state /\ q.blkst = r.blkst /\ q.blkobj = r.blkobj
      /\ q.tick = r.tick /\ q.tickl = r.tickl /\ q.blk = r.blk /\ q.active = r.active
  BY FieldNames DEF Same
<1>2. Ready(q) = Ready(r) /\ Blocked(q) = Blocked(r)
  BY <1>1 DEF Ready, Blocked
<1>3. Typed(q)
  BY <1>1 DEF Core, Lists, Typed, Same
<1>4. Core(q)
  BY <1>1, <1>2, <1>3 DEF Core, Lists
<1> QED
  BY <1>1, <1>4 DEF Calm, Kept

\* nobody waits for a mutex of his own
Away(B, blkobj, owner) == \A t \in B : blkobj[t] \in Mutex => owner[blkobj[t]] # t

\* n of the mutexes on the list l of task u, which owned them, have been handed over;
\* own is who owned the mutexes at first
Handing(mlist, owner, state, live, own, l, u, n) ==
    /\ mlist[u] = l
    /\ \A t \in All : IsInjective(mlist[t])
    /\ \A t \in All \ {u} : \A m \in ToSet(mlist[t]) : live[m] /\ owner[m] = t
    /\ \A i \in 1..Len(l) : owner[l[i]] = u <=> i > n
    /\ \A m \in Mutex : live[m] /\ owner[m] \notin {NULL, u} =>
          m \in ToSet(mlist[owner[m]]) /\ state[owner[m]] # "DELETED"
    /\ \A m \in Mutex : owner[m] # NULL => own[m] # NULL
    /\ \A m \in Mutex : owner[m] = u => own[m] = u

\* the loop of task_mutex_free: c is the kernel before the loop, the list and the task
FreeStep(c, q, m) == mutex_free_one(q, m)

FreeInv(c, q, n) ==
    /\ Deserved(q, c[1]) /\ q.prio = c[1].prio
    /\ Calm(q, c[1]) /\ Same(q, c[1], EndFields \cup {"owner", "mlist"})
    /\ Away(Blocked(q), q.blkobj, q.owner)
    /\ Handing(q.mlist, q.owner, q.state, c[1].live, c[1].owner, c[2], c[3], n)

F == INSTANCE LoopTheorems WITH Step <- FreeStep, Inv <- FreeInv

\* Before the first mutex.
LEMMA FreeStart ==
  ASSUME NEW r, Sys(r), NEW u \in Task, NEW c, c[1] = r, c[2] = r.mlist[u], c[3] = u
  PROVE  FreeInv(c, r, 0)
<1>1. Core(r) /\ IsK(r) /\ u \in All /\ r.mlist \in [All -> Seq(Mutex)]
  BY AllTypes DEF Sys, All
<1>2. Calm(r, r) /\ Same(r, r, EndFields \cup {"owner", "mlist"})
  BY <1>1 DEF Calm, Kept, Same
<1>3. Away(Blocked(r), r.blkobj, r.owner)
  BY DEF Sys, Denied, Away
<1>4. Handing(r.mlist, r.owner, r.state, r.live, r.owner, r.mlist[u], u, 0)
  <2>1. Owns(r.mlist, r.live, r.owner, r.nested, r.state)
    BY DEF Sys
  <2>2. r.mlist[u] \in Seq(Mutex)
    BY <1>1
  <2>3. \A i \in 1..Len(r.mlist[u]) : r.mlist[u][i] \in ToSet(r.mlist[u])
    BY <2>2, ToSetDef
  <2>4. \A i \in 1..Len(r.mlist[u]) : r.owner[r.mlist[u][i]] = u <=> i > 0
    BY <1>1, <2>1, <2>2, <2>3 DEF Owns
  <2> QED
    BY <2>1, <2>4 DEF Owns, Handing
<1>5. Deserved(r, r)
  BY StateKept
<1> QED
  BY <1>2, <1>3, <1>4, <1>5 DEF FreeInv

\* A mutex nobody waits for gets no owner.
LEMMA FreeNobody ==
  ASSUME NEW r, NEW l \in Seq(Mutex), IsInjective(l), NEW u \in Task,
         NEW n \in 0..(Len(l) - 1), NEW c, c[1] = r, c[2] = l, c[3] = u,
         NEW q, FreeInv(c, q, n), NEW m, m = l[n + 1], q.blk[m] = <<>>, NEW s, s = FreeStep(c, q, m)
  PROVE  FreeInv(c, s, n + 1)
<1>0. /\ Calm(q, r) /\ Core(q) /\ IsK(q) /\ Same(q, r, EndFields \cup {"owner", "mlist"}) /\ m \in Mutex
      /\ q.owner \in [Mutex -> Task \cup {NULL}] /\ q.mlist \in [All -> Seq(Mutex)]
      /\ Handing(q.mlist, q.owner, q.state, r.live, r.owner, l, u, n)
      /\ Away(Blocked(q), q.blkobj, q.owner)
  BY SMTT(30) DEF FreeInv, Calm, Core, Lists, Typed
<1>1. s = [q EXCEPT !.owner[m] = NULL]
  BY DEF FreeStep, mutex_free_one
<1>2. Same(s, q, {"owner"}) /\ s.owner = [q.owner EXCEPT ![m] = NULL]
  BY <1>0, <1>1, FieldNames DEF Same, IsK
<1>3. /\ s.owner \in [Mutex -> Task \cup {NULL}] /\ s.owner[m] = NULL
      /\ \A x \in Mutex \ {m} : s.owner[x] = q.owner[x]
  BY <1>0, <1>2
<1>4. /\ s.state = q.state /\ s.mlist = q.mlist /\ s.blkobj = q.blkobj
      /\ Same(s, q, {"owner", "mlist", "nested", "live"})
  BY <1>2, FieldNames DEF Same
<1>5. \A t \in Blocked(q) : q.blkobj[t] # m
  <2>1. ToSet(q.blk[m]) = {t \in Blocked(q) : q.blkobj[t] = m} /\ q.blk[m] \in Seq(Task)
    BY SMTT(30), <1>0 DEF Core, Lists, Blk, Obj
  <2>2. ToSet(q.blk[m]) = {}
    BY <2>1, ToSetDef
  <2> QED
    BY <2>1, <2>2
<1>6. \A t \in Blocked(q) : q.blkobj[t] \in Mutex => s.owner[q.blkobj[t]] \in Task
  BY <1>0, <1>3, <1>5 DEF Core
<1>7. Core(s) /\ Calm(s, q)
  BY <1>0, <1>3, <1>4, <1>6, OwnerCore
<1>8. Calm(s, r)
  BY <1>0, <1>7, CalmTrans
<1>9. Same(s, r, EndFields \cup {"owner", "mlist"})
  BY <1>0, <1>2 DEF Same
<1>10. Away(Blocked(s), s.blkobj, s.owner)
  <2>1. Blocked(s) = Blocked(q)
    BY SMTT(30), <1>4 DEF Blocked
  <2> QED
    BY <1>0, <1>3, <1>4, <1>5, <2>1 DEF Away
<1>11. Handing(s.mlist, s.owner, s.state, r.live, r.owner, l, u, n + 1)
  <2>1. u # NULL /\ u \in All
    BY CoreAssumption DEF All
  <2>2. \A t \in All \ {u} : \A x \in ToSet(s.mlist[t]) : r.live[x] /\ s.owner[x] = t
    <3>1. q.owner[m] = u
      BY <1>0 DEF Handing
    <3>2. \A t \in All : ToSet(q.mlist[t]) \in SUBSET Mutex
      BY <1>0, ToSetDef
    <3> QED
      BY <1>0, <1>3, <1>4, <3>1, <3>2 DEF Handing
  <2>3. \A i \in 1..Len(l) : s.owner[l[i]] = u <=> i > n + 1
    <3>1. \A i \in 1..Len(l) : i # n + 1 => l[i] # m /\ l[i] \in Mutex
      BY DEF IsInjective
    <3> QED
      BY <1>0, <1>3, <2>1, <3>1 DEF Handing
  <2>4. \A x \in Mutex : r.live[x] /\ s.owner[x] \notin {NULL, u} =>
          x \in ToSet(s.mlist[s.owner[x]]) /\ s.state[s.owner[x]] # "DELETED"
    BY <1>0, <1>3, <1>4 DEF Handing
  <2>5. \A x \in Mutex : (s.owner[x] # NULL => r.owner[x] # NULL) /\ (s.owner[x] = u => r.owner[x] = u)
    BY <1>0, <1>3, <2>1 DEF Handing
  <2> QED
    BY <1>0, <1>4, <2>2, <2>3, <2>4, <2>5 DEF Handing
<1>12. Deserved(s, r) /\ s.prio = r.prio
  <2>1. Deserved(q, r) /\ q.prio = r.prio
    BY DEF FreeInv
  <2>2. /\ s.prio = q.prio /\ s.blkst = q.blkst /\ s.actl = q.actl /\ s.flags = q.flags
        /\ s.state = q.state /\ s.blkobj = q.blkobj
    BY <1>2, FieldNames DEF Same
  <2> QED
    BY <2>1, <2>2, ServesSame
<1> QED
  BY <1>8, <1>9, <1>10, <1>11, <1>12 DEF FreeInv

\* task t, which waited, has been woken
Wakes(w, r, t) ==
    /\ Core(w) /\ Calm(w, r) /\ Same(w, r, WakeFields) /\ IsK(w)
    /\ \A x \in All : x \in Blocked(w) <=> x \in Blocked(r) /\ x # t
    /\ \A x \in All \ {t} : w.state[x] = r.state[x] /\ w.blkobj[x] = r.blkobj[x]
    /\ w.state[t] \in {"RDY", "SUSPENDED"}
    /\ w.blkst[t] = "FINISH" /\ \A x \in All \ {t} : w.blkst[x] = r.blkst[x]

\* pend_task_wakeup wakes a task that waits.
LEMMA WakeUp ==
  ASSUME NEW r, Core(r), NEW t \in Blocked(r), NEW w, w = pend_task_wakeup(r, t)
  PROVE  Wakes(w, r, t)
<1>1. w = pend_task_end(r, t, "FINISH") /\ "FINISH" \in BlkState
  BY DEF pend_task_wakeup, BlkState
<1>2. /\ Woken(w, r, {t}) /\ Same(w, r, WakeFields)
      /\ w.blkst[t] = "FINISH" /\ \A x \in All \ {t} : w.blkst[x] = r.blkst[x]
  BY SMTT(30), <1>1, PendTaskEnd
<1>3. {t} \in SUBSET Blocked(r)
  OBVIOUS
<1>4. Calm(w, r)
  BY <1>2, <1>3, CalmWoken
<1>5. /\ \A x \in All \ {t} : w.state[x] = r.state[x] /\ w.blkobj[x] = r.blkobj[x]
      /\ w.state[t] \in {"RDY", "SUSPENDED"}
  BY <1>2 DEF Woken, Blocked
<1>6. \A x \in All : x \in Blocked(w) <=> x \in Blocked(r) /\ x # t
  BY <1>5 DEF Blocked
<1> QED
  BY <1>2, <1>4, <1>5, <1>6 DEF Wakes, Woken, Same

\* The first task of a block list waits for the object.
LEMMA FirstWaiter ==
  ASSUME NEW r, Core(r), NEW o \in Obj, r.blk[o] # <<>>, NEW t, t = Head(r.blk[o])
  PROVE  t \in Blocked(r) /\ r.blkobj[t] = o /\ t \in Task /\ t \in All
<1>1. ToSet(r.blk[o]) = {x \in Blocked(r) : r.blkobj[x] = o} /\ r.blk[o] \in Seq(Task)
  BY DEF Core, Lists, Blk
<1>2. t = r.blk[o][1] /\ 1 \in 1..Len(r.blk[o])
  BY <1>1
<1>3. t \in ToSet(r.blk[o]) /\ t \in Task
  BY <1>1, <1>2, ToSetDef
<1> QED
  BY <1>1, <1>3 DEF All

\* The first task of a block list is the most urgent one.
LEMMA HeadLeast ==
  ASSUME NEW r, Core(r), NEW o \in Obj, r.blk[o] # <<>>, NEW t, t = Head(r.blk[o]),
         NEW x \in Blocked(r), r.blkobj[x] = o
  PROVE  r.prio[t] <= r.prio[x]
<1>1. PICK l : l = r.blk[o]
  OBVIOUS
<1>2. l \in Seq(Task) /\ ToSet(l) = {y \in Blocked(r) : r.blkobj[y] = o} /\ Ordered(l, r.prio)
  BY <1>1 DEF Core, Lists, Blk
<1>3. PICK j \in 1..Len(l) : l[j] = x
  <2>1. x \in ToSet(l)
    BY <1>2
  <2> QED
    BY <1>2, <2>1, ToSetDef
<1>4. t = l[1] /\ 1 \in 1..Len(l)
  BY <1>1, <1>2, <1>3
<1>5. r.prio \in [All -> Prio] /\ x \in All
  BY DEF Core, Lists, Typed, Blocked
<1>6. r.prio[x] <= r.prio[x]
  BY <1>5, CoreAssumption DEF Prio
<1>7. 1 < j => r.prio[t] <= r.prio[x]
  BY <1>2, <1>3, <1>4 DEF Ordered
<1> QED
  BY <1>3, <1>4, <1>6, <1>7

\* who still waits in q waits for what it waited for in r, with the same priority
StillWait(q, r) ==
    \A x \in Blocked(q) : x \in Blocked(r) /\ q.blkobj[x] = r.blkobj[x] /\ q.prio[x] = r.prio[x]

\* Wake-ups alone leave the others where they are.
LEMMA StillCalm ==
  ASSUME NEW r, NEW q, Calm(q, r), q.prio = r.prio
  PROVE  StillWait(q, r)
  BY DEF Calm, Kept, Freed, StillWait, Blocked

\* The first waiter of an object is served.
LEMMA ServesNext ==
  ASSUME NEW r, NEW q, Core(q), StillWait(q, r), Deserved(q, r), NEW o \in Obj \ Event,
         q.blk[o] # <<>>, NEW t, t = Head(q.blk[o]), NEW w, w = pend_task_wakeup(q, t)
  PROVE  Deserved(w, r)
<1>1. t \in Blocked(q) /\ q.blkobj[t] = o
  BY FirstWaiter
<1>2. Wakes(w, q, t)
  BY <1>1, WakeUp
<1>3. \A x \in All \ {t} : w.blkst[x] = q.blkst[x]
  BY <1>2 DEF Wakes
<1>4. w.actl = q.actl /\ w.flags = q.flags
  BY <1>2, FieldNames DEF Wakes, Same, WakeFields
<1>5. \A x \in Blocked(w) : x \in Blocked(q) /\ x # t /\ x \in All /\ w.blkobj[x] = q.blkobj[x]
  BY <1>2 DEF Wakes, Blocked
<1>6. \A x \in Served(w, r) \ {t} : x \in Served(q, r)
  BY <1>2, <1>3 DEF Wakes, Served, Blocked
<1>7. ASSUME NEW y \in Served(w, r) \ {t}
      PROVE  LET p == r.blkobj[y] IN
        /\ p \in Event => /\ Met(r.want[y], w.actl[y])
                          /\ r.want[y].clear => r.want[y].flags \cap w.flags[p] = {}
        /\ p \notin Event => \A x \in Blocked(w) : w.blkobj[x] = p => r.prio[y] <= r.prio[x]
  BY <1>4, <1>5, <1>6, <1>7 DEF Deserved
<1>8. r.blkobj[t] = o /\ \A x \in Blocked(w) : w.blkobj[x] = o => r.prio[t] <= r.prio[x]
  <2>1. \A x \in Blocked(q) : q.blkobj[x] = o => q.prio[t] <= q.prio[x]
    BY HeadLeast
  <2> QED
    BY <1>1, <1>5, <2>1 DEF StillWait
<1> QED
  BY <1>7, <1>8 DEF Deserved

\* A mutex somebody waits for goes to the first of them.
LEMMA FreeFirst ==
  ASSUME NEW r, NEW l \in Seq(Mutex), IsInjective(l), NEW u \in Task,
         NEW n \in 0..(Len(l) - 1), NEW c, c[1] = r, c[2] = l, c[3] = u, NEW m, m = l[n + 1],
         r.live[m], NEW q, FreeInv(c, q, n), q.blk[m] # <<>>, NEW s, s = FreeStep(c, q, m)
  PROVE  FreeInv(c, s, n + 1)
<1>1. /\ Calm(q, r) /\ Core(q) /\ IsK(q) /\ Same(q, r, EndFields \cup {"owner", "mlist"}) /\ m \in Mutex
      /\ q.owner \in [Mutex -> Task \cup {NULL}] /\ q.mlist \in [All -> Seq(Mutex)]
      /\ Handing(q.mlist, q.owner, q.state, r.live, r.owner, l, u, n)
      /\ Away(Blocked(q), q.blkobj, q.owner) /\ Typed(q)
  BY SMTT(30) DEF FreeInv, Calm, Core, Lists, Typed
<1>2. q.owner[m] = u /\ u # NULL /\ u \in All
  BY <1>1, CoreAssumption DEF Handing, All
<1>3. PICK t : t = Head(q.blk[m])
  OBVIOUS
<1>4. t \in Blocked(q) /\ q.blkobj[t] = m /\ t \in Task /\ t \in All
  <2>1. m \in Obj
    BY <1>1 DEF Obj
  <2> QED
    BY <1>1, <1>3, <2>1, FirstWaiter
<1>5. t # u
  BY <1>1, <1>2, <1>4 DEF Away
<1>6. PICK w : w = pend_task_wakeup(q, t)
  OBVIOUS
<1>7. Wakes(w, q, t)
  BY <1>1, <1>4, <1>6, WakeUp
<1>8. Calm(w, q) /\ Core(w) /\ Same(w, q, WakeFields)
  BY <1>7 DEF Wakes
<1>9. /\ \A x \in All : x \in Blocked(w) <=> x \in Blocked(q) /\ x # t
      /\ \A x \in All \ {t} : w.state[x] = q.state[x] /\ w.blkobj[x] = q.blkobj[x]
      /\ w.state[t] \in {"RDY", "SUSPENDED"}
  BY <1>7 DEF Wakes
<1>10. w.owner = q.owner /\ w.mlist = q.mlist /\ IsK(w)
  BY <1>8, FieldNames DEF Same, WakeFields
<1>11. PICK z : z = <<m>> \o q.mlist[t]
  OBVIOUS
<1>12. s = [w EXCEPT !.owner[m] = t, !.mlist[t] = z]
  BY ZenonT(30), <1>3, <1>6, <1>10, <1>11 DEF FreeStep, mutex_free_one, mutex_to_task
<1>13. /\ Same(s, w, {"owner", "mlist"}) /\ s.owner = [q.owner EXCEPT ![m] = t]
       /\ s.mlist = [q.mlist EXCEPT ![t] = z]
  <2>1. IsK(w)
    BY <1>10
  <2>2. Same(s, w, {"owner", "mlist"})
    BY ZenonT(30), <1>12, <2>1, FieldNames DEF Same, IsK
  <2>3. s.owner = [w.owner EXCEPT ![m] = t] /\ s.mlist = [w.mlist EXCEPT ![t] = z]
    BY <1>12, <2>1, FieldNames DEF IsK
  <2> QED
    BY <1>10, <2>2, <2>3
<1>14. /\ s.owner \in [Mutex -> Task \cup {NULL}] /\ s.owner[m] = t
       /\ \A x \in Mutex \ {m} : s.owner[x] = q.owner[x]
  BY <1>1, <1>4, <1>13
<1>15. \A x \in All : ToSet(q.mlist[x]) \in SUBSET Mutex
  BY <1>1, ToSetDef
<1>16. m \notin ToSet(q.mlist[t])
  BY <1>1, <1>2, <1>4, <1>5 DEF Handing
<1>17. z \in Seq(Mutex) /\ IsInjective(z) /\ ToSet(z) = ToSet(q.mlist[t]) \cup {m}
  <2>1. q.mlist[t] \in Seq(Mutex) /\ IsInjective(q.mlist[t])
    BY <1>1, <1>4 DEF Handing
  <2> QED
    BY <1>1, <1>16, <1>11, <2>1, ConsProperties
<1>18. /\ s.mlist \in [All -> Seq(Mutex)] /\ s.mlist[t] = z
       /\ \A x \in All \ {t} : s.mlist[x] = q.mlist[x]
  BY <1>1, <1>4, <1>13, <1>17
<1>19. \A x \in Blocked(w) : w.blkobj[x] \in Mutex => s.owner[w.blkobj[x]] \in Task
  BY <1>4, <1>8, <1>10, <1>14 DEF Core
<1>20. Same(s, w, {"owner", "mlist", "nested", "live"}) /\ s.state = w.state /\ s.blkobj = w.blkobj
  BY <1>13, FieldNames DEF Same
<1>21. Core(s) /\ Calm(s, w)
  BY <1>8, <1>14, <1>18, <1>19, <1>20, OwnerCore
<1>22. Calm(s, r)
  BY <1>1, <1>8, <1>21, CalmTrans
<1>23. Same(s, r, EndFields \cup {"owner", "mlist"})
  BY <1>1, <1>8, <1>13 DEF Same, EndFields
<1>24. Away(Blocked(s), s.blkobj, s.owner)
  <2>1. \A x \in Blocked(s) : x \in Blocked(q) /\ s.blkobj[x] = q.blkobj[x] /\ x # t
    BY <1>9, <1>20 DEF Blocked
  <2> QED
    BY SMTT(30), <1>1, <1>14, <2>1 DEF Away
<1>25. Handing(s.mlist, s.owner, s.state, r.live, r.owner, l, u, n + 1)
  <2>1. s.mlist[u] = l
    BY <1>1, <1>2, <1>5, <1>18 DEF Handing
  <2>2. \A x \in All : IsInjective(s.mlist[x])
    BY <1>1, <1>17, <1>18 DEF Handing
  <2>3. \A x \in All \ {u} : \A y \in ToSet(s.mlist[x]) : r.live[y] /\ s.owner[y] = x
    <3>1. ASSUME NEW x \in All \ {u, t}, NEW y \in ToSet(s.mlist[x])
          PROVE  r.live[y] /\ s.owner[y] = x
      <4>1. y \in ToSet(q.mlist[x]) /\ x \in All \ {u}
        BY <1>18
      <4>2. r.live[y] /\ q.owner[y] = x /\ y \in Mutex
        BY <1>1, <1>15, <4>1 DEF Handing
      <4> QED
        BY <1>2, <1>14, <4>2
    <3>2. \A y \in ToSet(s.mlist[t]) : r.live[y] /\ s.owner[y] = t
      BY <1>1, <1>4, <1>5, <1>14, <1>15, <1>17, <1>18 DEF Handing
    <3> QED
      BY <3>1, <3>2
  <2>4. \A i \in 1..Len(l) : s.owner[l[i]] = u <=> i > n + 1
    <3>1. \A i \in 1..Len(l) : i # n + 1 => l[i] # m /\ l[i] \in Mutex
      BY SMTT(30) DEF IsInjective
    <3> QED
      BY <1>1, <1>5, <1>14, <3>1 DEF Handing
  <2>5. \A x \in Mutex : r.live[x] /\ s.owner[x] \notin {NULL, u} =>
          x \in ToSet(s.mlist[s.owner[x]]) /\ s.state[s.owner[x]] # "DELETED"
    <3>1. \A x \in Mutex : q.owner[x] \notin {NULL, u} => q.owner[x] \in All
      BY <1>1 DEF All
    <3>2. ASSUME NEW x \in Mutex \ {m}, r.live[x], s.owner[x] \notin {NULL, u}
          PROVE  x \in ToSet(s.mlist[s.owner[x]]) /\ s.state[s.owner[x]] # "DELETED"
      <4>1. s.owner[x] = q.owner[x] /\ q.owner[x] \in All
        BY <1>14, <3>1, <3>2
      <4>2. x \in ToSet(q.mlist[q.owner[x]]) /\ q.state[q.owner[x]] # "DELETED"
        BY <1>1, <3>2, <4>1 DEF Handing
      <4>3. x \in ToSet(s.mlist[q.owner[x]])
        BY <1>17, <1>18, <4>1, <4>2
      <4>4. s.state[q.owner[x]] # "DELETED"
        BY <1>9, <1>20, <4>1, <4>2
      <4> QED
        BY <4>1, <4>3, <4>4
    <3>4. m \in ToSet(s.mlist[s.owner[m]]) /\ s.state[s.owner[m]] # "DELETED"
      BY <1>9, <1>14, <1>17, <1>18, <1>20
    <3> QED
      BY <3>2, <3>4
  <2>6. \A x \in Mutex : (s.owner[x] # NULL => r.owner[x] # NULL) /\ (s.owner[x] = u => r.owner[x] = u)
    BY <1>1, <1>2, <1>5, <1>14 DEF Handing
  <2> QED
    BY <2>1, <2>2, <2>3, <2>4, <2>5, <2>6 DEF Handing
<1>26. Deserved(s, r) /\ s.prio = r.prio
  <2>1. Deserved(q, r) /\ q.prio = r.prio
    BY DEF FreeInv
  <2>2. StillWait(q, r)
    BY <1>1, <2>1, StillCalm
  <2>3. m \in Obj \ Event
    BY <1>1, CoreAssumption DEF Obj
  <2>4. Deserved(w, r)
    BY <1>1, <1>3, <1>6, <2>1, <2>2, <2>3, ServesNext
  <2>5. /\ s.blkst = w.blkst /\ s.actl = w.actl /\ s.flags = w.flags /\ s.prio = w.prio
        /\ w.prio = q.prio
    BY <1>8, <1>13, FieldNames DEF Same, WakeFields
  <2> QED
    BY <1>20, <2>1, <2>4, <2>5, ServesSame
<1> QED
  BY <1>22, <1>23, <1>24, <1>25, <1>26 DEF FreeInv

\* task u, which is not deleted, owns no mutex any more
MutexesFreed(q, r, u) ==
    /\ Sys(q) /\ Same(q, r, EndFields \cup {"owner", "mlist"}) /\ q.state[u] # "DELETED"
    /\ \A m \in Mutex : q.live[m] => q.owner[m] # u
    /\ \A t \in All : r.state[t] = "RDY" => q.state[t] = "RDY"
    /\ Deserved(q, r)

\* task_mutex_free hands all mutexes of the task over.
LEMMA TaskMutexFree ==
  ASSUME NEW r, Sys(r), NEW u \in Task, r.state[u] # "DELETED", NEW q, q = task_mutex_free(r, u)
  PROVE  MutexesFreed(q, r, u)
<1>0. /\ Core(r) /\ IsK(r) /\ u \in All /\ r.mlist \in [All -> Seq(Mutex)]
      /\ Owns(r.mlist, r.live, r.owner, r.nested, r.state)
  BY AllTypes DEF Sys, All
<1>1. PICK l : l = r.mlist[u]
  OBVIOUS
<1>2. l \in Seq(Mutex) /\ IsInjective(l) /\ \A m \in ToSet(l) : r.live[m] /\ r.owner[m] = u
  BY <1>0, <1>1 DEF Owns
<1>3. PICK c : c = <<r, l, u>>
  OBVIOUS
<1>4. c[1] = r /\ c[2] = l /\ c[3] = u
  BY <1>3
<1>5. FreeInv(c, r, 0)
  BY <1>1, <1>4, FreeStart
<1>6. \A n \in 0..(Len(l) - 1) : \A x : FreeInv(c, x, n) => FreeInv(c, FreeStep(c, x, l[n + 1]), n + 1)
  <2>1. SUFFICES ASSUME NEW n \in 0..(Len(l) - 1), NEW x, FreeInv(c, x, n)
                 PROVE  FreeInv(c, FreeStep(c, x, l[n + 1]), n + 1)
    OBVIOUS
  <2>2. PICK m : m = l[n + 1]
    OBVIOUS
  <2>3. r.live[m]
    <3>1. n + 1 \in 1..Len(l)
      BY <1>2
    <3> QED
      BY <1>2, <2>2, <3>1, ToSetDef
  <2>4. PICK y : y = FreeStep(c, x, m)
    OBVIOUS
  <2>5. CASE x.blk[m] = <<>>
    BY <1>2, <1>4, <2>1, <2>2, <2>4, <2>5, FreeNobody
  <2>6. CASE x.blk[m] # <<>>
    BY <1>2, <1>4, <2>1, <2>2, <2>3, <2>4, <2>6, FreeFirst
  <2> QED
    BY <2>2, <2>4, <2>5, <2>6
<1>7. PICK w : w = F!Walk(c, r, l)
  OBVIOUS
<1>8. FreeInv(c, w, Len(l))
  BY <1>2, <1>5, <1>6, <1>7, F!WalkInduction
<1>9. q = [w EXCEPT !.mlist[u] = <<>>]
  <2>1. F!Walk(c, r, l) = FoldLeft(mutex_free_one, r, l)
    BY DEF FreeStep, F!Walk, FoldLeft, MapThenFoldSet, Max, F!FoldLeft, F!MapThenFoldSet, F!Max
  <2> QED
    BY <1>1, <1>7, <2>1 DEF task_mutex_free
<1>10. /\ Calm(w, r) /\ Core(w) /\ IsK(w) /\ Same(w, r, EndFields \cup {"owner", "mlist"})
       /\ Away(Blocked(w), w.blkobj, w.owner)
       /\ Handing(w.mlist, w.owner, w.state, r.live, r.owner, l, u, Len(l))
       /\ w.owner \in [Mutex -> Task \cup {NULL}] /\ w.mlist \in [All -> Seq(Mutex)]
  BY <1>4, <1>8 DEF FreeInv, Calm, Core, Lists, Typed
<1>11. Same(q, w, {"mlist"}) /\ q.mlist = [w.mlist EXCEPT ![u] = <<>>]
  BY <1>9, <1>10, FieldNames DEF Same, IsK
<1>12. /\ q.mlist \in [All -> Seq(Mutex)] /\ q.mlist[u] = <<>>
       /\ \A x \in All \ {u} : q.mlist[x] = w.mlist[x]
  BY <1>0, <1>10, <1>11
<1>13. /\ Same(q, w, {"owner", "mlist", "nested", "live"}) /\ q.owner = w.owner
       /\ q.state = w.state /\ q.blkobj = w.blkobj /\ q.blk = w.blk
  BY <1>11, FieldNames DEF Same
<1>14. Core(q) /\ Calm(q, w)
  <2>1. \A t \in Blocked(w) : w.blkobj[t] \in Mutex => q.owner[w.blkobj[t]] \in Task
    BY <1>10, <1>13 DEF Core
  <2>2. q.owner \in [Mutex -> Task \cup {NULL}]
    BY <1>10, <1>13
  <2> QED
    BY <1>10, <1>12, <1>13, <2>1, <2>2, OwnerCore
<1>15. Calm(q, r)
  BY <1>10, <1>14, CalmTrans
<1>16. Same(q, r, EndFields \cup {"owner", "mlist"})
  BY <1>10, <1>11 DEF Same
<1>17. /\ q.active = r.active /\ q.lock = r.lock /\ q.intr = r.intr /\ q.susp = r.susp
       /\ q.live = r.live /\ q.nested = r.nested /\ q.count = r.count /\ q.flags = r.flags
       /\ q.want = r.want /\ q.pc = r.pc
  BY <1>16, FieldNames DEF Same, EndFields, WakeFields, PriFields
<1>18. \A m \in Mutex : q.live[m] => q.owner[m] # u
  <2>1. SUFFICES ASSUME NEW m \in Mutex, r.live[m], w.owner[m] = u
                 PROVE  FALSE
    BY <1>13, <1>17
  <2>2. r.owner[m] = u /\ u # NULL
    BY <1>10, <2>1, CoreAssumption DEF Handing, All
  <2>3. m \in ToSet(l)
    BY <1>0, <1>1, <2>1, <2>2 DEF Owns
  <2>4. PICK i \in 1..Len(l) : l[i] = m
    BY <1>2, <2>3, ToSetDef
  <2> QED
    BY <1>2, <1>10, <2>1, <2>4 DEF Handing
<1>19. \A t \in All : Kept(q, r, t) \/ Freed(q, r, t)
  BY <1>15 DEF Calm
<1>20. q.state[u] # "DELETED" /\ \A t \in All : r.state[t] = "RDY" => q.state[t] = "RDY"
  BY <1>0, <1>19 DEF Kept, Freed
<1>21. Types(q) /\ Args(q)
  BY <1>16, FieldNames DEF Sys, Types, Args, Same, EndFields, WakeFields, PriFields
<1>22. Waits(q)
  <2>1. ToSet(q.tickl) \subseteq All
    BY <1>14 DEF Core, Lists, Tick, All
  <2>2. Timed(q) /\ TimeLeft(q)
    BY <1>19, <2>1 DEF Sys, Waits, Timed, TimeLeft, Kept, Freed
  <2>3. \A t \in All : q.state[t] \in {"SLEEP", "SLEEP_SUSPENDED"} => t \in ToSet(q.tickl)
    BY <1>19 DEF Sys, Waits, Kept, Freed
  <2> QED
    BY <2>2, <2>3 DEF Waits
<1>23. Suspended(q)
  BY <1>17, <1>19 DEF Sys, Suspended, Kept, Freed
<1>24. Denied(Blocked(q), q.blkobj, q.live, q.owner, q.count, q.want, q.flags)
  <2>1. \A t \in Blocked(q) : t \in Blocked(r) /\ q.blkobj[t] = r.blkobj[t]
    BY <1>19 DEF Blocked, Kept, Freed
  <2>2. \A t \in Blocked(q) : q.blkobj[t] \in Mutex => q.owner[q.blkobj[t]] \in Task \ {t}
    <3>1. Blocked(q) = Blocked(w)
      BY <1>13 DEF Blocked
    <3> QED
      BY <1>10, <1>13, <1>14, <3>1 DEF Away, Core
  <2>3. Denied(Blocked(r), r.blkobj, r.live, r.owner, r.count, r.want, r.flags)
    BY DEF Sys
  <2> QED
    BY <1>17, <2>1, <2>2, <2>3 DEF Denied
<1>25. Owns(q.mlist, q.live, q.owner, q.nested, q.state)
  <2>1. \A t \in All : IsInjective(q.mlist[t])
    <3>1. IsInjective(<<>>)
      BY DEF IsInjective
    <3> QED
      BY <1>10, <1>12, <3>1 DEF Handing
  <2>2. \A t \in All : \A m \in ToSet(q.mlist[t]) : q.live[m] /\ q.owner[m] = t
    <3>1. q.mlist[u] \in Seq(Mutex)
      BY <1>0, <1>12
    <3>2. ToSet(q.mlist[u]) = {}
      BY <1>12, <3>1, ToSetDef
    <3> QED
      BY <1>10, <1>12, <1>13, <1>17, <3>2 DEF Handing
  <2>3. ASSUME NEW m \in Mutex, q.live[m], q.owner[m] # NULL
        PROVE  /\ m \in ToSet(q.mlist[q.owner[m]]) /\ q.nested[m] # 0
               /\ q.state[q.owner[m]] # "DELETED"
    <3>1. q.owner[m] # u /\ q.owner[m] \in All
      BY <1>10, <1>13, <1>18, <2>3 DEF All
    <3>2. m \in ToSet(w.mlist[w.owner[m]]) /\ w.state[w.owner[m]] # "DELETED"
      BY <1>10, <1>13, <1>17, <2>3, <3>1 DEF Handing
    <3>3. r.owner[m] # NULL
      BY <1>10, <1>13, <2>3 DEF Handing
    <3>4. r.nested[m] # 0
      BY <1>0, <1>17, <2>3, <3>3 DEF Owns
    <3> QED
      BY <1>12, <1>13, <1>17, <3>1, <3>2, <3>4
  <2> QED
    BY <2>1, <2>2, <2>3 DEF Owns
<1>26. Sys(q)
  BY <1>14, <1>21, <1>22, <1>23, <1>24, <1>25 DEF Sys
<1>27. Deserved(q, r)
  <2>1. Deserved(w, r)
    BY <1>4, <1>8 DEF FreeInv
  <2>2. q.blkst = w.blkst /\ q.actl = w.actl /\ q.flags = w.flags
    BY <1>11, FieldNames DEF Same
  <2> QED
    BY <1>13, <2>1, <2>2, ServesSame
<1> QED
  BY <1>16, <1>18, <1>20, <1>26, <1>27 DEF MutexesFreed

\* A task that owns nothing is gone: it is on no list.
Gone(q, r, u) ==
    /\ Core(q) /\ Same(q, r, EndFields) /\ q.state[u] = "DELETED" /\ u \notin ToSet(q.tickl)
    /\ q.blkst = r.blkst
    /\ \A x \in All \ {u} : Kept(q, r, x)

\* A task that is gone is not served.
LEMMA GoneServes ==
  ASSUME NEW r, NEW s, Deserved(s, r), NEW u, NEW q, Gone(q, s, u)
  PROVE  Deserved(q, r)
<1>1. q.actl = s.actl /\ q.flags = s.flags /\ q.blkst = s.blkst
  BY FieldNames DEF Gone, Same, EndFields, WakeFields, PriFields
<1>2. \A x \in All \ {u} : q.state[x] = s.state[x] /\ q.blkobj[x] = s.blkobj[x]
  BY DEF Gone, Kept
<1>3. q.state[u] = "DELETED"
  BY DEF Gone
<1>4. \A x \in Blocked(q) : x \in Blocked(s) /\ q.blkobj[x] = s.blkobj[x]
  BY <1>2, <1>3 DEF Blocked
<1>5. \A x \in Served(q, r) : x \in Served(s, r)
  BY <1>1, <1>2, <1>3 DEF Served, Blocked
<1> QED
  BY <1>1, <1>4, <1>5 DEF Deserved

\* The invariant holds without it.
LEMMA GoneSys ==
  ASSUME NEW r, Sys(r), NEW u \in Task, \A m \in Mutex : r.live[m] => r.owner[m] # u,
         NEW q, Gone(q, r, u)
  PROVE  Sys(q)
<1>0. /\ Core(q) /\ Same(q, r, EndFields) /\ q.state[u] = "DELETED" /\ u \notin ToSet(q.tickl)
      /\ \A x \in All \ {u} : Kept(q, r, x)
  BY DEF Gone
<1>1. /\ q.live = r.live /\ q.owner = r.owner /\ q.count = r.count /\ q.flags = r.flags
      /\ q.mlist = r.mlist /\ q.nested = r.nested /\ q.susp = r.susp /\ q.want = r.want
  BY <1>0, FieldNames DEF Same, EndFields, WakeFields, PriFields
<1>2. ToSet(q.tickl) \subseteq All
  BY <1>0 DEF Core, Lists, Tick, All
<1>3. Waits(q)
  <2>1. Timed(q) /\ TimeLeft(q)
    BY <1>0, <1>2 DEF Sys, Waits, Timed, TimeLeft, Kept
  <2>2. \A x \in All : q.state[x] \in {"SLEEP", "SLEEP_SUSPENDED"} => x \in ToSet(q.tickl)
    BY <1>0 DEF Sys, Waits, Kept
  <2> QED
    BY <2>1, <2>2 DEF Waits
<1>4. Suspended(q)
  BY <1>0, <1>1 DEF Sys, Suspended, Kept
<1>5. \A x \in Blocked(q) : x \in Blocked(r) /\ q.blkobj[x] = r.blkobj[x]
  BY <1>0 DEF Blocked, Kept
<1>6. Denied(Blocked(q), q.blkobj, r.live, r.owner, r.count, r.want, r.flags)
  <2>1. Denied(Blocked(r), r.blkobj, r.live, r.owner, r.count, r.want, r.flags)
    BY DEF Sys
  <2> QED
    BY <1>5, <2>1 DEF Denied
<1>7. Owns(r.mlist, r.live, r.owner, r.nested, q.state)
  <2>1. \A x \in All \ {u} : r.state[x] # "DELETED" => q.state[x] # "DELETED"
    BY <1>0 DEF Kept
  <2>2. \A m \in Mutex : r.owner[m] # NULL => r.owner[m] \in All
    BY DEF Sys, Core, Lists, Typed, All
  <2>3. Owns(r.mlist, r.live, r.owner, r.nested, r.state)
    BY DEF Sys
  <2>4. \A m \in Mutex : r.live[m] /\ r.owner[m] # NULL => q.state[r.owner[m]] # "DELETED"
    BY <2>1, <2>2, <2>3 DEF Owns
  <2> QED
    BY <2>3, <2>4 DEF Owns
<1>8. Types(q) /\ Args(q)
  BY <1>0, FieldNames DEF Sys, Types, Args, Same, EndFields, WakeFields, PriFields
<1> QED
  BY <1>0, <1>1, <1>3, <1>4, <1>6, <1>7, <1>8 DEF Sys

\* A ready task goes.
LEMMA GoneReady ==
  ASSUME NEW r, Core(r), NEW u \in Task, r.state[u] = "RDY", u \notin ToSet(r.tickl),
         NEW y, y = ready_list_rm(r, u), NEW q, q = [y EXCEPT !.state[u] = "DELETED"]
  PROVE  Gone(q, r, u)
<1>0. /\ Lists(r, Ready(r), Blocked(r), ToSet(r.tickl)) /\ u \in All /\ u \in Ready(r) /\ u # Idle
      /\ r.state \in [All -> TaskState]
      /\ r.blkst \in [All -> BlkState] /\ r.blkobj \in [All -> Obj \cup {NULL}]
  BY CoreAssumption DEF Core, Lists, Typed, All, Ready
<1>1. /\ Lists(y, Ready(r) \ {u}, Blocked(r), ToSet(r.tickl)) /\ Same(y, r, {"rdy", "hi"})
  BY <1>0, ListsReadyRm
<1>2. Same(q, y, {"state"}) /\ q.state = [y.state EXCEPT ![u] = "DELETED"]
  BY <1>1, FieldNames DEF Same, IsK
<1>3. /\ y.state = r.state /\ y.blkst = r.blkst /\ y.blkobj = r.blkobj
      /\ q.blkst = r.blkst /\ q.blkobj = r.blkobj /\ q.tickl = r.tickl /\ q.tick = r.tick
      /\ q.owner = r.owner
  BY <1>1, <1>2, FieldNames DEF Same
<1>4. Lists(q, Ready(r) \ {u}, Blocked(r), ToSet(r.tickl))
  <2>1. q.state \in [All -> TaskState]
    BY <1>0, <1>2, <1>3 DEF TaskState
  <2>2. Same(q, y, {"state", "blkst", "blkobj"})
    BY <1>2 DEF Same
  <2> QED
    BY <1>0, <1>1, <1>3, <2>1, <2>2, ListsSet
<1>5. q.state[u] = "DELETED" /\ \A x \in All \ {u} : q.state[x] = r.state[x]
  BY <1>0, <1>2, <1>3
<1>6. Ready(q) = Ready(r) \ {u}
  BY <1>5 DEF Ready
<1>7. Blocked(q) = Blocked(r)
  BY <1>5 DEF Blocked
<1>8. Core(q)
  BY <1>3, <1>4, <1>6, <1>7 DEF Core
<1>9. Same(q, r, EndFields)
  BY <1>1, <1>2 DEF Same, EndFields, WakeFields
<1>10. \A x \in All \ {u} : Kept(q, r, x)
  BY <1>3, <1>5 DEF Kept
<1> QED
  BY <1>3, <1>5, <1>8, <1>9, <1>10 DEF Gone

\* A task that is not ready goes: off is the kernel without it on the tick list, y
\* without it on its block list as well.
LEMMA GoneLists ==
  ASSUME NEW r, Core(r), NEW u \in Task, u \notin Ready(r),
         NEW off, off = tick_list_rm(r, u) \/ (u \notin ToSet(r.tickl) /\ off = r), NEW y,
         u \in Blocked(r) => y = blk_list_rm(off, u), u \notin Blocked(r) => y = off,
         NEW q, Same(q, y, {"state"}), q.state = [y.state EXCEPT ![u] = "DELETED"]
  PROVE  /\ Gone(q, r, u)
         /\ Same(q, r, {"rdy", "hi", "blk", "tick", "tickl", "state", "blkst"})
<1>0. /\ Lists(r, Ready(r), Blocked(r), ToSet(r.tickl)) /\ u \in All /\ IsK(r)
      /\ r.state \in [All -> TaskState] /\ r.tick \in [All -> Nat]
      /\ r.blkst \in [All -> BlkState] /\ r.blkobj \in [All -> Obj \cup {NULL}]
  BY DEF Core, Lists, Typed, All
<1>1. /\ Lists(off, Ready(r), Blocked(r), ToSet(r.tickl) \ {u}) /\ Same(off, r, {"tick", "tickl"})
      /\ \A x \in All \ {u} : off.tick[x] = r.tick[x]
  <2>1. CASE off = tick_list_rm(r, u)
    <3>1. /\ Lists(off, Ready(r), Blocked(r), ToSet(r.tickl) \ {u})
          /\ Same(off, r, {"tick", "tickl"}) /\ off.tick = [r.tick EXCEPT ![u] = 0]
      BY ZenonT(60), <1>0, <2>1, ListsTickRm
    <3> QED
      BY <1>0, <3>1
  <2>2. CASE u \notin ToSet(r.tickl) /\ off = r
    <3>1. ToSet(r.tickl) \ {u} = ToSet(r.tickl)
      BY <2>2
    <3> QED
      BY <1>0, <2>2, <3>1 DEF Same
  <2> QED
    BY <2>1, <2>2
<1>2. Lists(y, Ready(r), Blocked(r) \ {u}, ToSet(r.tickl) \ {u}) /\ Same(y, off, {"blk"})
  <2>1. CASE u \in Blocked(r)
    BY <1>1, <2>1, ListsBlkRm
  <2>2. CASE u \notin Blocked(r)
    <3>1. Blocked(r) \ {u} = Blocked(r) /\ y = off
      BY <2>2
    <3> QED
      BY <1>1, <3>1 DEF Same
  <2> QED
    BY <2>1, <2>2
<1>3. /\ y.state = r.state /\ y.blkst = r.blkst /\ y.blkobj = r.blkobj
      /\ q.blkst = r.blkst /\ q.blkobj = r.blkobj /\ q.tick = off.tick
  BY <1>1, <1>2, FieldNames DEF Same
<1>4. Same(q, r, {"rdy", "hi", "blk", "tick", "tickl", "state", "blkst"})
  BY <1>1, <1>2 DEF Same
<1>5. Lists(q, Ready(r), Blocked(r) \ {u}, ToSet(r.tickl) \ {u})
  <2>1. q.state \in [All -> TaskState]
    BY <1>0, <1>3 DEF TaskState
  <2>2. Same(q, y, {"state", "blkst", "blkobj"})
    BY DEF Same
  <2> QED
    BY <1>0, <1>2, <1>3, <2>1, <2>2, ListsSet
<1>6. q.state[u] = "DELETED" /\ Others(q, r, u)
  BY <1>0, <1>1, <1>3 DEF Others
<1>7. Core(q) /\ \A x \in All \ {u} : Kept(q, r, x)
  BY <1>4, <1>5, <1>6, Leave
<1>8. u \notin ToSet(q.tickl)
  BY <1>5 DEF Lists, Tick
<1>9. Same(q, r, EndFields)
  BY <1>4 DEF Same, EndFields, WakeFields
<1> QED
  BY <1>3, <1>4, <1>6, <1>7, <1>8, <1>9 DEF Gone

\* A task that waited takes the priority it lent back as it goes.
LEMMA GoneWait ==
  ASSUME NEW r, Core(r), Chains(r), NEW u \in Task, u \in Blocked(r), NEW s, Gone(s, r, u),
         Same(s, r, {"rdy", "hi", "blk", "tick", "tickl", "state", "blkst"}),
         NEW q, q = mutex_task_pri_reset(s, u)
  PROVE  Gone(q, r, u)
<1>1. /\ Core(s) /\ u \notin Blocked(s)
  BY DEF Gone, Blocked
<1>2. /\ Core(q) /\ Same(q, s, EndFields) /\ Same(q, r, EndFields)
      /\ q.state = s.state /\ q.tick = s.tick /\ q.tickl = s.tickl /\ q.blkst = s.blkst
      /\ \A w \in All \ {u} : q.blkobj[w] = s.blkobj[w]
  BY <1>1, LeaveReset
<1>3. \A w \in All \ {u} : Kept(q, r, w)
  BY <1>2 DEF Kept, Gone
<1> QED
  BY <1>2, <1>3 DEF Gone

\* the service ends with task u gone from f
EndsWithout(f, u) == \E q : Gone(q, f, u) /\ k' = exit_sched(q)

\* krhino_task_del, when the mutexes of the task have been handed over.
LEMMA TaskGone ==
  ASSUME NEW t \in Task, NEW u \in Task, krhino_task_del(t, u), NEW f,
         f = task_mutex_free(k, u), Sys(f), f.state[u] # "DELETED"
  PROVE  EndsWithout(f, u)
<1>0. Sys(f) /\ u \in All
  BY DEF All
<1>1. f = task_mutex_free(k, u)
  OBVIOUS
<1>3. Core(f) /\ IsK(f) /\ f.state \in [All -> TaskState] /\ f.state[u] # "DELETED"
  BY AllTypes DEF Sys
<1>4. Chains(f)
  BY DEF Sys, Owns, Chains
<1>5. ASSUME NEW q, Gone(q, f, u), k' = exit_sched(q)
      PROVE  EndsWithout(f, u)
  BY <1>5 DEF EndsWithout
<1>6. CASE f.state[u] = "RDY"
  <2>1. PICK y : y = ready_list_rm(f, u)
    OBVIOUS
  <2>2. PICK q : q = [y EXCEPT !.state[u] = "DELETED"]
    OBVIOUS
  <2>3. u \notin ToSet(f.tickl)
    BY <1>0, <1>6 DEF Sys, Waits, Timed
  <2>4. Gone(q, f, u)
    BY <1>3, <1>6, <2>1, <2>2, <2>3, GoneReady
  <2>5. k' = exit_sched(q)
    BY <1>1, <1>6, <2>1, <2>2 DEF krhino_task_del
  <2> QED
    BY <1>5, <2>4, <2>5
<1>7. CASE f.state[u] = "SUSPENDED"
  <2>1. u \notin Ready(f) /\ u \notin Blocked(f) /\ u \notin ToSet(f.tickl)
    BY <1>0, <1>7 DEF Ready, Blocked, Sys, Waits, Timed
  <2>2. PICK q : q = [f EXCEPT !.state[u] = "DELETED"]
    OBVIOUS
  <2>3. Same(q, f, {"state"}) /\ q.state = [f.state EXCEPT ![u] = "DELETED"]
    BY <1>3, <2>2, FieldNames DEF Same, IsK
  <2>4. Gone(q, f, u)
    BY <1>3, <2>1, <2>3, GoneLists
  <2>5. k' = exit_sched(q)
    BY <1>1, <1>7, <2>2 DEF krhino_task_del
  <2> QED
    BY <1>5, <2>4, <2>5
<1>8. CASE f.state[u] \in {"SLEEP", "SLEEP_SUSPENDED"}
  <2>1. u \notin Ready(f) /\ u \notin Blocked(f)
    BY <1>8 DEF Ready, Blocked
  <2>2. PICK off : off = tick_list_rm(f, u)
    OBVIOUS
  <2>3. IsK(off)
    BY <1>0, <1>3, <2>2, ListsTickRm DEF Core, Same
  <2>4. PICK q : q = [off EXCEPT !.state[u] = "DELETED"]
    OBVIOUS
  <2>5. Same(q, off, {"state"}) /\ q.state = [off.state EXCEPT ![u] = "DELETED"]
    BY <2>3, <2>4, FieldNames DEF Same, IsK
  <2>6. Gone(q, f, u)
    BY <1>3, <2>1, <2>2, <2>5, GoneLists
  <2>7. k' = exit_sched(q)
    BY <1>1, <1>8, <2>2, <2>4 DEF krhino_task_del
  <2> QED
    BY <1>5, <2>6, <2>7
<1>9. CASE f.state[u] \in {"PEND", "PEND_SUSPENDED"}
  <2>1. u \notin Ready(f) /\ u \in Blocked(f)
    BY <1>0, <1>9 DEF Ready, Blocked
  <2>2. PICK off : off = tick_list_rm(f, u)
    OBVIOUS
  <2>3. PICK y : y = blk_list_rm(off, u)
    OBVIOUS
  <2>4. IsK(y)
    <3>1. Lists(off, Ready(f), Blocked(f), ToSet(f.tickl) \ {u})
      BY <1>0, <1>3, <2>2, ListsTickRm DEF Core
    <3> QED
      BY <2>1, <2>3, <3>1, ListsBlkRm DEF Same
  <2>5. PICK s : s = [y EXCEPT !.state[u] = "DELETED"]
    OBVIOUS
  <2>6. Same(s, y, {"state"}) /\ s.state = [y.state EXCEPT ![u] = "DELETED"]
    BY <2>4, <2>5, FieldNames DEF Same, IsK
  <2>7. Gone(s, f, u) /\ Same(s, f, {"rdy", "hi", "blk", "tick", "tickl", "state", "blkst"})
    BY <1>3, <2>1, <2>2, <2>3, <2>6, GoneLists
  <2>8. PICK q : q = mutex_task_pri_reset(s, u)
    OBVIOUS
  <2>9. Gone(q, f, u)
    BY <1>3, <1>4, <2>1, <2>7, <2>8, GoneWait
  <2>10. k' = exit_sched(q)
    <3>1. f.state[u] \notin {"RDY", "SUSPENDED", "SLEEP", "SLEEP_SUSPENDED"}
      BY <1>9
    <3> QED
      BY <1>1, <2>2, <2>3, <2>5, <2>8, <3>1 DEF krhino_task_del
  <2> QED
    BY <1>5, <2>9, <2>10
<1> QED
  BY <1>0, <1>3, <1>6, <1>7, <1>8, <1>9 DEF TaskState

\* krhino_task_del.
LEMMA TaskDel ==
  ASSUME Good(k), NEW t \in Task, NEW u \in Task, krhino_task_del(t, u)
  PROVE  Good(k') /\ Deserved(k', k)
<1>0. /\ Sys(k) /\ k.active = t /\ t \in All /\ u \in All /\ k.lock \in Nat
      /\ k.state[u] # "DELETED"
      /\ ~ (u = t /\ k.lock > 0)
  BY AllTypes DEF Good, All, krhino_task_del, Calls
<1>1. PICK f : f = task_mutex_free(k, u)
  OBVIOUS
<1>2. /\ Sys(f) /\ Same(f, k, EndFields \cup {"owner", "mlist"}) /\ f.state[u] # "DELETED"
      /\ \A m \in Mutex : f.live[m] => f.owner[m] # u
      /\ \A x \in All : k.state[x] = "RDY" => f.state[x] = "RDY"
      /\ Deserved(f, k)
  <2>1. Sys(k) /\ k.state[u] # "DELETED"
    BY <1>0
  <2>2. MutexesFreed(f, k, u)
    BY <1>1, <2>1, TaskMutexFree
  <2> QED
    BY <2>2 DEF MutexesFreed
<1>3. /\ Core(f) /\ IsK(f) /\ f.state \in [All -> TaskState] /\ f.active = t /\ f.lock = k.lock
  <2>1. Core(f) /\ IsK(f) /\ f.state \in [All -> TaskState]
    BY <1>2, AllTypes DEF Sys
  <2> QED
    BY <1>0, <1>2, <2>1, FieldNames DEF Same, EndFields, WakeFields, PriFields
<1>5. ASSUME NEW q, Gone(q, f, u), k' = exit_sched(q)
      PROVE  Good(k') /\ Deserved(k', k)
  <2>1. Sys(q)
    BY <1>2, <1>5, GoneSys
  <2>2. q.active = t /\ q.lock = k.lock
    BY <1>3, <1>5, FieldNames DEF Gone, Same, EndFields, WakeFields, PriFields
  <2>3. q.lock # 0 => q.state[q.active] = "RDY"
    <3>1. SUFFICES ASSUME k.lock # 0
                   PROVE  q.state[t] = "RDY"
      BY <2>2
    <3>2. k.state[t] = "RDY" /\ t # u
      BY <1>0, <3>1 DEF Good, Runs
    <3> QED
      BY <1>0, <1>2, <1>5, <3>2 DEF Gone, Kept
  <2>4. Deserved(q, k) /\ IsK(q)
    BY <1>2, <1>5, GoneServes DEF Gone, Same
  <2> QED
    BY <1>5, <2>1, <2>3, <2>4, ExitSched, ExitServes
<1>6. EndsWithout(f, u)
  BY <1>1, <1>2, TaskGone
<1> QED
  BY <1>5, <1>6 DEF EndsWithout
=============================================================================
