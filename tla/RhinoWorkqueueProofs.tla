------------------------- MODULE RhinoWorkqueueProofs -------------------------
(***************************************************************************)
(* The work queues are safe for every number of queues, works and callers:  *)
(* a worker never takes an entry off an empty list, and the intrusive lists *)
(* stay well formed.  WorkerFindsWork is not inductive: it needs the exact  *)
(* account of the semaphore (Accounted), which counts the callers that have *)
(* queued a work and not given the semaphore yet, and which in turn needs   *)
(* klist_rm_init to take nothing off any list, that is LinkedOnce.          *)
(***************************************************************************)
EXTENDS RhinoWorkqueue, FiniteSetTheorems, SequenceTheorems, TLAPS

\* the tasks between putting a work on q and giving q's semaphore
Givers(q) == {c \in Doer : pc[c] = "give" /\ target[c] = q}

\* each work on a list is counted by the semaphore, or by a task that is about
\* to give it, or by the worker that has just taken it
Accounted ==
    \A q \in Queue :
        Len(list[q]) = sem[q] + Cardinality(Givers(q)) + (IF wpc[q] = "deq" THEN 1 ELSE 0)

\* only queues that have been created are used
CreatedOnly ==
    /\ \A q \in Queue \ created : list[q] = <<>> /\ sem[q] = 0 /\ wpc[q] = "take"
    /\ \A c \in Doer : pc[c] = "give" => target[c] \in created
    /\ \A w \in Work : armed[w] # NULL => armed[w] \in created
    /\ \A i \in 1..Len(cmds) : cmds[i].arg # NULL => cmds[i].arg \in created

WInv == TypeOK /\ LinkedOnce /\ RunningNotQueued /\ Accounted /\ CreatedOnly

-----------------------------------------------------------------------------
\* Taking a work whose work_exit is clear off its list changes no list.
LEMMA UnlinkedStays ==
  ASSUME TypeOK, LinkedOnce, NEW w \in Work, ~ exit[w]
  PROVE  klist_rm_init(list, w) = list
  BY DEF TypeOK, LinkedOnce, klist_rm_init

\* The sets of givers are finite.
LEMMA GiversFinite ==
  ASSUME NEW q
  PROVE  IsFiniteSet(Givers(q)) /\ Cardinality(Givers(q)) \in Nat
<1>1. IsFiniteSet(Doer)
  BY FS_AddElement, WorkqueueAssumption DEF Doer
<1>2. Givers(q) \in SUBSET Doer
  BY DEF Givers
<1> QED
  BY <1>1, <1>2, FS_Subset, FS_CardinalityType

\* A task that comes to its krhino_sem_give is one giver more for its queue.
LEMMA GiverAdded ==
  ASSUME TypeOK, NEW c \in Doer, NEW q \in Queue, pc[c] = "idle",
         pc' = [pc EXCEPT ![c] = "give"], target' = [target EXCEPT ![c] = q]
  PROVE  \A r \in Queue : Cardinality(Givers(r)') =
             Cardinality(Givers(r)) + (IF r = q THEN 1 ELSE 0)
<1> TAKE r \in Queue
<1>1. CASE r = q
  <2>1. Givers(r)' = Givers(r) \cup {c} /\ c \notin Givers(r)
    BY <1>1 DEF Givers, TypeOK
  <2> QED
    BY <1>1, <2>1, GiversFinite, FS_AddElement
<1>2. CASE r # q
  <2>1. Givers(r)' = Givers(r)
    BY <1>2 DEF Givers, TypeOK
  <2> QED
    BY <1>2, <2>1, GiversFinite
<1> QED
  BY <1>1, <1>2

\* A task that has given the semaphore is one giver less.
LEMMA GiverRemoved ==
  ASSUME TypeOK, NEW c \in Doer, pc[c] = "give",
         pc' = [pc EXCEPT ![c] = "idle"], target' = [target EXCEPT ![c] = NULL]
  PROVE  \A r \in Queue : Cardinality(Givers(r)') =
             Cardinality(Givers(r)) - (IF r = target[c] THEN 1 ELSE 0)
<1> TAKE r \in Queue
<1>1. CASE r = target[c]
  <2>1. Givers(r)' = Givers(r) \ {c} /\ c \in Givers(r)
    BY <1>1, WorkqueueAssumption DEF Givers, TypeOK
  <2> QED
    BY ZenonT(60), <1>1, <2>1, GiversFinite, FS_RemoveElement
<1>2. CASE r # target[c]
  <2>1. Givers(r)' = Givers(r)
    BY <1>2 DEF Givers, TypeOK
  <2> QED
    BY <1>2, <2>1, GiversFinite
<1> QED
  BY <1>1, <1>2

-----------------------------------------------------------------------------
\* The critical section of krhino_work_run and of work_timer_cb preserves the
\* invariant.
LEMMA EnqueueWInv ==
  ASSUME WInv, NEW c \in Doer, NEW q \in created, NEW w \in Work,
         pc[c] = "idle", free_for(q, w), enqueue(c, q, w),
         UNCHANGED <<created, current, sem, wpc, cmds, cwork>>,
         armed' \in [Work -> Queue \cup {NULL}],
         \A v \in Work : armed'[v] # NULL => armed'[v] \in created
  PROVE  WInv'
<1>0. q \in Queue /\ ~ exit[w]
  BY DEF WInv, TypeOK, free_for
<1>1. list' = [list EXCEPT ![q] = Append(@, w)]
  BY <1>0, UnlinkedStays DEF WInv, enqueue
<1>2. /\ Len(list'[q]) = Len(list[q]) + 1 /\ list'[q][Len(list[q]) + 1] = w
      /\ \A i \in 1..Len(list[q]) : list'[q][i] = list[q][i]
      /\ list'[q] \in Seq(Work) /\ Len(list[q]) \in Nat
  BY <1>0, <1>1, AppendProperties, LenProperties DEF WInv, TypeOK
<1>3. \A r \in Queue : r # q => list'[r] = list[r]
  BY <1>0, <1>1 DEF WInv, TypeOK
<1>4. TypeOK'
  <2>1. list' \in [Queue -> Seq(Work)]
    BY <1>0, <1>1, <1>2 DEF WInv, TypeOK
  <2>2. /\ pc' \in [Doer -> {"idle", "give", "cancel"}]
        /\ target' \in [Doer -> Queue \cup {NULL}]
        /\ \A d \in Doer : /\ pc'[d] = "give" => target'[d] \in Queue
                           /\ pc'[d] = "cancel" => cwork'[d] \in Work
    BY <1>0 DEF WInv, TypeOK, enqueue
  <2>3. exit' \in [Work -> BOOLEAN] /\ wq' \in [Work -> Queue \cup {NULL}]
    BY <1>0 DEF WInv, TypeOK, enqueue
  <2> QED
    BY <2>1, <2>2, <2>3 DEF WInv, TypeOK
<1>5. \A v \in Work : Listed(list'[q], v) <=> (Listed(list[q], v) \/ v = w)
  <2>1. ASSUME NEW v, Listed(list'[q], v), v # w PROVE Listed(list[q], v)
    <3>1. PICK i \in 1..Len(list'[q]) : list'[q][i] = v
      BY <2>1 DEF Listed
    <3>2. i \in 1..Len(list[q])
      BY <1>2, <2>1, <3>1
    <3> QED
      BY <1>2, <3>1, <3>2 DEF Listed
  <2>2. ASSUME NEW v, Listed(list[q], v) PROVE Listed(list'[q], v)
    <3>1. PICK i \in 1..Len(list[q]) : list[q][i] = v
      BY <2>2 DEF Listed
    <3>2. i \in 1..Len(list'[q])
      BY <1>2, <3>1
    <3> QED
      BY <1>2, <3>1, <3>2 DEF Listed
  <2>3. Listed(list'[q], w)
    <3>1. Len(list[q]) + 1 \in 1..Len(list'[q])
      BY <1>2
    <3> QED
      BY <1>2, <3>1 DEF Listed
  <2> QED
    BY <2>1, <2>2, <2>3
<1>6. LinkedOnce'
  <2>1. \A r \in Queue, v \in Work : Listed(list'[r], v) <=> (exit'[v] /\ wq'[v] = r)
    BY <1>0, <1>3, <1>5 DEF WInv, TypeOK, LinkedOnce, enqueue
  <2>2. \A i \in 1..Len(list[q]) : list[q][i] # w
    BY <1>0 DEF WInv, LinkedOnce, Listed
  <2>3. \A i, j \in 1..Len(list'[q]) : list'[q][i] = list'[q][j] => i = j
    BY SMTT(30), <1>0, <1>2, <2>2 DEF WInv, LinkedOnce
  <2>4. \A r \in Queue : \A i, j \in 1..Len(list'[r]) : list'[r][i] = list'[r][j] => i = j
    BY <1>3, <2>3 DEF WInv, LinkedOnce
  <2> QED
    BY <2>1, <2>4 DEF LinkedOnce
<1>7. RunningNotQueued'
  BY <1>0, <1>3, <1>5 DEF WInv, TypeOK, RunningNotQueued, free_for
<1>8. Accounted'
  <2>1. \A r \in Queue : Cardinality(Givers(r)') =
             Cardinality(Givers(r)) + (IF r = q THEN 1 ELSE 0)
    BY <1>0, GiverAdded DEF WInv, enqueue
  <2>2. SUFFICES ASSUME NEW r \in Queue
        PROVE  Len(list'[r]) = sem[r] + Cardinality(Givers(r)')
                                 + (IF wpc[r] = "deq" THEN 1 ELSE 0)
    BY DEF Accounted
  <2>3. /\ Cardinality(Givers(r)) \in Nat /\ sem[r] \in Nat
        /\ Len(list[r]) = sem[r] + Cardinality(Givers(r))
                            + (IF wpc[r] = "deq" THEN 1 ELSE 0)
    BY GiversFinite DEF WInv, TypeOK, Accounted
  <2>4. CASE r = q
    <3>1. Cardinality(Givers(r)') = Cardinality(Givers(r)) + 1
      BY <2>1, <2>4
    <3>2. Len(list'[r]) = Len(list[r]) + 1
      BY <1>2, <2>4
    <3> QED
      BY <2>3, <3>1, <3>2
  <2>5. CASE r # q
    <3>1. list'[r] = list[r] /\ Cardinality(Givers(r)') = Cardinality(Givers(r))
      BY <1>3, <2>1, <2>3, <2>5
    <3> QED
      BY <2>3, <3>1
  <2> QED
    BY <2>4, <2>5
<1>9. CreatedOnly'
  BY <1>0, <1>3 DEF WInv, TypeOK, CreatedOnly, enqueue
<1> QED
  BY <1>4, <1>6, <1>7, <1>8, <1>9 DEF WInv
-----------------------------------------------------------------------------
\* The initial state satisfies the inductive invariant.
LEMMA InitWInv == Init => WInv
<1> SUFFICES ASSUME Init PROVE WInv
  OBVIOUS
<1>1. TypeOK
  BY WorkqueueAssumption, EmptySeq DEF Init, TypeOK
<1>2. LinkedOnce /\ RunningNotQueued
  BY EmptySeq DEF Init, LinkedOnce, RunningNotQueued, Listed
<1>3. \A q \in Queue : Givers(q) = {}
  BY DEF Init, Givers
<1>4. Accounted
  <2>1. \A q \in Queue : Cardinality(Givers(q)) = 0
    BY <1>3, FS_EmptySet
  <2>2. \A q \in Queue : Len(list[q]) = 0 /\ sem[q] = 0 /\ wpc[q] = "take"
    BY EmptySeq DEF Init
  <2> QED
    BY <2>1, <2>2 DEF Accounted
<1>5. CreatedOnly
  BY EmptySeq DEF Init, CreatedOnly
<1> QED
  BY <1>1, <1>2, <1>4, <1>5 DEF WInv

\* A step that leaves the lists, the semaphores, the workers and the givers
\* alone preserves the invariant if it keeps the types and uses created queues.
LEMMA QuietWInv ==
  ASSUME WInv, TypeOK', UNCHANGED <<created, list, sem, wpc, current, exit>>,
         \A w \in Work : exit[w] => wq'[w] = wq[w],
         \A c \in Doer : pc'[c] = "give" <=> pc[c] = "give",
         \A c \in Doer : pc[c] = "give" => target'[c] = target[c],
         \A w \in Work : armed'[w] # NULL => armed'[w] \in created,
         \A i \in 1..Len(cmds') : cmds'[i].arg # NULL => cmds'[i].arg \in created
  PROVE  WInv'
<1>1. LinkedOnce' /\ RunningNotQueued'
  BY DEF WInv, LinkedOnce, RunningNotQueued, Listed
<1>2. \A q \in Queue : Givers(q)' = Givers(q)
  BY DEF Givers
<1>3. Accounted'
  BY <1>2 DEF WInv, Accounted
<1>4. CreatedOnly'
  BY DEF WInv, CreatedOnly
<1> QED
  BY <1>1, <1>3, <1>4 DEF WInv

\* A command put into or taken out of the timer queue keeps its type.
LEMMA CmdsAppend ==
  ASSUME CreatedOnly, cmds \in Seq(Cmds), NEW m \in Cmds,
         m.arg # NULL => m.arg \in created, cmds' = Append(cmds, m)
  PROVE  /\ cmds' \in Seq(Cmds)
         /\ \A i \in 1..Len(cmds') : cmds'[i].arg # NULL => cmds'[i].arg \in created
<1>1. /\ cmds' \in Seq(Cmds) /\ Len(cmds') = Len(cmds) + 1 /\ Len(cmds) \in Nat
      /\ \A i \in 1..Len(cmds) : cmds'[i] = cmds[i]
      /\ cmds'[Len(cmds) + 1] = m
  BY AppendProperties, LenProperties
<1>2. \A i \in 1..Len(cmds') : i \in 1..Len(cmds) \/ i = Len(cmds) + 1
  BY <1>1
<1> QED
  BY <1>1, <1>2 DEF CreatedOnly

\* worker_task takes the semaphore.
LEMMA TakeWInv ==
  ASSUME WInv, NEW q \in Queue, worker_take(q)
  PROVE  WInv'
<1> USE DEF worker_take
<1>1. TypeOK'
  BY DEF WInv, TypeOK
<1>2. LinkedOnce' /\ RunningNotQueued'
  BY DEF WInv, LinkedOnce, RunningNotQueued
<1>3. \A r \in Queue : Givers(r)' = Givers(r)
  BY DEF Givers
<1>4. Accounted'
  <2>1. SUFFICES ASSUME NEW r \in Queue
        PROVE  Len(list[r]) = sem'[r] + Cardinality(Givers(r))
                                + (IF wpc'[r] = "deq" THEN 1 ELSE 0)
    BY <1>3 DEF Accounted
  <2>2. /\ Cardinality(Givers(r)) \in Nat /\ sem[r] \in Nat
        /\ Len(list[r]) = sem[r] + Cardinality(Givers(r))
                            + (IF wpc[r] = "deq" THEN 1 ELSE 0)
    BY GiversFinite DEF WInv, TypeOK, Accounted
  <2>3. CASE r = q
    BY <2>2, <2>3 DEF WInv, TypeOK
  <2>4. CASE r # q
    BY <2>2, <2>4 DEF WInv, TypeOK
  <2> QED
    BY <2>3, <2>4
<1>5. CreatedOnly'
  BY DEF WInv, TypeOK, CreatedOnly
<1> QED
  BY <1>1, <1>2, <1>4, <1>5 DEF WInv

\* worker_task takes the first work off its list.
LEMMA DeqWInv ==
  ASSUME WInv, NEW q \in Queue, worker_deq(q)
  PROVE  WInv'
<1> DEFINE w == Head(list[q])
<1>1. /\ w \in Work /\ list'[q] \in Seq(Work) /\ Len(list[q]) \in Nat
      /\ Len(list'[q]) = Len(list[q]) - 1 /\ list[q][1] = w /\ Len(list[q]) > 0
      /\ \A i \in 1..Len(list'[q]) : list'[q][i] = list[q][i + 1]
  BY HeadTailProperties, LenProperties, EmptySeq DEF WInv, TypeOK, worker_deq
<1>2. \A r \in Queue : r # q => list'[r] = list[r]
  BY DEF WInv, TypeOK, worker_deq
<1>3. TypeOK'
  <2>1. list' \in [Queue -> Seq(Work)]
    BY <1>1 DEF WInv, TypeOK, worker_deq
  <2> QED
    BY <1>1, <2>1 DEF WInv, TypeOK, worker_deq
<1>4. ~ Listed(list'[q], w)
  BY <1>1 DEF WInv, LinkedOnce, Listed
<1>5. \A v \in Work : v # w => (Listed(list'[q], v) <=> Listed(list[q], v))
  <2>1. ASSUME NEW v \in Work, v # w, Listed(list[q], v) PROVE Listed(list'[q], v)
    <3>1. PICK i \in 1..Len(list[q]) : list[q][i] = v
      BY <2>1 DEF Listed
    <3>2. i - 1 \in 1..Len(list'[q]) /\ (i - 1) + 1 = i
      BY <1>1, <2>1, <3>1
    <3> QED
      BY <1>1, <3>1, <3>2 DEF Listed
  <2>2. ASSUME NEW v \in Work, Listed(list'[q], v) PROVE Listed(list[q], v)
    <3>1. PICK i \in 1..Len(list'[q]) : list'[q][i] = v
      BY <2>2 DEF Listed
    <3>2. i + 1 \in 1..Len(list[q])
      BY <1>1, <3>1
    <3> QED
      BY <1>1, <3>1, <3>2 DEF Listed
  <2> QED
    BY <2>1, <2>2
<1>6. Listed(list[q], w)
  BY <1>1 DEF Listed
<1>7. LinkedOnce'
  <2>1. \A r \in Queue, v \in Work : Listed(list'[r], v) <=> (exit'[v] /\ wq'[v] = r)
    BY <1>1, <1>2, <1>4, <1>5, <1>6 DEF WInv, TypeOK, LinkedOnce, worker_deq
  <2>2. \A i, j \in 1..Len(list'[q]) : list'[q][i] = list'[q][j] => i = j
    <3> TAKE i, j \in 1..Len(list'[q])
    <3> HAVE list'[q][i] = list'[q][j]
    <3>1. i + 1 \in 1..Len(list[q]) /\ j + 1 \in 1..Len(list[q])
      BY <1>1
    <3>2. list[q][i + 1] = list[q][j + 1]
      BY <1>1
    <3>3. i + 1 = j + 1
      BY <3>1, <3>2 DEF WInv, LinkedOnce
    <3> QED
      BY <3>3
  <2>3. \A r \in Queue : \A i, j \in 1..Len(list'[r]) : list'[r][i] = list'[r][j] => i = j
    BY <1>2, <2>2 DEF WInv, LinkedOnce
  <2> QED
    BY <2>1, <2>3 DEF LinkedOnce
<1>8. RunningNotQueued'
  BY <1>2, <1>4 DEF WInv, TypeOK, RunningNotQueued, worker_deq
<1>9. \A r \in Queue : Givers(r)' = Givers(r)
  BY DEF Givers, worker_deq
<1>10. Accounted'
  <2>1. SUFFICES ASSUME NEW r \in Queue
        PROVE  Len(list'[r]) = sem[r] + Cardinality(Givers(r))
                                + (IF wpc'[r] = "deq" THEN 1 ELSE 0)
    BY <1>9 DEF Accounted, worker_deq
  <2>2. /\ Cardinality(Givers(r)) \in Nat /\ sem[r] \in Nat
        /\ Len(list[r]) = sem[r] + Cardinality(Givers(r))
                            + (IF wpc[r] = "deq" THEN 1 ELSE 0)
    BY GiversFinite DEF WInv, TypeOK, Accounted
  <2>3. CASE r = q
    <3>1. Len(list'[r]) = Len(list[r]) - 1 /\ wpc[r] = "deq" /\ wpc'[r] = "run"
      BY <1>1, <2>3 DEF WInv, TypeOK, worker_deq
    <3> QED
      BY <2>2, <3>1
  <2>4. CASE r # q
    BY <1>2, <2>2, <2>4 DEF WInv, TypeOK, worker_deq
  <2> QED
    BY <2>3, <2>4
<1>11. CreatedOnly'
  BY <1>2 DEF WInv, TypeOK, CreatedOnly, worker_deq
<1> QED
  BY <1>3, <1>7, <1>8, <1>10, <1>11 DEF WInv

\* Every step of the callers, the timer task and the workers preserves it.
LEMMA NextWInv == WInv /\ [Next]_wvars => WInv'
<1> SUFFICES ASSUME WInv, [Next]_wvars PROVE WInv'
  OBVIOUS
<1> USE WorkqueueAssumption
<1>1. ASSUME NEW q \in Queue, krhino_workqueue_create(q) PROVE WInv'
  <2>1. /\ list' = list /\ sem' = sem /\ wpc' = wpc
        /\ created \subseteq created' /\ created' \subseteq Queue
    BY <1>1 DEF krhino_workqueue_create, WInv, TypeOK, CreatedOnly
  <2>2. TypeOK' /\ LinkedOnce'
    BY <1>1, <2>1 DEF krhino_workqueue_create, WInv, TypeOK, LinkedOnce
  <2>3. RunningNotQueued'
    BY <1>1, <2>1 DEF krhino_workqueue_create, WInv, TypeOK, RunningNotQueued
  <2>4. \A r \in Queue : Givers(r)' = Givers(r)
    BY <1>1 DEF krhino_workqueue_create, Givers
  <2>5. Accounted'
    BY <2>1, <2>4 DEF WInv, Accounted
  <2>6. CreatedOnly'
    BY <1>1, <2>1 DEF krhino_workqueue_create, WInv, CreatedOnly
  <2> QED
    BY <2>2, <2>3, <2>5, <2>6 DEF WInv
<1>2. ASSUME NEW w \in Work, krhino_work_init(w) PROVE WInv'
  <2>1. TypeOK'
    BY <1>2 DEF krhino_work_init, WInv, TypeOK
  <2> QED
    BY <1>2, <2>1, QuietWInv DEF krhino_work_init, WInv, TypeOK, CreatedOnly
<1>3. ASSUME NEW c \in Caller, NEW q \in Queue, NEW w \in Work, work_run(c, q, w)
      PROVE  WInv'
  BY <1>3, EnqueueWInv DEF work_run, Doer, WInv, TypeOK, CreatedOnly
<1>4. ASSUME NEW c \in Caller, NEW q \in Queue, NEW w \in Work,
             work_run_delayed(c, q, w)
      PROVE  WInv'
  <2> DEFINE m == [cmd |-> "AUTO", work |-> w, arg |-> q]
  <2>1. m \in Cmds /\ m.arg \in created /\ cmds' = Append(cmds, m)
    BY <1>4 DEF work_run_delayed, Cmds
  <2>2. /\ cmds' \in Seq(Cmds)
        /\ \A i \in 1..Len(cmds') : cmds'[i].arg # NULL => cmds'[i].arg \in created
    BY <2>1, CmdsAppend DEF WInv, TypeOK
  <2>3. TypeOK'
    BY <1>4, <2>2 DEF work_run_delayed, WInv, TypeOK
  <2> QED
    BY <1>4, <2>2, <2>3, QuietWInv DEF work_run_delayed, WInv, CreatedOnly
<1>5. ASSUME NEW c \in Doer, sem_give(c) PROVE WInv'
  <2>0. target[c] \in Queue /\ target[c] \in created
    BY <1>5 DEF sem_give, WInv, TypeOK, CreatedOnly
  <2>1. TypeOK'
    BY <1>5, <2>0 DEF sem_give, WInv, TypeOK
  <2>2. LinkedOnce' /\ RunningNotQueued'
    BY <1>5 DEF sem_give, WInv, LinkedOnce, RunningNotQueued
  <2>3. \A r \in Queue : Cardinality(Givers(r)') =
             Cardinality(Givers(r)) - (IF r = target[c] THEN 1 ELSE 0)
    BY <1>5, GiverRemoved DEF sem_give, WInv
  <2>4. Accounted'
    <3>1. SUFFICES ASSUME NEW r \in Queue
          PROVE  Len(list[r]) = sem'[r] + Cardinality(Givers(r)')
                                  + (IF wpc[r] = "deq" THEN 1 ELSE 0)
      BY <1>5 DEF Accounted, sem_give
    <3>2. /\ Cardinality(Givers(r)) \in Nat /\ sem[r] \in Nat
          /\ Len(list[r]) = sem[r] + Cardinality(Givers(r))
                              + (IF wpc[r] = "deq" THEN 1 ELSE 0)
      BY GiversFinite DEF WInv, TypeOK, Accounted
    <3>3. CASE r = target[c]
      <4>1. sem'[r] = sem[r] + 1 /\ Cardinality(Givers(r)') = Cardinality(Givers(r)) - 1
        BY <1>5, <2>3, <3>3 DEF sem_give, WInv, TypeOK
      <4> QED
        BY <3>2, <4>1
    <3>4. CASE r # target[c]
      <4>1. sem'[r] = sem[r] /\ Cardinality(Givers(r)') = Cardinality(Givers(r))
        BY <1>5, <2>3, <3>2, <3>4 DEF sem_give, WInv, TypeOK
      <4> QED
        BY <3>2, <4>1
    <3> QED
      BY <3>3, <3>4
  <2>5. CreatedOnly'
    BY <1>5, <2>0 DEF sem_give, WInv, TypeOK, CreatedOnly
  <2> QED
    BY <2>1, <2>2, <2>4, <2>5 DEF WInv
<1>6. ASSUME NEW c \in Caller, NEW w \in Work, work_cancel_read(c, w) PROVE WInv'
  <2>1. TypeOK'
    BY <1>6 DEF work_cancel_read, WInv, TypeOK, Doer
  <2> QED
    BY <1>6, <2>1, QuietWInv DEF work_cancel_read, WInv, TypeOK, CreatedOnly, Doer
<1>7. ASSUME NEW c \in Caller, work_cancel_stop(c) PROVE WInv'
  <2>1. cwork[c] \in Work
    BY <1>7 DEF work_cancel_stop, WInv, TypeOK, Doer
  <2>2. /\ cmds' \in Seq(Cmds)
        /\ \A i \in 1..Len(cmds') : cmds'[i].arg # NULL => cmds'[i].arg \in created
    <3> DEFINE m == [cmd |-> "STOP", work |-> cwork[c], arg |-> NULL]
    <3>1. CASE cmds' = cmds
      BY <3>1 DEF WInv, TypeOK, CreatedOnly
    <3>2. CASE cmds' # cmds
      <4>1. m \in Cmds /\ m.arg = NULL /\ cmds' = Append(cmds, m)
        BY <1>7, <3>2 DEF work_cancel_stop, Cmds
      <4> QED
        BY <4>1, CmdsAppend DEF WInv, TypeOK
    <3> QED
      BY <3>1, <3>2
  <2>3. TypeOK'
    BY <1>7, <2>2 DEF work_cancel_stop, cancel_end, WInv, TypeOK, Doer
  <2> QED
    BY <1>7, <2>2, <2>3, QuietWInv
       DEF work_cancel_stop, cancel_end, WInv, TypeOK, CreatedOnly, Doer
<1>8. ASSUME NEW c \in Caller, work_cancel_off(c) PROVE WInv'
  <2>1. cwork[c] \in Work /\ ~ exit[cwork[c]]
    BY <1>8 DEF work_cancel_off, free_for, WInv, TypeOK, Doer
  <2>2. list' = list
    BY <1>8, <2>1, UnlinkedStays DEF work_cancel_off, WInv
  <2>3. TypeOK'
    BY <1>8, <2>1, <2>2 DEF work_cancel_off, cancel_end, WInv, TypeOK, Doer
  <2> QED
    BY <1>8, <2>1, <2>2, <2>3, QuietWInv
       DEF work_cancel_off, cancel_end, WInv, TypeOK, CreatedOnly, Doer
<1>9. ASSUME NEW c \in Caller, work_cancel_busy(c) PROVE WInv'
  <2>1. TypeOK'
    BY <1>9 DEF work_cancel_busy, cancel_end, WInv, TypeOK, Doer
  <2> QED
    BY <1>9, <2>1, QuietWInv
       DEF work_cancel_busy, cancel_end, WInv, TypeOK, CreatedOnly, Doer
<1>10. ASSUME timer_cmd_proc PROVE WInv'
  <2>1. /\ Head(cmds) \in Cmds /\ Head(cmds) = cmds[1] /\ 1 \in 1..Len(cmds)
        /\ cmds' \in Seq(Cmds) /\ Len(cmds') = Len(cmds) - 1 /\ Len(cmds) \in Nat
        /\ \A i \in 1..Len(cmds') : cmds'[i] = cmds[i + 1]
    BY <1>10, HeadTailProperties, LenProperties, EmptySeq
       DEF timer_cmd_proc, WInv, TypeOK
  <2>2. /\ Head(cmds).work \in Work /\ Head(cmds).arg \in Queue \cup {NULL}
        /\ Head(cmds).arg # NULL => Head(cmds).arg \in created
    BY <2>1 DEF Cmds, WInv, CreatedOnly
  <2>3. TypeOK'
    BY <1>10, <2>1, <2>2 DEF timer_cmd_proc, WInv, TypeOK
  <2>4. \A i \in 1..Len(cmds') : cmds'[i].arg # NULL => cmds'[i].arg \in created
    <3> TAKE i \in 1..Len(cmds')
    <3>1. i + 1 \in 1..Len(cmds)
      BY <2>1
    <3> QED
      BY <2>1, <3>1 DEF WInv, CreatedOnly
  <2>5. \A w \in Work : armed'[w] # NULL => armed'[w] \in created
    BY <1>10, <2>2 DEF timer_cmd_proc, WInv, TypeOK, CreatedOnly
  <2> QED
    BY <1>10, <2>3, <2>4, <2>5, QuietWInv DEF timer_cmd_proc
<1>11. ASSUME NEW w \in Work, work_timer_cb(w) PROVE WInv'
  <2>1. /\ armed' \in [Work -> Queue \cup {NULL}] /\ armed[w] \in created
        /\ \A v \in Work : armed'[v] # NULL => armed'[v] \in created
        /\ TimerTask \in Doer
    BY <1>11 DEF work_timer_cb, WInv, TypeOK, CreatedOnly, Doer
  <2>2. CASE free_for(armed[w], w) /\ enqueue(TimerTask, armed[w], w)
    BY <1>11, <2>1, <2>2, EnqueueWInv DEF work_timer_cb
  <2>3. CASE UNCHANGED <<list, wq, exit, pc, target>>
    <3>1. TypeOK'
      BY <1>11, <2>1, <2>3 DEF work_timer_cb, WInv, TypeOK
    <3> QED
      BY <1>11, <2>1, <2>3, <3>1, QuietWInv DEF work_timer_cb, WInv, CreatedOnly
  <2> QED
    BY <1>11, <2>2, <2>3 DEF work_timer_cb
<1>12. ASSUME NEW q \in Queue, worker_take(q) PROVE WInv'
  BY <1>12, TakeWInv
<1>13. ASSUME NEW q \in Queue, worker_deq(q) PROVE WInv'
  BY <1>13, DeqWInv
<1>14. ASSUME NEW q \in Queue, worker_clean(q) PROVE WInv'
  <2>1. TypeOK' /\ LinkedOnce' /\ RunningNotQueued'
    BY <1>14 DEF worker_clean, WInv, TypeOK, LinkedOnce, RunningNotQueued
  <2>2. \A r \in Queue : Givers(r)' = Givers(r)
    BY <1>14 DEF worker_clean, Givers
  <2>3. \A r \in Queue : wpc'[r] = "deq" <=> wpc[r] = "deq"
    BY <1>14 DEF worker_clean, WInv, TypeOK
  <2>4. Accounted'
    BY <1>14, <2>2, <2>3 DEF worker_clean, WInv, Accounted
  <2>5. CreatedOnly'
    BY <1>14 DEF worker_clean, WInv, TypeOK, CreatedOnly
  <2> QED
    BY <2>1, <2>4, <2>5 DEF WInv
<1>15. CASE UNCHANGED wvars
  <2>1. TypeOK'
    BY <1>15 DEF wvars, WInv, TypeOK
  <2> QED
    BY <1>15, <2>1, QuietWInv DEF wvars, WInv, CreatedOnly
<1> QED
  BY <1>1, <1>2, <1>3, <1>4, <1>5, <1>6, <1>7, <1>8, <1>9, <1>10, <1>11, <1>12,
     <1>13, <1>14, <1>15
     DEF Next, CallerNext, TimerNext, WorkerNext, krhino_work_run, Doer

-----------------------------------------------------------------------------
\* The inductive invariant holds in every behaviour of the work queues.
THEOREM WorkqueueInv == Spec => []WInv
  BY InitWInv, NextWInv, PTL DEF Spec

\* Type correctness of the work queues.
THEOREM WorkqueueTypeOK == Spec => []TypeOK
<1>1. WInv => TypeOK
  BY DEF WInv
<1> QED
  BY <1>1, WorkqueueInv, PTL

\* A worker that has taken its semaphore always finds a work: worker_task may
\* use work_list.next without looking.
THEOREM WorkerAlwaysFindsWork == Spec => []WorkerFindsWork
<1>1. WInv => WorkerFindsWork
  <2> SUFFICES ASSUME WInv, NEW q \in Queue, wpc[q] = "deq" PROVE list[q] # <<>>
    BY DEF WorkerFindsWork
  <2>1. Cardinality(Givers(q)) \in Nat /\ sem[q] \in Nat
    BY GiversFinite DEF WInv, TypeOK
  <2>2. Len(list[q]) = sem[q] + Cardinality(Givers(q)) + 1
    BY DEF WInv, Accounted
  <2>3. Len(list[q]) > 0
    BY <2>1, <2>2
  <2> QED
    BY <2>3, EmptySeq
<1> QED
  BY <1>1, WorkqueueInv, PTL

\* A work is linked into exactly the list its flags name, once (LinkedOnce).
THEOREM ListsWellFormed == Spec => []LinkedOnce
<1>1. WInv => LinkedOnce
  BY DEF WInv
<1> QED
  BY <1>1, WorkqueueInv, PTL

\* The work a queue is running is not waiting on the same queue: krhino_work_run
\* and krhino_work_sched may take it again only once its worker is done with it
\* (RunningNotQueued).
THEOREM RunningNeverQueued == Spec => []RunningNotQueued
<1>1. WInv => RunningNotQueued
  BY DEF WInv
<1> QED
  BY <1>1, WorkqueueInv, PTL
=============================================================================
