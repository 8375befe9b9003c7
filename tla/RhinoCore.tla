------------------------------ MODULE RhinoCore ------------------------------
(***************************************************************************)
(* The internal routines of the Rhino kernel (kernel/rhino/core) that every *)
(* blocking service is built from: the ready queue (k_sched.c), the block   *)
(* lists (k_pend.c), the tick list (k_tick.c) and the priority inheritance  *)
(* protocol (k_mutex.c, task_pri_change in k_task.c).                       *)
(*                                                                          *)
(* The kernel globals and the task control blocks are one record k; each    *)
(* routine of the C code is an operator from k to the k it leaves behind,   *)
(* so that a service, which runs with interrupts disabled, is one           *)
(* composition of them.  The configuration is the single core one           *)
(* (RHINO_CONFIG_CPU_NUM = 1).                                              *)
(*                                                                          *)
(* g_tick_count is left out: a task on the tick list is stored with the     *)
(* ticks it still has to wait (tick_match - g_tick_count), which is all     *)
(* that k_tick.c ever compares.                                             *)
(***************************************************************************)
EXTENDS Integers, Sequences, FiniteSets, SequencesExt

CONSTANTS
    Task,           \* the application's tasks
    Idle,           \* g_idle_task
    IdlePri,        \* RHINO_IDLE_PRI: priorities are 0 (highest) .. IdlePri
    Mutex,          \* the kmutex_t objects
    Sem,            \* the ksem_t objects
    Queue,          \* the kqueue_t objects
    BufQueue,       \* the kbuf_queue_t objects
    Event,          \* the kevent_t objects
    NULL,           \* the null pointer
    WAIT_FOREVER,   \* RHINO_WAIT_FOREVER
    MaxChain        \* bound on the iterations of task_pri_change's loop

All     == Task \cup {Idle}
Obj     == Mutex \cup Sem \cup Queue \cup BufQueue \cup Event
Prio    == 0..IdlePri
UserPri == 0..(IdlePri - 1)

ASSUME CoreAssumption ==
    /\ IdlePri \in Nat \ {0}
    /\ Idle \notin Task
    /\ NULL \notin All \cup Obj
    /\ Mutex \cap (Sem \cup Queue \cup BufQueue \cup Event) = {}
    /\ Sem \cap (Queue \cup BufQueue \cup Event) = {}
    /\ Queue \cap (BufQueue \cup Event) = {} /\ BufQueue \cap Event = {}
    /\ WAIT_FOREVER \notin Nat
    /\ MaxChain \in Nat

\* task_stat_t without K_SEED, which no code assigns, and blk_state_t
TaskState == {"RDY", "PEND", "SUSPENDED", "PEND_SUSPENDED", "SLEEP",
              "SLEEP_SUSPENDED", "DELETED"}
BlkState  == {"FINISH", "ABORT", "TIMEOUT", "DEL"}

\* k_err_proc: the kernel meets a state it has no code for.
k_err_proc(k, e) == [k EXCEPT !.err = e]

-----------------------------------------------------------------------------
(* k_sched.c: the ready queue.  k.rdy[p] is the ring of ready tasks of      *)
(* priority p starting at cur_list_item[p]; k.hi is rq->highest_pri.        *)

ready_list_init(k, t) ==
    [k EXCEPT !.rdy[k.prio[t]] = <<t>>,
              !.hi = IF k.prio[t] < @ THEN k.prio[t] ELSE @]

ready_list_add_tail(k, t) ==
    IF k.rdy[k.prio[t]] = <<>>
    THEN ready_list_init(k, t)
    ELSE [k EXCEPT !.rdy[k.prio[t]] = Append(@, t)]

ready_list_add_head(k, t) ==
    IF k.rdy[k.prio[t]] = <<>>
    THEN ready_list_init(k, t)
    ELSE [k EXCEPT !.rdy[k.prio[t]] = <<t>> \o @]

\* a task of the running task's priority queues behind it, any other in front
ready_list_add(k, t) ==
    IF k.prio[t] = k.prio[k.active]
    THEN ready_list_add_tail(k, t)
    ELSE ready_list_add_head(k, t)

\* krhino_find_first_bit(rq->task_bit_map)
find_first_bit(rdy) == Min({p \in Prio : rdy[p] # <<>>})

\* highest_pri is looked up again only when its own list becomes empty
ready_list_rm(k, t) ==
    LET p == k.prio[t]
        rdy == [k.rdy EXCEPT ![p] = RemoveFirst(@, t)]
    IN  [k EXCEPT !.rdy = rdy,
                  !.hi = IF rdy[p] = <<>> /\ p = @ THEN find_first_bit(rdy)
                                                   ELSE @]

ready_list_head_to_tail(k, t) ==
    [k EXCEPT !.rdy[k.prio[t]] = Append(Tail(@), Head(@))]

preferred_cpu_ready_task_get(k) == Head(k.rdy[k.hi])

\* the round robin part of a tick works on the first ready task of the
\* running task's priority, which need not be the running task
time_slice_update(k) ==
    LET q == k.rdy[k.prio[k.active]]
        h == Head(q)
        left == IF k.slice[h] > 0 THEN k.slice[h] - 1 ELSE 0
    IN  IF q = <<>> \/ Len(q) = 1 \/ k.policy[h] = "FIFO" THEN k
        ELSE IF left > 0 THEN [k EXCEPT !.slice[h] = left]
        ELSE [ready_list_head_to_tail(k, h) EXCEPT !.slice[h] = k.total[h]]

-----------------------------------------------------------------------------
(* k_tick.c: the list of tasks that wait with a timeout, k.tickl, sorted by *)
(* the ticks left, k.tick.                                                  *)

\* faulty variant: at the end, whatever the time left
tick_list_append(k, t, n) == [k EXCEPT !.tick[t] = n, !.tickl = Append(@, t)]

tick_list_insert(k, t, n) ==
    LET i == SelectInSeq(k.tickl, LAMBDA x : k.tick[x] > n)
    IN  [k EXCEPT !.tick[t] = n,
                  !.tickl = InsertAt(@, IF i = 0 THEN Len(@) + 1 ELSE i, t)]

\* faulty variant: the node stays linked
tick_list_rm_linked(k, t) == [k EXCEPT !.tick[t] = 0]

tick_list_rm(k, t) ==
    [k EXCEPT !.tickl = RemoveFirst(@, t), !.tick[t] = 0]

-----------------------------------------------------------------------------
(* k_pend.c: the tasks blocked on an object, k.blk[o], in priority order.   *)

\* faulty variant: first come, first served
pend_list_add_fifo(k, q, t) == Append(q, t)

\* after the tasks of the same or of a higher priority
pend_list_add(k, q, t) ==
    LET i == SelectInSeq(q, LAMBDA x : k.prio[x] > k.prio[t])
    IN  InsertAt(q, IF i = 0 THEN Len(q) + 1 ELSE i, t)

\* faulty variant: the timeout is forgotten
pend_to_blk_obj_untimed(k, o, t, ticks) ==
    LET off == ready_list_rm([k EXCEPT !.blkobj[t] = o, !.state[t] = "PEND"], t)
    IN  [off EXCEPT !.blk[o] = pend_list_add(off, @, t)]

pend_to_blk_obj(k, o, t, ticks) ==
    LET timed == IF ticks = WAIT_FOREVER THEN k ELSE tick_list_insert(k, t, ticks)
        off   == ready_list_rm([timed EXCEPT !.blkobj[t] = o,
                                             !.state[t] = "PEND"], t)
    IN  [off EXCEPT !.blk[o] = pend_list_add(off, @, t)]

\* klist_rm(&task->task_list) of a task that is on a block list
blk_list_rm(k, t) == [k EXCEPT !.blk[k.blkobj[t]] = RemoveFirst(@, t)]

\* faulty variant: a task that is woken stays on the tick list
pend_task_end_timed(k, t, why) ==
    LET off == [blk_list_rm(k, t) EXCEPT !.blkst[t] = why, !.blkobj[t] = NULL]
    IN  IF k.state[t] = "PEND"
        THEN ready_list_add([off EXCEPT !.state[t] = "RDY"], t)
        ELSE [off EXCEPT !.state[t] = "SUSPENDED"]

\* the common part of pend_task_wakeup and pend_task_rm
pend_task_end(k, t, why) ==
    LET off  == blk_list_rm(k, t)
        next == IF k.state[t] = "PEND"
                THEN ready_list_add([off EXCEPT !.state[t] = "RDY"], t)
                ELSE [off EXCEPT !.state[t] = "SUSPENDED"]
    IN  IF k.state[t] \in {"PEND", "PEND_SUSPENDED"}
        THEN [tick_list_rm(next, t) EXCEPT !.blkst[t] = why, !.blkobj[t] = NULL]
        ELSE k_err_proc(k, "SYS_FATAL_ERR")

pend_task_wakeup(k, t) == pend_task_end(k, t, "FINISH")

pend_task_rm(k, t) == pend_task_end(k, t, "DEL")

\* faulty variant: the waiters of a deleted object are forgotten
pend_rm_none(k, o) == k

\* every task blocked on o, first to last (the loop of the del services)
pend_rm_all(k, o) == FoldLeft(pend_task_rm, k, k.blk[o])

pend_wakeup_all(k, o) == FoldLeft(pend_task_wakeup, k, k.blk[o])

\* faulty variant: a waiter keeps its place
pend_list_keep(k, t) == k

pend_list_reorder(k, t) ==
    LET o == k.blkobj[t]
    IN  [k EXCEPT !.blk[o] = pend_list_add(k, RemoveFirst(@, t), t)]

-----------------------------------------------------------------------------
(* k_mutex.c and task_pri_change: a task runs at the highest of its base    *)
(* priority and of the priorities of the tasks that wait for its mutexes.   *)
(* k.mlist[t] is the chain task->mutex_list, the latest mutex first.        *)

\* the priorities of the first waiters of the mutexes on list l
first_blk_prios(k, l) ==
    {k.prio[Head(k.blk[m])] : m \in {x \in ToSet(l) : k.blk[x] # <<>>}}

\* faulty variant: the waiters of the task's mutexes are ignored
mutex_pri_unlimited(k, t, pri) == pri

mutex_pri_limit(k, t, pri) == Min({pri} \cup first_blk_prios(k, k.mlist[t]))

mutex_pri_look(k, t) == Min({k.bprio[t]} \cup first_blk_prios(k, k.mlist[t]))

\* one iteration of the loop of task_pri_change; it ends when task is NULL
pri_change_step(s) ==
    LET k == s.k
        t == s.task
        set == [k EXCEPT !.prio[t] = s.pri]
        off == [ready_list_rm(k, t) EXCEPT !.prio[t] = s.pri]
        ord == pend_list_reorder(set, t)
        own == k.owner[k.blkobj[t]]
        pri == mutex_pri_look(ord, own)
        done(r) == [k |-> r, task |-> NULL, pri |-> s.pri]
    IN  IF t = NULL THEN s
        ELSE IF k.prio[t] = s.pri THEN done(k)
        ELSE CASE k.state[t] = "RDY" ->
                    done(IF t = k.active THEN ready_list_add_head(off, t)
                                         ELSE ready_list_add_tail(off, t))
               [] k.state[t] \in {"SLEEP", "SUSPENDED", "SLEEP_SUSPENDED"} ->
                    done(set)
               [] k.state[t] \in {"PEND", "PEND_SUSPENDED"} ->
                    IF k.blkobj[t] \notin Mutex THEN done(ord)
                    ELSE IF ord.prio[own] > s.pri
                      THEN [k |-> ord, task |-> own, pri |-> s.pri]
                    ELSE IF ord.prio[own] = k.prio[t] /\ pri # ord.prio[own]
                      THEN [k |-> ord, task |-> own, pri |-> pri]
                    ELSE done(ord)
               [] OTHER -> done(k_err_proc(k, "INV_TASK_STATE"))

\* MaxChain iterations; err tells when the loop would have gone on
task_pri_change(k, t, new) ==
    LET loop[n \in 0..MaxChain] ==
            IF n = 0 THEN [k |-> k, task |-> t, pri |-> new]
                     ELSE pri_change_step(loop[n - 1])
        last == loop[MaxChain]
    IN  IF last.task = NULL THEN last.k ELSE k_err_proc(last.k, "PRI_CHAIN")

\* t gives up mutex rel (NULL: none) and falls back to what is left
mutex_release(k, t, rel) ==
    LET k1 == [k EXCEPT !.mlist[t] = RemoveFirst(@, rel)]
        new == mutex_pri_look(k1, t)
    IN  IF new # k1.prio[t] THEN task_pri_change(k1, t, new) ELSE k1

\* faulty variant: the owner keeps the priority of a waiter that left
mutex_task_pri_keep(k, t) == k

\* t has stopped waiting: the owner of what it waited for may lose priority
mutex_task_pri_reset(k, t) ==
    LET m == k.blkobj[t]
    IN  IF m \in Mutex /\ k.live[m] /\ k.prio[k.owner[m]] = k.prio[t]
        THEN mutex_release(k, k.owner[m], NULL)
        ELSE k

\* m becomes the first mutex of t's list
mutex_to_task(k, m, t) ==
    [k EXCEPT !.owner[m] = t, !.mlist[t] = <<m>> \o @]

-----------------------------------------------------------------------------
(* k_tick.c: what a tick does to a task whose time is over.                 *)

tick_expire(k, t) ==
    LET off == tick_list_rm(k, t)
        rdy == ready_list_add([off EXCEPT !.state[t] = "RDY",
                                          !.blkst[t] = "FINISH"], t)
        unb == [blk_list_rm(off, t) EXCEPT !.blkst[t] = "TIMEOUT"]
        reset(r) == [mutex_task_pri_reset(r, t) EXCEPT !.blkobj[t] = NULL]
    IN  CASE k.state[t] = "SLEEP" -> rdy
          [] k.state[t] = "PEND" ->
               reset([ready_list_add(unb, t) EXCEPT !.state[t] = "RDY"])
          [] k.state[t] = "PEND_SUSPENDED" ->
               reset([unb EXCEPT !.state[t] = "SUSPENDED"])
          [] k.state[t] = "SLEEP_SUSPENDED" ->
               [off EXCEPT !.state[t] = "SUSPENDED", !.blkst[t] = "FINISH"]
          [] OTHER -> k_err_proc(k, "SYS_FATAL_ERR")

\* the walk stops at the first task that still has to wait
tick_list_update(k, n) ==
    LET k1 == [k EXCEPT !.tick = [t \in All |-> IF Contains(k.tickl, t)
                                                THEN @[t] - n ELSE @[t]]]
        i  == SelectInSeq(k1.tickl, LAMBDA x : k1.tick[x] > 0)
        due == SubSeq(k1.tickl, 1, IF i = 0 THEN Len(k1.tickl) ELSE i - 1)
    IN  FoldLeft(tick_expire, k1, due)
=============================================================================
