------------------------------ MODULE RhinoTask ------------------------------
(***************************************************************************)
(* The task services of k_task.c: create, sleep, yield, suspend, resume,    *)
(* priority change, wait abort, deletion, time slice and policy.            *)
(* Calls that return an error and change nothing are no steps.              *)
(***************************************************************************)
EXTENDS RhinoSched

CONSTANTS
    SleepTicks,    \* the times krhino_task_sleep is called with
    NewPris,       \* the priorities tasks are created with or changed to
    Slices,        \* the time slices tasks are given
    MaxSuspend     \* (suspend_nested_t)-1

\* krhino_task_sleep refuses zero ticks, task_create and krhino_task_pri_change a
\* priority that is not above that of the idle task
ASSUME TaskAssumption ==
    /\ SleepTicks \subseteq Nat \ {0}
    /\ NewPris \subseteq UserPri
    /\ Slices \subseteq Nat
    /\ MaxSuspend \in Nat

krhino_task_create(t, u, p, autorun) ==
    /\ Calls(t)
    /\ u # t /\ k.state[u] = "DELETED"
    /\ LET set(f, v) == [f EXCEPT ![u] = v]
           clear == [k EXCEPT
               !.prio = set(k.prio, p), !.bprio = set(k.bprio, p),
               !.state = set(k.state, IF autorun THEN "RDY" ELSE "SUSPENDED"),
               !.susp = set(k.susp, IF autorun THEN 0 ELSE 1),
               !.blkst = set(k.blkst, "FINISH"), !.blkobj = set(k.blkobj, NULL),
               !.tick = set(k.tick, 0), !.mlist = set(k.mlist, <<>>),
               !.policy = set(k.policy, "RR"), !.slice = set(k.slice, Slice),
               !.total = set(k.total, Slice), !.msg = set(k.msg, NULL),
               !.want = set(k.want, NULL), !.actl = set(k.actl, {}),
               !.pc = set(k.pc, "user"), !.wait = set(k.wait, NULL),
               !.arg = set(k.arg, NULL)]
       IN  k' = IF autorun THEN exit_sched(ready_list_add_tail(clear, u)) ELSE clear

krhino_task_sleep(t, ticks) ==
    /\ Calls(t)
    /\ k.lock = 0
    /\ LET asleep == tick_list_insert([k EXCEPT !.state[t] = "SLEEP"], t, ticks)
       IN  k' = exit_sched_pend(ready_list_rm(asleep, t), NULL)

krhino_task_yield(t) ==
    /\ Calls(t)
    /\ k' = exit_sched(ready_list_head_to_tail(k, t))

\* faulty variant: the running task is suspended under a scheduler lock
task_suspend_locked(u) ==
    /\ InIsr \/ Calls(k.active)
    /\ k.state[u] = "RDY"
    /\ k' = exit_sched(ready_list_rm([k EXCEPT !.susp[u] = 1,
                                               !.state[u] = "SUSPENDED"], u))

\* callable from a task and from an interrupt
krhino_task_suspend(u) ==
    /\ InIsr \/ Calls(k.active)
    /\ ~ (u = k.active /\ k.lock > 0)
    /\ \/ /\ k.state[u] = "RDY"
          /\ k' = exit_sched(ready_list_rm([k EXCEPT !.susp[u] = 1,
                                                     !.state[u] = "SUSPENDED"], u))
       \/ /\ k.state[u] \in {"SLEEP", "PEND"}
          /\ k' = exit_sched([k EXCEPT !.susp[u] = 1, !.state[u] =
                        IF @ = "SLEEP" THEN "SLEEP_SUSPENDED" ELSE "PEND_SUSPENDED"])
       \/ /\ k.state[u] \in {"SUSPENDED", "SLEEP_SUSPENDED", "PEND_SUSPENDED"}
          /\ k.susp[u] < MaxSuspend
          /\ k' = exit_sched([k EXCEPT !.susp[u] = @ + 1])

\* faulty variant: every resumed task becomes ready
task_resume_ready(u) ==
    /\ InIsr \/ Calls(k.active)
    /\ k.state[u] \in {"SUSPENDED", "SLEEP_SUSPENDED", "PEND_SUSPENDED"}
    /\ k' = exit_sched(ready_list_add([k EXCEPT !.susp[u] = 0, !.state[u] = "RDY"], u))

\* callable from a task and from an interrupt
krhino_task_resume(u) ==
    /\ InIsr \/ Calls(k.active)
    /\ k.state[u] \in {"SUSPENDED", "SLEEP_SUSPENDED", "PEND_SUSPENDED"}
    /\ LET k1 == [k EXCEPT !.susp[u] = @ - 1]
       IN  k' = exit_sched(
                  IF k1.susp[u] > 0 THEN k1
                  ELSE CASE k.state[u] = "SUSPENDED" ->
                              ready_list_add([k1 EXCEPT !.state[u] = "RDY"], u)
                         [] k.state[u] = "SLEEP_SUSPENDED" ->
                              [k1 EXCEPT !.state[u] = "SLEEP"]
                         [] OTHER -> [k1 EXCEPT !.state[u] = "PEND"])

\* the checks of krhino_task_pri_change, made with interrupts enabled
pri_change_check(t, u, p) ==
    /\ Calls(t)
    /\ k.state[u] # "DELETED"
    /\ k' = [k EXCEPT !.pc[t] = "prichg", !.arg[t] = [task |-> u, pri |-> p]]

\* its critical section
pri_change_set(t) ==
    /\ k.intr = 0 /\ k.active = t /\ k.pc[t] = "prichg"
    /\ LET u == k.arg[t].task
           limit == mutex_pri_limit(k, u, k.arg[t].pri)
           k1 == [k EXCEPT !.bprio[u] = k.arg[t].pri, !.arg[t] = NULL]
           k2 == task_pri_change(k1, u, limit)
       IN  k' = IF k2.err = k1.err THEN exit_sched(k2)
                ELSE [k2 EXCEPT !.pc[t] = "user"]

krhino_task_wait_abort(t, u) ==
    /\ Calls(t)
    /\ LET off == tick_list_rm(k, u)
           unb == ready_list_add(blk_list_rm(off, u), u)
       IN  \/ /\ k.state[u] = "RDY"
              /\ k' = exit_sched(k)
           \/ /\ k.state[u] = "SUSPENDED"
              /\ k' = exit_sched(ready_list_add([k EXCEPT !.state[u] = "RDY"], u))
           \/ /\ k.state[u] \in {"SLEEP", "SLEEP_SUSPENDED"}
              /\ k' = exit_sched([ready_list_add(off, u) EXCEPT
                                    !.state[u] = "RDY", !.blkst[u] = "ABORT"])
           \/ /\ k.state[u] \in {"PEND", "PEND_SUSPENDED"}
              /\ k' = exit_sched([mutex_task_pri_reset(
                                    [unb EXCEPT !.state[u] = "RDY", !.blkst[u] = "ABORT"], u)
                                  EXCEPT !.blkobj[u] = NULL])

\* faulty variant: the waiters of a deleted owner's mutex are left behind
mutex_free_lost(r, m) == [r EXCEPT !.owner[m] = NULL]

\* one mutex of a deleted task goes to its first waiter; owner_nested is kept
mutex_free_one(r, m) ==
    IF r.blk[m] = <<>> THEN [r EXCEPT !.owner[m] = NULL]
    ELSE LET next == Head(r.blk[m])
         IN  mutex_to_task(pend_task_wakeup(r, next), m, next)

\* faulty variant: a deleted task keeps its mutexes
task_mutex_keep(r, t) == r

\* task->mutex_list is left dangling; it is emptied here because nothing but a
\* second deletion, which the callers' guard excludes, would follow it
task_mutex_free(r, t) ==
    [FoldLeft(mutex_free_one, r, r.mlist[t]) EXCEPT !.mlist[t] = <<>>]

\* u = t: the task deletes itself, or returns from its entry (task_deathbed)
krhino_task_del(t, u) ==
    /\ Calls(t)
    /\ k.state[u] # "DELETED"
    /\ ~ (u = t /\ k.lock > 0)
    /\ LET free == task_mutex_free(k, u)
           dead(r) == [r EXCEPT !.state[u] = "DELETED"]
           gone == CASE free.state[u] = "RDY" -> dead(ready_list_rm(free, u))
                     [] free.state[u] = "SUSPENDED" -> dead(free)
                     [] free.state[u] \in {"SLEEP", "SLEEP_SUSPENDED"} ->
                          dead(tick_list_rm(free, u))
                     [] OTHER -> mutex_task_pri_reset(
                          dead(blk_list_rm(tick_list_rm(free, u), u)), u)
       IN  k' = exit_sched(gone)

krhino_task_time_slice_set(t, u, n) ==
    /\ Calls(t)
    /\ LET total == IF n > 0 THEN n ELSE Slice
       IN  k' = [k EXCEPT !.total[u] = total, !.slice[u] = total]

krhino_sched_policy_set(t, u, policy) ==
    /\ Calls(t)
    /\ k' = [k EXCEPT !.policy[u] = policy]

SleepNext == \E t \in Task, n \in SleepTicks : krhino_task_sleep(t, n)

SuspendNext == \E u \in Task : krhino_task_suspend(u) \/ krhino_task_resume(u)

AbortNext == \E t, u \in Task : krhino_task_wait_abort(t, u)

PriNext == \E t \in Task : \/ pri_change_set(t)
                           \/ \E u \in Task, p \in NewPris : pri_change_check(t, u, p)

LifeNext == \E t, u \in Task :
                \/ krhino_task_del(t, u)
                \/ \E p \in NewPris, r \in BOOLEAN : krhino_task_create(t, u, p, r)

RoundRobinNext ==
    \E t \in Task : \/ krhino_task_yield(t)
                    \/ \E u \in Task, n \in Slices : krhino_task_time_slice_set(t, u, n)
                    \/ \E u \in Task, p \in {"RR", "FIFO"} : krhino_sched_policy_set(t, u, p)
=============================================================================
