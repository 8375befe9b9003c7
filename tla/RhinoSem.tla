------------------------------- MODULE RhinoSem ------------------------------
(***************************************************************************)
(* The counting semaphore of k_sem.c; krhino_task_sem_* of k_task_sem.c are *)
(* the same calls on the semaphore a task carries.                          *)
(* Calls that return an error and change nothing are no steps.              *)
(***************************************************************************)
EXTENDS RhinoSched

CONSTANTS
    TakeTicks,   \* the timeouts krhino_sem_take is called with
    Counts,      \* the counts semaphores are created with or set to
    MaxCount     \* (sem_count_t)-1

ASSUME SemAssumption ==
    /\ TakeTicks \subseteq (Nat \ {0}) \cup {WAIT_FOREVER}
    /\ Counts \subseteq Nat
    /\ MaxCount \in Nat

krhino_sem_create(t, s, n) ==
    /\ Calls(t)
    /\ ~ k.live[s] /\ \A u \in Task : k.wait[u] # s
    /\ k' = [k EXCEPT !.blk[s] = <<>>, !.count[s] = n, !.live[s] = TRUE]

krhino_sem_del(t, s) ==
    /\ Calls(t)
    /\ k.live[s]
    /\ k' = exit_sched(pend_rm_all([k EXCEPT !.live[s] = FALSE], s))

\* faulty variant: a unit handed to a waiter is counted as well
sem_give_twice(s, wake_all) ==
    /\ InIsr \/ Calls(k.active)
    /\ k.live[s] /\ k.count[s] < MaxCount
    /\ LET inc == [k EXCEPT !.count[s] = @ + 1]
       IN  k' = IF k.blk[s] = <<>> THEN inc
                ELSE exit_sched(pend_task_wakeup(inc, Head(k.blk[s])))

\* callable from a task and from an interrupt
krhino_sem_give(s, wake_all) ==
    /\ InIsr \/ Calls(k.active)
    /\ k.live[s]
    /\ \/ /\ k.blk[s] = <<>>
          /\ k.count[s] < MaxCount
          /\ k' = [k EXCEPT !.count[s] = @ + 1]
       \/ /\ k.blk[s] # <<>>
          /\ k' = exit_sched(IF wake_all THEN pend_wakeup_all(k, s)
                             ELSE pend_task_wakeup(k, Head(k.blk[s])))

krhino_sem_take(t, s, ticks) ==
    /\ Calls(t)
    /\ k.live[s]
    /\ \/ /\ k.count[s] > 0
          /\ k' = [k EXCEPT !.count[s] = @ - 1]
       \/ /\ k.count[s] = 0
          /\ k.lock = 0
          /\ k' = exit_sched_pend(pend_to_blk_obj(k, s, t, ticks), s)

\* faulty variant: the count is set although tasks wait
sem_count_set_unchecked(t, s, n) ==
    /\ Calls(t) /\ k.live[s]
    /\ k' = [k EXCEPT !.count[s] = n]

krhino_sem_count_set(t, s, n) ==
    /\ Calls(t)
    /\ k.live[s]
    /\ k.count[s] > 0 \/ k.blk[s] = <<>>
    /\ k' = [k EXCEPT !.count[s] = n]

SemNext ==
    \E s \in Sem :
        \/ \E w \in BOOLEAN : krhino_sem_give(s, w)
        \/ \E t \in Task, n \in TakeTicks : krhino_sem_take(t, s, n)

SemDelNext ==
    \E t \in Task, s \in Sem :
        \/ krhino_sem_del(t, s)
        \/ \E n \in Counts : krhino_sem_create(t, s, n) \/ krhino_sem_count_set(t, s, n)

-----------------------------------------------------------------------------
\* No unit is kept from a waiting task: a semaphore somebody waits for has
\* count zero, whatever gives, sets, timeouts and deletions came before.
NoUnitWithheld == \A s \in Sem : k.blk[s] # <<>> => k.count[s] = 0
=============================================================================
