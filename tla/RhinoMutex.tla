----------------------------- MODULE RhinoMutex ------------------------------
(***************************************************************************)
(* The mutex services of k_mutex.c: recursive mutexes with priority         *)
(* inheritance, handed over to the first waiter by the unlock itself.       *)
(* Calls that return an error and change nothing are no steps.              *)
(***************************************************************************)
EXTENDS RhinoSched

CONSTANTS
    LockTicks,   \* the timeouts krhino_mutex_lock is called with
    MaxNested    \* (mutex_nested_t)-1, where the code stops the system

\* with RHINO_NO_WAIT, which is zero, no call blocks
ASSUME MutexAssumption ==
    /\ LockTicks \subseteq (Nat \ {0}) \cup {WAIT_FOREVER}
    /\ MaxNested \in Nat

\* mutex_create on an object no call in progress refers to
krhino_mutex_create(t, m) ==
    /\ Calls(t)
    /\ ~ k.live[m] /\ \A u \in Task : k.wait[u] # m
    /\ k' = [k EXCEPT !.blk[m] = <<>>, !.owner[m] = NULL, !.live[m] = TRUE]

krhino_mutex_del(t, m) ==
    /\ Calls(t)
    /\ k.live[m]
    /\ LET dead == [k EXCEPT !.live[m] = FALSE]
           rel  == IF k.owner[m] = NULL THEN dead
                   ELSE mutex_release(dead, k.owner[m], m)
       IN  k' = exit_sched(pend_rm_all(rel, m))

\* RHINO_MUTEX_OWNER_NESTED
mutex_lock_nested(t, m) ==
    /\ Calls(t)
    /\ k.live[m] /\ k.owner[m] = t
    /\ k.nested[m] < MaxNested
    /\ k' = [k EXCEPT !.nested[m] = @ + 1]

mutex_lock_free(t, m) ==
    /\ Calls(t)
    /\ k.live[m] /\ k.owner[m] = NULL
    /\ k' = [mutex_to_task(k, m, t) EXCEPT !.nested[m] = 1]

mutex_lock_pend(t, m, ticks) ==
    /\ Calls(t)
    /\ k.live[m] /\ k.owner[m] \notin {NULL, t}
    /\ k.lock = 0
    /\ LET own == k.owner[m]
           inh == IF k.prio[t] < k.prio[own]
                  THEN task_pri_change(k, own, k.prio[t]) ELSE k
       IN  k' = exit_sched_pend(pend_to_blk_obj(inh, m, t, ticks), m)

krhino_mutex_lock(t, m) ==
    \/ mutex_lock_nested(t, m)
    \/ mutex_lock_free(t, m)
    \/ \E ticks \in LockTicks : mutex_lock_pend(t, m, ticks)

\* RHINO_MUTEX_OWNER_NESTED
mutex_unlock_nested(t, m) ==
    /\ Calls(t)
    /\ k.live[m] /\ k.owner[m] = t
    /\ k.nested[m] > 1
    /\ k' = [k EXCEPT !.nested[m] = @ - 1]

\* faulty variant: the new owner's owner_nested is not set
mutex_unlock_nested_0(t, m) ==
    /\ Calls(t) /\ k.live[m] /\ k.owner[m] = t /\ k.nested[m] = 1
    /\ LET rel  == mutex_release([k EXCEPT !.nested[m] = 0], t, m)
           next == Head(rel.blk[m])
       IN  k' = IF rel.blk[m] = <<>> THEN [rel EXCEPT !.owner[m] = NULL]
                ELSE exit_sched(mutex_to_task(pend_task_wakeup(rel, next), m, next))

\* faulty variant: the new owner is not given the processor
mutex_unlock_no_sched(t, m) ==
    /\ Calls(t) /\ k.live[m] /\ k.owner[m] = t /\ k.nested[m] = 1
    /\ LET rel  == mutex_release([k EXCEPT !.nested[m] = 0], t, m)
           next == Head(rel.blk[m])
       IN  k' = IF rel.blk[m] = <<>> THEN [rel EXCEPT !.owner[m] = NULL]
                ELSE [mutex_to_task(pend_task_wakeup(rel, next), m, next) EXCEPT !.nested[m] = 1]

mutex_unlock_last(t, m) ==
    /\ Calls(t)
    /\ k.live[m] /\ k.owner[m] = t
    /\ k.nested[m] = 1
    /\ LET rel  == mutex_release([k EXCEPT !.nested[m] = 0], t, m)
           next == Head(rel.blk[m])
       IN  k' = IF rel.blk[m] = <<>>
                THEN [rel EXCEPT !.owner[m] = NULL]
                ELSE exit_sched([mutex_to_task(pend_task_wakeup(rel, next), m, next)
                                    EXCEPT !.nested[m] = 1])

krhino_mutex_unlock(t, m) == mutex_unlock_nested(t, m) \/ mutex_unlock_last(t, m)

MutexNext ==
    \E t \in Task, m \in Mutex : krhino_mutex_lock(t, m) \/ krhino_mutex_unlock(t, m)

MutexDelNext ==
    \E t \in Task, m \in Mutex : krhino_mutex_create(t, m) \/ krhino_mutex_del(t, m)

-----------------------------------------------------------------------------
\* The owner of a live mutex and the owner's mutex_list agree, a task that is
\* gone owns nothing, and nobody waits for a mutex without an owner (a waiter
\* that no unlock would ever wake).
OwnershipConsistent ==
    \A m \in {x \in Mutex : k.live[x]} :
        /\ \A t \in Task : Contains(k.mlist[t], m) <=> k.owner[m] = t
        /\ k.owner[m] # NULL => k.nested[m] > 0 /\ k.state[k.owner[m]] # "DELETED"
        /\ k.blk[m] # <<>> => k.owner[m] # NULL

\* Priority inheritance is exact, through chains of owners that wait for each
\* other and through timeouts, aborts, suspensions and deletions: every task
\* runs at the highest of its base priority and its waiters' priorities, no
\* lower (priority inversion) and no higher (a boost that is never taken back).
InheritanceExact ==
    \A t \in Task : k.state[t] # "DELETED" =>
        k.prio[t] = Min({k.bprio[t]} \cup
                        {k.prio[u] : u \in {w \in Task : \E m \in Mutex :
                                        k.owner[m] = t /\ k.live[m] /\ Contains(k.blk[m], w)}})

\* A blocked krhino_mutex_lock that is about to return RHINO_SUCCESS returns to
\* the owner of the mutex, who holds it once: one unlock gives it back.  Only a
\* deletion of the mutex may come between.
LockedOnce ==
    \A t \in Task : (k.pc[t] = "pend" /\ k.wait[t] \in Mutex /\ k.blkst[t] = "FINISH"
                     /\ k.state[t] = "RDY" /\ k.live[k.wait[t]])
        => k.owner[k.wait[t]] = t /\ k.nested[k.wait[t]] = 1
=============================================================================
