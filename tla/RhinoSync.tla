------------------------------ MODULE RhinoSync ------------------------------
(***************************************************************************)
(* What the blocking services of the kernel promise their callers, without  *)
(* lists, priorities, ticks or a scheduler: who owns which mutex, which     *)
(* units a semaphore holds, who waits for what, and whose wait has been     *)
(* granted.  RhinoKernel implements it (see RhinoKernelSync): every step of *)
(* the kernel is one of the steps below or changes nothing of this state.   *)
(***************************************************************************)
EXTENDS Naturals, TLAPS

CONSTANTS Task, Mutex, Sem, NULL,
          Counts     \* the counts a semaphore is created with or set to

Obj == Mutex \cup Sem

ASSUME SyncAssumption ==
    /\ NULL \notin Task \cup Obj
    /\ Mutex \cap Sem = {}
    /\ Counts \subseteq Nat

VARIABLES
    exists,    \* the tasks that have not been deleted
    live,      \* the objects that have been created and not deleted
    owner,     \* mutex_task
    nested,    \* owner_nested
    count,     \* the units of a semaphore
    waits,     \* the object a task is blocked on
    granted    \* the object a task has been given, in a call still to return

svars == <<exists, live, owner, nested, count, waits, granted>>

Waiters(o) == {t \in Task : waits[t] = o}

\* t is not inside a call
Free(t) == t \in exists /\ waits[t] = NULL /\ granted[t] = NULL

SInit ==
    /\ exists = Task /\ live \in SUBSET Obj
    /\ owner = [m \in Mutex |-> NULL] /\ nested = [m \in Mutex |-> 0]
    /\ count = [s \in Sem |-> 0]
    /\ waits = [t \in Task |-> NULL] /\ granted = [t \in Task |-> NULL]

-----------------------------------------------------------------------------
Lock(t, m) ==
    /\ Free(t) /\ m \in live /\ owner[m] = NULL
    /\ owner' = [owner EXCEPT ![m] = t] /\ nested' = [nested EXCEPT ![m] = 1]
    /\ UNCHANGED <<exists, live, count, waits, granted>>

Relock(t, m) ==
    /\ Free(t) /\ m \in live /\ owner[m] = t
    /\ nested' = [nested EXCEPT ![m] = @ + 1]
    /\ UNCHANGED <<exists, live, owner, count, waits, granted>>

Unnest(t, m) ==
    /\ Free(t) /\ m \in live /\ owner[m] = t /\ nested[m] > 1
    /\ nested' = [nested EXCEPT ![m] = @ - 1]
    /\ UNCHANGED <<exists, live, owner, count, waits, granted>>

\* faulty variant: waiters are not looked at
UnlockBlind(t, m) ==
    /\ Free(t) /\ m \in live /\ owner[m] = t /\ nested[m] = 1
    /\ owner' = [owner EXCEPT ![m] = NULL] /\ nested' = [nested EXCEPT ![m] = 0]
    /\ UNCHANGED <<exists, live, count, waits, granted>>

\* the last unlock, with nobody waiting
Unlock(t, m) ==
    /\ Free(t) /\ m \in live /\ owner[m] = t /\ nested[m] = 1
    /\ Waiters(m) = {}
    /\ owner' = [owner EXCEPT ![m] = NULL] /\ nested' = [nested EXCEPT ![m] = 0]
    /\ UNCHANGED <<exists, live, count, waits, granted>>

\* faulty variant: the waiter is woken, the mutex left free
WakeOnly(t, m, u) ==
    /\ Free(t) /\ m \in live /\ owner[m] = t /\ nested[m] = 1
    /\ u \in Waiters(m)
    /\ owner' = [owner EXCEPT ![m] = NULL]
    /\ waits' = [waits EXCEPT ![u] = NULL] /\ granted' = [granted EXCEPT ![u] = m]
    /\ UNCHANGED <<exists, live, nested, count>>

\* the last unlock makes a waiter the owner: the mutex is never free in between
HandOver(t, m, u) ==
    /\ Free(t) /\ m \in live /\ owner[m] = t /\ nested[m] = 1
    /\ u \in Waiters(m)
    /\ owner' = [owner EXCEPT ![m] = u]
    /\ waits' = [waits EXCEPT ![u] = NULL] /\ granted' = [granted EXCEPT ![u] = m]
    /\ UNCHANGED <<exists, live, nested, count>>

\* a lock or take that cannot be served at once
Wait(t, o) ==
    /\ Free(t) /\ o \in live
    /\ o \in Mutex => owner[o] \notin {NULL, t}
    /\ o \in Sem => count[o] = 0
    /\ waits' = [waits EXCEPT ![t] = o]
    /\ UNCHANGED <<exists, live, owner, nested, count, granted>>

\* faulty variant: an empty semaphore is taken
TakeBlind(t, s) ==
    /\ Free(t) /\ s \in live
    /\ count' = [count EXCEPT ![s] = @ - 1]
    /\ UNCHANGED <<exists, live, owner, nested, waits, granted>>

Take(t, s) ==
    /\ Free(t) /\ s \in live /\ count[s] > 0
    /\ count' = [count EXCEPT ![s] = @ - 1]
    /\ UNCHANGED <<exists, live, owner, nested, waits, granted>>

\* a give with nobody waiting (also from an interrupt)
Give(s) ==
    /\ s \in live /\ Waiters(s) = {}
    /\ count' = [count EXCEPT ![s] = @ + 1]
    /\ UNCHANGED <<exists, live, owner, nested, waits, granted>>

\* a give that goes straight to one waiter, or to all of them
GiveTo(s, W) ==
    /\ s \in live
    /\ W # {} /\ W \subseteq Waiters(s)
    /\ waits' = [t \in Task |-> IF t \in W THEN NULL ELSE waits[t]]
    /\ granted' = [t \in Task |-> IF t \in W THEN s ELSE granted[t]]
    /\ UNCHANGED <<exists, live, owner, nested, count>>

SetCount(s, n) ==
    /\ s \in live /\ (count[s] > 0 \/ Waiters(s) = {})
    /\ count' = [count EXCEPT ![s] = n]
    /\ UNCHANGED <<exists, live, owner, nested, waits, granted>>

\* the waits of W end without the object: timeout or wait abort
GiveUp(W) ==
    /\ waits' = [t \in Task |-> IF t \in W THEN NULL ELSE waits[t]]
    /\ UNCHANGED <<exists, live, owner, nested, count, granted>>

Return(t) ==
    /\ granted[t] # NULL
    /\ granted' = [granted EXCEPT ![t] = NULL]
    /\ UNCHANGED <<exists, live, owner, nested, count, waits>>

Delete(o) ==
    /\ o \in live
    /\ live' = live \ {o}
    /\ waits' = [t \in Task |-> IF waits[t] = o THEN NULL ELSE waits[t]]
    /\ UNCHANGED <<exists, owner, nested, count, granted>>

\* not while a call on the deleted object has still to return
CreateMutex(m) ==
    /\ m \notin live /\ \A t \in Task : granted[t] # m
    /\ live' = live \cup {m} /\ owner' = [owner EXCEPT ![m] = NULL]
    /\ UNCHANGED <<exists, nested, count, waits, granted>>

CreateSem(s, n) ==
    /\ s \notin live
    /\ live' = live \cup {s} /\ count' = [count EXCEPT ![s] = n]
    /\ UNCHANGED <<exists, owner, nested, waits, granted>>

\* t is deleted; heir[m] gets what t owned, if somebody waits for it
Exit(t, heir) ==
    LET owned == {m \in live \cap Mutex : owner[m] = t}
        heirs == {heir[m] : m \in owned} \ {NULL}
    IN  /\ t \in exists
        /\ \A m \in owned : IF Waiters(m) = {} THEN heir[m] = NULL
                                               ELSE heir[m] \in Waiters(m)
        /\ exists' = exists \ {t}
        /\ owner' = [m \in Mutex |-> IF m \in owned THEN heir[m] ELSE owner[m]]
        /\ waits' = [u \in Task |-> IF u = t \/ u \in heirs THEN NULL ELSE waits[u]]
        /\ granted' = [u \in Task |-> IF u = t THEN NULL
                                      ELSE IF u \in heirs THEN waits[u] ELSE granted[u]]
        /\ UNCHANGED <<live, nested, count>>

Spawn(t) ==
    /\ t \notin exists
    /\ exists' = exists \cup {t}
    /\ UNCHANGED <<live, owner, nested, count, waits, granted>>

SNext ==
    \/ \E t \in Task, m \in Mutex :
         \/ Lock(t, m) \/ Relock(t, m) \/ Unnest(t, m) \/ Unlock(t, m)
         \/ \E u \in Task : HandOver(t, m, u)
    \/ \E t \in Task, o \in Obj : Wait(t, o)
    \/ \E s \in Sem : \/ Give(s)
                      \/ \E t \in Task : Take(t, s)
                      \/ \E W \in SUBSET Task : GiveTo(s, W)
                      \/ \E n \in Counts : SetCount(s, n) \/ CreateSem(s, n)
    \/ \E W \in SUBSET Task : GiveUp(W)
    \/ \E o \in Obj : Delete(o)
    \/ \E m \in Mutex : CreateMutex(m)
    \/ \E t \in Task : \/ Return(t) \/ Spawn(t)
                       \/ \E heir \in [Mutex -> Task \cup {NULL}] : Exit(t, heir)

SSpec == SInit /\ [][SNext]_svars

-----------------------------------------------------------------------------
\* The state of the blocking services keeps its types: no count of units or of
\* nested locks goes below zero (krhino_sem_take, krhino_mutex_unlock).
STypeOK ==
    /\ exists \subseteq Task /\ live \subseteq Obj
    /\ owner \in [Mutex -> Task \cup {NULL}] /\ nested \in [Mutex -> Nat]
    /\ count \in [Sem -> Nat]
    /\ waits \in [Task -> Obj \cup {NULL}] /\ granted \in [Task -> Obj \cup {NULL}]

\* Nobody waits in vain: behind every blocked krhino_mutex_lock there is another
\* task that owns the mutex, exists and has an unlock to do, and behind every
\* blocked krhino_sem_take an empty semaphore that still exists.
NoLostWakeup ==
    \A t \in Task :
        /\ waits[t] # NULL => t \in exists /\ waits[t] \in live
        /\ waits[t] \in Mutex => /\ owner[waits[t]] \in exists \ {t}
                                 /\ nested[waits[t]] > 0
        /\ waits[t] \in Sem => count[waits[t]] = 0

\* The task whose blocked krhino_mutex_lock is going to return RHINO_SUCCESS owns
\* the mutex until the call returns, unless the mutex is deleted before.
GrantedIsOwner ==
    \A t \in Task : granted[t] \in Mutex \cap live => owner[granted[t]] = t

-----------------------------------------------------------------------------
(* Proofs, for every set of tasks, mutexes and semaphores.  Neither         *)
(* NoLostWakeup nor GrantedIsOwner is inductive alone: a waiter's owner     *)
(* exists because every owner does (OwnersExist), and a granted mutex       *)
(* cannot be unlocked under its new owner because that task is still inside *)
(* its call (InOneCall).                                                    *)

\* the owner of a live mutex exists and has locked it at least once
OwnersExist ==
    \A m \in Mutex \cap live : owner[m] # NULL => owner[m] \in exists /\ nested[m] > 0

\* a task with a granted object is in no other wait
InOneCall ==
    \A t \in Task : granted[t] # NULL => t \in exists /\ waits[t] = NULL

SInv == STypeOK /\ NoLostWakeup /\ GrantedIsOwner /\ OwnersExist /\ InOneCall

\* The initial state satisfies the inductive invariant.
LEMMA InitSInv == SInit => SInv
  BY SyncAssumption DEF SInit, SInv, STypeOK, NoLostWakeup, GrantedIsOwner,
                        OwnersExist, InOneCall, Obj

\* Every step of every service preserves it.
LEMMA NextSInv == SInv /\ [SNext]_svars => SInv'
<1> SUFFICES ASSUME SInv, [SNext]_svars PROVE SInv'
  OBVIOUS
<1> USE SyncAssumption DEF SInv, STypeOK, NoLostWakeup, GrantedIsOwner,
                           OwnersExist, InOneCall, Obj, Waiters, Free
<1>1. ASSUME NEW t \in Task, NEW m \in Mutex, Lock(t, m) PROVE SInv'
  BY <1>1 DEF Lock
<1>2. ASSUME NEW t \in Task, NEW m \in Mutex, Relock(t, m) PROVE SInv'
  BY <1>2 DEF Relock
<1>3. ASSUME NEW t \in Task, NEW m \in Mutex, Unnest(t, m) PROVE SInv'
  BY <1>3 DEF Unnest
<1>4. ASSUME NEW t \in Task, NEW m \in Mutex, Unlock(t, m) PROVE SInv'
  BY <1>4 DEF Unlock
<1>5. ASSUME NEW t \in Task, NEW m \in Mutex, NEW u \in Task, HandOver(t, m, u)
      PROVE SInv'
  BY <1>5 DEF HandOver
<1>6. ASSUME NEW t \in Task, NEW o \in Obj, Wait(t, o) PROVE SInv'
  BY <1>6 DEF Wait
<1>7. ASSUME NEW t \in Task, NEW s \in Sem, Take(t, s) PROVE SInv'
  BY <1>7 DEF Take
<1>8. ASSUME NEW s \in Sem, Give(s) PROVE SInv'
  BY <1>8 DEF Give
<1>9. ASSUME NEW s \in Sem, NEW W \in SUBSET Task, GiveTo(s, W) PROVE SInv'
  BY <1>9 DEF GiveTo
<1>10. ASSUME NEW s \in Sem, NEW n \in Counts, SetCount(s, n) PROVE SInv'
  BY <1>10 DEF SetCount
<1>11. ASSUME NEW s \in Sem, NEW n \in Counts, CreateSem(s, n) PROVE SInv'
  BY <1>11 DEF CreateSem
<1>12. ASSUME NEW W \in SUBSET Task, GiveUp(W) PROVE SInv'
  BY <1>12 DEF GiveUp
<1>13. ASSUME NEW o \in Obj, Delete(o) PROVE SInv'
  BY <1>13 DEF Delete
<1>14. ASSUME NEW m \in Mutex, CreateMutex(m) PROVE SInv'
  BY <1>14 DEF CreateMutex
<1>15. ASSUME NEW t \in Task, Return(t) PROVE SInv'
  BY <1>15 DEF Return
<1>16. ASSUME NEW t \in Task, Spawn(t) PROVE SInv'
  BY <1>16 DEF Spawn
<1>17. ASSUME NEW t \in Task, NEW heir \in [Mutex -> Task \cup {NULL}], Exit(t, heir)
       PROVE SInv'
  BY <1>17 DEF Exit
<1>18. CASE UNCHANGED svars
  BY <1>18 DEF svars
<1> QED
  BY <1>1, <1>2, <1>3, <1>4, <1>5, <1>6, <1>7, <1>8, <1>9, <1>10, <1>11, <1>12,
     <1>13, <1>14, <1>15, <1>16, <1>17, <1>18 DEF SNext

\* The services of RhinoSync keep its state well typed.
THEOREM SyncTypeOK == SSpec => []STypeOK
<1>1. SInv => STypeOK
  BY DEF SInv
<1> QED
  BY InitSInv, NextSInv, <1>1, PTL DEF SSpec

\* No task waits in vain (see NoLostWakeup), for any number of tasks, mutexes
\* and semaphores, under any interleaving of calls, timeouts and deletions.
THEOREM SyncNoLostWakeup == SSpec => []NoLostWakeup
<1>1. SInv => NoLostWakeup
  BY DEF SInv
<1> QED
  BY InitSInv, NextSInv, <1>1, PTL DEF SSpec

\* A blocked lock that reports success reports it to the owner (GrantedIsOwner).
THEOREM SyncGrantedIsOwner == SSpec => []GrantedIsOwner
<1>1. SInv => GrantedIsOwner
  BY DEF SInv
<1> QED
  BY InitSInv, NextSInv, <1>1, PTL DEF SSpec
=============================================================================
