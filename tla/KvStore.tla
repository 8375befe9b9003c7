------------------------------- MODULE KvStore -------------------------------
(***************************************************************************)
(* The key-value store at run time (kvmgr.c): the callers of aos_kv_set,   *)
(* aos_kv_get, aos_kv_del and aos_kv_del_by_prefix, the garbage collection *)
(* task, the flash, power failures and restarts.                           *)
(*                                                                         *)
(* Everything but the first lines of aos_kv_set and the last lines of      *)
(* aos_kv_gc runs under kv_mutex: an operation fixes what it will do when  *)
(* it gets the mutex (operators of KvFlash), its calls of the flash driver *)
(* stand in todo and are performed one at a time, and it gives the mutex   *)
(* back when todo is empty.  Outside the mutex are the reads and writes of *)
(* gc_triggered and gc_waiter and the semaphore gc_sem.                    *)
(***************************************************************************)
EXTENDS KvFlash

CONSTANTS
    Caller,       \* the tasks that use the store
    Prefix,       \* sets of keys that share a prefix
    MaxSignal,    \* bound on collections between unlock and signal
    MaxSem,       \* bound on the count of gc_sem
    NoOne, NoCall

VARIABLES
    flash,         \* the partition
    ram,           \* g_kv_mgr: block_info, clean_blk_nums, write_pos
    todo,          \* flash calls that the operation under way has still to make
    phase,         \* "off", "boot" (in kv_init), "up"
    holder,        \* who holds kv_mutex: a caller, "gc" or NoOne
    pc, call,      \* per caller: where it is and what it asked for
    gc_triggered, gc_waiter,
    gc_sem,        \* count of gc_sem
    gc,            \* the kv-gc task that gc_triggered stands for: "none", "lock", "run"
    signalling     \* kv-gc tasks that gave the mutex back and have not yet looked at gc_waiter

vars == <<flash, ram, todo, phase, holder, pc, call, gc_triggered, gc_waiter,
          gc_sem, gc, signalling>>
gcvars == <<gc_triggered, gc_waiter, gc_sem, gc, signalling>>

Now == [flash |-> flash, ram |-> ram, log |-> << >>]

Init ==
    /\ flash = [b \in Block |-> Erased]
    /\ ram = NoRam
    /\ todo = << >>
    /\ phase = "off"
    /\ holder = NoOne
    /\ pc = [c \in Caller |-> "idle"]
    /\ call = [c \in Caller |-> NoCall]
    /\ gc_triggered = FALSE
    /\ gc_waiter = 0
    /\ gc_sem = 0
    /\ gc = "none"
    /\ signalling = 0

Goto(c, l) == pc' = [pc EXCEPT ![c] = l]

\* trigger_gc, if the operation called it: at most one kv-gc task at a time.
trigger_gc(called) ==
    IF called /\ ~gc_triggered
    THEN /\ gc_waiter' = 0
         /\ gc_triggered' = TRUE
         /\ gc' = "lock"
         /\ UNCHANGED <<gc_sem, signalling>>
    ELSE UNCHANGED gcvars

-----------------------------------------------------------------------------
(* Power *)

\* aos_kv_init: kv_init looks at the flash and repairs it.
aos_kv_init ==
    /\ phase = "off"
    /\ phase' = "boot"
    /\ ram' = kv_init(flash).ram
    /\ todo' = kv_init(flash).log
    /\ UNCHANGED <<flash, holder, pc, call, gcvars>>

\* The end of aos_kv_init: perhaps collect at once.
InitDone ==
    /\ phase = "boot" /\ todo = << >>
    /\ phase' = "up"
    /\ trigger_gc(/\ ram.info[ram.write_pos[1]].space < ITEM_MAX_LEN
                  /\ ram.clean < KV_GC_RESERVED + 1)
    /\ UNCHANGED <<flash, ram, todo, holder, pc, call>>

\* Everything in RAM is gone.
PowerOff ==
    /\ phase' = "off"
    /\ ram' = NoRam
    /\ todo' = << >>
    /\ holder' = NoOne
    /\ pc' = [c \in Caller |-> "idle"]
    /\ call' = [c \in Caller |-> NoCall]
    /\ gc_triggered' = FALSE
    /\ gc_waiter' = 0
    /\ gc_sem' = 0
    /\ gc' = "none"
    /\ signalling' = 0

\* aos_kv_deinit, with no call and no collection under way, as its user must see to.
aos_kv_deinit ==
    /\ phase = "up"
    /\ \A c \in Caller : pc[c] = "idle"
    /\ gc = "none" /\ signalling = 0
    /\ PowerOff
    /\ UNCHANGED flash

\* The power fails, perhaps in the middle of a flash call.
Crash ==
    /\ phase # "off"
    /\ PowerOff
    /\ flash' \in IF todo = << >> THEN {flash} ELSE Interrupted(flash, Head(todo))

\* The flash driver completes the next call.
FlashStep ==
    /\ todo # << >>
    /\ flash' = Program(flash, Head(todo))
    /\ todo' = Tail(todo)
    /\ UNCHANGED <<ram, phase, holder, pc, call, gcvars>>

-----------------------------------------------------------------------------
(* Callers *)

\* aos_kv_set begins: it reads gc_triggered without the mutex.
aos_kv_set(c, k, v) ==
    /\ phase = "up" /\ pc[c] = "idle"
    /\ call' = [call EXCEPT ![c] = [op |-> "set", keys |-> {k}, val |-> v, ret |-> "ok"]]
    /\ Goto(c, IF gc_triggered THEN "count" ELSE "lock")
    /\ UNCHANGED <<flash, ram, todo, phase, holder, gcvars>>

\* (gc_waiter)++, a uint8_t
CountWaiter(c) ==
    /\ pc[c] = "count"
    /\ gc_waiter' = (gc_waiter + 1) % 256
    /\ Goto(c, "wait")
    /\ UNCHANGED <<flash, ram, todo, phase, holder, call, gc_triggered, gc_sem, gc, signalling>>

\* aos_sem_wait(gc_sem, AOS_WAIT_FOREVER)
SemWait(c) ==
    /\ pc[c] = "wait"
    /\ IF gc_sem > 0 THEN gc_sem' = gc_sem - 1 /\ Goto(c, "lock")
       ELSE gc_sem' = gc_sem /\ Goto(c, "blocked")
    /\ UNCHANGED <<flash, ram, todo, phase, holder, call, gc_triggered, gc_waiter, gc, signalling>>

\* The other calls go for the mutex at once.
Request(c, op, ks) ==
    /\ phase = "up" /\ pc[c] = "idle"
    /\ call' = [call EXCEPT ![c] = [op |-> op, keys |-> ks, val |-> NoVal, ret |-> "ok"]]
    /\ Goto(c, "lock")
    /\ UNCHANGED <<flash, ram, todo, phase, holder, gcvars>>
aos_kv_get(c, k) == Request(c, "get", {k})
aos_kv_del(c, k) == Request(c, "del", {k})
aos_kv_del_by_prefix(c, ks) == Request(c, "prefix", ks)

\* What a call does, from the mutex on.
Operate(q) ==
    LET k == CHOOSE k \in q.keys : TRUE
    IN  CASE q.op = "set"    -> kv_set(Now, k, q.val)
          [] q.op = "get"    -> [s |-> Now, gc |-> FALSE, ret |-> Value(Now, k)]
          [] q.op = "del"    -> kv_del(Now, k)
          [] q.op = "prefix" -> kv_del_by_prefix(Now, q.keys)

\* aos_mutex_lock, and the operation up to its flash calls.  A caller in the
\* endless loop of kv_item_calc_pos keeps the mutex.
Lock(c) ==
    /\ pc[c] = "lock" /\ holder = NoOne
    /\ LET r == Operate(call[c])
       IN  /\ ram' = r.s.ram
           /\ todo' = r.s.log
           /\ call' = [call EXCEPT ![c].ret = r.ret]
           /\ Goto(c, IF r.ret = "hang" THEN "loop" ELSE "busy")
           /\ trigger_gc(r.gc)
    /\ holder' = c
    /\ UNCHANGED <<flash, phase>>

\* aos_mutex_unlock and return.
Unlock(c) ==
    /\ pc[c] = "busy" /\ todo = << >>
    /\ holder' = NoOne
    /\ call' = [call EXCEPT ![c] = NoCall]
    /\ Goto(c, "idle")
    /\ UNCHANGED <<flash, ram, todo, phase, gcvars>>

-----------------------------------------------------------------------------
(* The garbage collection task *)

\* aos_kv_gc gets the mutex.
GcLock ==
    /\ gc = "lock" /\ holder = NoOne
    /\ ram' = kv_gc(Now).ram
    /\ todo' = kv_gc(Now).log
    /\ holder' = "gc"
    /\ gc' = "run"
    /\ UNCHANGED <<flash, phase, pc, call, gc_triggered, gc_waiter, gc_sem, signalling>>

\* exit: gc_triggered = 0, then the mutex is given back.
GcExit ==
    /\ gc = "run" /\ todo = << >> /\ signalling < MaxSignal
    /\ gc_triggered' = FALSE
    /\ holder' = NoOne
    /\ gc' = "none"
    /\ signalling' = signalling + 1
    /\ UNCHANGED <<flash, ram, todo, phase, pc, call, gc_waiter, gc_sem>>

\* ... and only then gc_waiter is looked at.  aos_sem_signal_all wakes whoever
\* is blocked; with nobody blocked it adds one to the count.
GcSignal ==
    LET blocked == {c \in Caller : pc[c] = "blocked"}
    IN  /\ signalling > 0
        /\ gc_sem < MaxSem
        /\ signalling' = signalling - 1
        /\ IF gc_waiter > 0
           THEN /\ pc' = [c \in Caller |-> IF c \in blocked THEN "lock" ELSE pc[c]]
                /\ gc_sem' = IF blocked = {} THEN gc_sem + 1 ELSE gc_sem
           ELSE UNCHANGED <<pc, gc_sem>>
        /\ UNCHANGED <<flash, ram, todo, phase, holder, call, gc_triggered, gc_waiter, gc>>

-----------------------------------------------------------------------------
Step(c) == CountWaiter(c) \/ SemWait(c) \/ Lock(c) \/ Unlock(c)
Gc == GcLock \/ GcExit \/ GcSignal

Next ==
    \/ aos_kv_init \/ InitDone \/ aos_kv_deinit \/ Crash \/ FlashStep
    \/ \E c \in Caller :
        \/ \E k \in Key : \/ \E v \in Val : aos_kv_set(c, k, v)
                          \/ aos_kv_get(c, k)
                          \/ aos_kv_del(c, k)
        \/ \E ks \in Prefix : aos_kv_del_by_prefix(c, ks)
        \/ Step(c)
    \/ Gc

Spec == Init /\ [][Next]_vars

\* The steps aos_kv_init, Lock(c) and GcLock, by the variable they change.
Boots == phase = "off" /\ phase' = "boot"
CallerLocks(c) == pc[c] = "lock" /\ holder = NoOne /\ holder' = c
GcLocks == gc = "lock" /\ holder = NoOne /\ holder' = "gc"

\* The flash driver answers and every task that can run eventually does; a task
\* that waits for kv_mutex gets it in the end (its waiters are queued).  New
\* calls, shutdowns and power failures are free to happen or not.
Fairness ==
    /\ WF_phase(Boots) /\ WF_vars(InitDone) /\ WF_vars(FlashStep)
    /\ SF_holder(GcLocks) /\ WF_vars(GcExit) /\ WF_vars(GcSignal)
    /\ \A c \in Caller : /\ WF_vars(CountWaiter(c)) /\ WF_vars(SemWait(c))
                         /\ SF_holder(CallerLocks(c)) /\ WF_vars(Unlock(c))

-----------------------------------------------------------------------------
(* Properties *)

\* An item as the flash may hold it.
IsItem(e) ==
    /\ e.len \in ITEM_HEADER_SIZE .. ITEM_MAX_LEN
    /\ e.state \in {"NORMAL", "DELETE", "JUNK"}
    /\ e.state = "NORMAL" => e.crc \in BOOLEAN
    /\ e.state = "NORMAL" /\ e.crc =>
        e.key \in Key /\ e.val \in Val /\ e.orig \in Block \X (0 .. BLK_SIZE)

\* Types; the items of a block fit into it and do not overlap.
TypeOK ==
    /\ \A b \in Block :
        /\ flash[b].state \in {"bad", "CLEAN", "USED", "DIRTY"}
        /\ \A o \in DOMAIN flash[b].items :
            /\ IsItem(flash[b].items[o])
            /\ o >= BLK_HEADER_SIZE /\ o + flash[b].items[o].len <= BLK_SIZE
            /\ \A n \in DOMAIN flash[b].items : n > o => n >= o + flash[b].items[o].len
    /\ ram.info \in [Block -> [state : {"none", "CLEAN", "USED", "DIRTY"}, space : 0 .. BLK_SIZE]]
    /\ ram.clean \in 0 .. BLK_NUMS
    /\ ram.write_pos \in Block \X (0 .. BLK_SIZE)
    /\ phase \in {"off", "boot", "up"}
    /\ holder \in Caller \cup {"gc", NoOne}
    /\ pc \in [Caller -> {"idle", "count", "wait", "blocked", "lock", "busy", "loop"}]
    /\ gc_triggered \in BOOLEAN
    /\ gc_waiter \in 0 .. 255 /\ gc_sem \in 0 .. MaxSem
    /\ gc \in {"none", "lock", "run"}
    /\ signalling \in 0 .. MaxSignal

\* At most one copy of a key is live when the mutex is free, so that deleting
\* the key never brings an older value back.
OneLiveCopy ==
    phase = "up" /\ holder = NoOne => \A k \in Key : Cardinality(Copies(Now, k)) <= 1

\* The block table in RAM says what the flash says: states, the space behind
\* the last item, the number of clean blocks, and a write position at the end
\* of a block in use.
RamMirrorsFlash ==
    phase = "up" /\ holder = NoOne =>
        /\ \A b \in Block : /\ ram.info[b].state = flash[b].state
                            /\ ram.info[b].space = BLK_SIZE - EndOf(flash[b])
        /\ ram.clean = Cardinality({b \in Block : ram.info[b].state = "CLEAN"})
        /\ LET b == ram.write_pos[1]
           IN  ram.info[b].state # "CLEAN" /\ ram.write_pos[2] = EndOf(flash[b])

\* The block that collections need stays free (KV_GC_RESERVED): no sequence of
\* stores, collections, crashes and restarts uses up the last clean block.
ReservedBlockKept ==
    phase = "up" /\ holder = NoOne => ram.clean >= KV_GC_RESERVED

\* Every call returns, unless the power fails: aos_kv_set waits for gc_sem only
\* until the collection it saw is over.
CallsReturn == \A c \in Caller : pc[c] # "idle" ~> pc[c] = "idle"
=============================================================================
