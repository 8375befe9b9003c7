----------------------------- MODULE RhinoEvent ------------------------------
(***************************************************************************)
(* The event groups of k_event.c: tasks wait until all (RHINO_AND) or one   *)
(* (RHINO_OR) of some flags are set, and may clear them as they get them.   *)
(* k.flags[e] is the set of flags that are set; k.want[t] is what task t    *)
(* waits for (pend_flags and pend_option) and k.actl[t] what it is woken    *)
(* with (actl_flags).  Calls that return an error and change nothing are    *)
(* no steps.                                                                *)
(***************************************************************************)
EXTENDS RhinoSched

CONSTANTS
    Wants,       \* the requests krhino_event_get is called with:
                 \* [flags, all (RHINO_FLAGS_AND_MASK), clear]
    SetFlags,    \* the flags krhino_event_set is called with
    GetTicks     \* the timeouts of krhino_event_get

ASSUME EventAssumption == GetTicks \subseteq (Nat \ {0}) \cup {WAIT_FOREVER}

krhino_event_create(t, e, f) ==
    /\ Calls(t)
    /\ ~ k.live[e] /\ \A u \in Task : k.wait[u] # e
    /\ k' = [k EXCEPT !.blk[e] = <<>>, !.flags[e] = f, !.live[e] = TRUE]

krhino_event_del(t, e) ==
    /\ Calls(t)
    /\ k.live[e]
    /\ k' = exit_sched([pend_rm_all([k EXCEPT !.live[e] = FALSE], e)
                          EXCEPT !.flags[e] = {}])

\* request w is met by the flags f
Met(w, f) == IF w.all THEN w.flags \subseteq f ELSE w.flags \cap f # {}

Cleared(w, f) == IF w.clear THEN f \ w.flags ELSE f

krhino_event_get(t, e, w, ticks) ==
    /\ Calls(t)
    /\ k.live[e]
    /\ \/ /\ Met(w, k.flags[e])
          /\ k' = [k EXCEPT !.flags[e] = Cleared(w, @)]
       \/ /\ ~ Met(w, k.flags[e])
          /\ k.lock = 0
          /\ k' = exit_sched_pend(pend_to_blk_obj([k EXCEPT !.want[t] = w], e, t, ticks), e)

\* faulty variant: flags are tested after the waiters before have cleared theirs
event_wake_live(r, t, e, cur) ==
    IF ~ Met(r.want[t], r.flags[e]) THEN r
    ELSE [pend_task_wakeup(r, t) EXCEPT !.actl[t] = cur, !.flags[e] = cur]

\* the loop body of event_set for the waiter t; cur is cur_event_flags, the
\* flags as they were before the first waiter cleared any
event_wake(r, t, e, cur) ==
    IF ~ Met(r.want[t], cur) THEN r
    ELSE [pend_task_wakeup(r, t) EXCEPT !.actl[t] = cur,
                                        !.flags[e] = Cleared(r.want[t], @)]

\* faulty variant: only the first waiter is looked at
event_set_first(e, f, opt) ==
    /\ InIsr \/ Calls(k.active)
    /\ k.live[e] /\ opt = "OR"
    /\ LET cur == k.flags[e] \cup f
           set == [k EXCEPT !.flags[e] = cur]
       IN  k' = IF k.blk[e] = <<>> THEN set
                ELSE exit_sched(event_wake(set, Head(k.blk[e]), e, cur))

\* callable from a task and from an interrupt
krhino_event_set(e, f, opt) ==
    /\ InIsr \/ Calls(k.active)
    /\ k.live[e]
    /\ \/ /\ opt = "AND"
          /\ k' = [k EXCEPT !.flags[e] = @ \cap f]
       \/ /\ opt = "OR"
          /\ LET cur == k.flags[e] \cup f
             IN  k' = exit_sched(FoldLeft(LAMBDA r, t : event_wake(r, t, e, cur),
                                          [k EXCEPT !.flags[e] = cur], k.blk[e]))

EventNext ==
    \E e \in Event :
        \/ \E f \in SetFlags, opt \in {"AND", "OR"} : krhino_event_set(e, f, opt)
        \/ \E t \in Task, w \in Wants, n \in GetTicks : krhino_event_get(t, e, w, n)

EventDelNext ==
    \E t \in Task, e \in Event :
        krhino_event_del(t, e) \/ \E f \in SetFlags : krhino_event_create(t, e, f)

-----------------------------------------------------------------------------
\* No event is missed: nobody waits for flags that are set.  event_set tests
\* every waiter against one snapshot of the flags while the ones it wakes clear
\* them.
NoEventMissed ==
    \A e \in Event : \A i \in DOMAIN k.blk[e] : ~ Met(k.want[k.blk[e][i]], k.flags[e])

\* Whoever event_set wakes was told flags that meet its request, and the flags it
\* asked to clear are consumed: they are not set any more when event_set ends,
\* however many waiters shared them.
FlagsConsumed ==
    [][\A e \in Event : \A t \in ToSet(k.blk[e]) \ ToSet(k'.blk[e]) :
          k'.state[t] \in {"RDY", "SUSPENDED"} /\ k'.blkst[t] = "FINISH"
            => /\ Met(k.want[t], k'.actl[t])
               /\ k.want[t].clear => k.want[t].flags \cap k'.flags[e] = {}]_k
=============================================================================
