------------------------------ MODULE RhinoFifo ------------------------------
(***************************************************************************)
(* What the queues promise their users, without rings, lengths, lists or a  *)
(* scheduler: messages are received in the order they were sent, each by    *)
(* one receiver (a broadcast by all that wait), none is invented, and none  *)
(* is queued while somebody waits.  RhinoQueue implements it (see           *)
(* MCKernel).                                                               *)
(***************************************************************************)
EXTENDS Sequences

CONSTANTS Task, AnyQueue, Msg, NULL

VARIABLES
    msgs,     \* the messages in each queue
    waits,    \* the queue a task is blocked on
    got       \* the message each task was given, in a receive still to return

fvars == <<msgs, waits, got>>

Waiters(q) == {t \in Task : waits[t] = q}

FInit ==
    /\ msgs = [q \in AnyQueue |-> <<>>]
    /\ waits = [t \in Task |-> NULL]
    /\ got = [t \in Task |-> NULL]

Send(q, m) ==
    /\ Waiters(q) = {}
    /\ msgs' = [msgs EXCEPT ![q] = Append(@, m)]
    /\ UNCHANGED <<waits, got>>

\* straight to one waiter, or to all
HandOver(q, m, W) ==
    /\ W # {} /\ W \subseteq Waiters(q) /\ \A t \in W : got[t] = NULL
    /\ msgs[q] = <<>>
    /\ waits' = [t \in Task |-> IF t \in W THEN NULL ELSE waits[t]]
    /\ got' = [t \in Task |-> IF t \in W THEN m ELSE got[t]]
    /\ UNCHANGED msgs

Receive(q, t) ==
    /\ waits[t] = NULL /\ got[t] = NULL /\ msgs[q] # <<>>
    /\ got' = [got EXCEPT ![t] = Head(msgs[q])]
    /\ msgs' = [msgs EXCEPT ![q] = Tail(@)]
    /\ UNCHANGED waits

\* an interrupt handler receives
Poll(q) ==
    /\ msgs[q] # <<>>
    /\ msgs' = [msgs EXCEPT ![q] = Tail(@)]
    /\ UNCHANGED <<waits, got>>

Wait(q, t) ==
    /\ waits[t] = NULL /\ got[t] = NULL /\ msgs[q] = <<>>
    /\ waits' = [waits EXCEPT ![t] = q]
    /\ UNCHANGED <<msgs, got>>

\* timeouts, a wait abort
GiveUp(W) ==
    /\ waits' = [t \in Task |-> IF t \in W THEN NULL ELSE waits[t]]
    /\ UNCHANGED <<msgs, got>>

Return(t) ==
    /\ waits[t] = NULL
    /\ got' = [got EXCEPT ![t] = NULL]
    /\ UNCHANGED <<msgs, waits>>

\* flush, and what a deletion does to the messages and the waiters
Clear(q, W) ==
    /\ W \in {{}, Waiters(q)}
    /\ msgs' = [msgs EXCEPT ![q] = <<>>]
    /\ waits' = [t \in Task |-> IF t \in W THEN NULL ELSE waits[t]]
    /\ UNCHANGED got

FNext ==
    \/ \E q \in AnyQueue :
         \/ \E m \in Msg : Send(q, m) \/ \E W \in SUBSET Task : HandOver(q, m, W)
         \/ \E t \in Task : Receive(q, t) \/ Wait(q, t)
         \/ \E W \in SUBSET Task : Clear(q, W)
         \/ Poll(q)
    \/ \E t \in Task : Return(t)
    \/ \E W \in SUBSET Task : GiveUp(W)

FSpec == FInit /\ [][FNext]_fvars
=============================================================================
