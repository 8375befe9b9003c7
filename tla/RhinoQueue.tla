----------------------------- MODULE RhinoQueue ------------------------------
(***************************************************************************)
(* The queues: kqueue_t (k_queue.c), which passes pointers through a        *)
(* RINGBUF_TYPE_FIX ring, and kbuf_queue_t (k_buf_queue.c), which copies    *)
(* messages of any length through a RINGBUF_TYPE_DYN ring.                  *)
(*                                                                          *)
(* k.num[q] is cur_num.  k.msg[t] is the message the receive that task t is *)
(* in will return: what a sender left in task->msg (for a kbuf_queue_t in   *)
(* the caller's buffer that task->msg points to) or what was popped.  NULL: *)
(* none, and none if the call fails.                                        *)
(* Calls that return an error and change nothing are no steps.              *)
(***************************************************************************)
EXTENDS RhinoSched

CONSTANTS
    RecvTicks,      \* the timeouts the receives are called with
    max_msg_size    \* the longest message a kbuf_queue_t takes

ASSUME QueueAssumption ==
    /\ RecvTicks \subseteq (Nat \ {0}) \cup {WAIT_FOREVER}
    /\ max_msg_size \in Nat

AnyQueue == Queue \cup BufQueue

\* callable by a task and by an interrupt handler
Sends == InIsr \/ Calls(k.active)

krhino_queue_create(t, q) ==
    /\ Calls(t)
    /\ ~ k.live[q] /\ \A u \in Task : k.wait[u] # q
    /\ k' = [k EXCEPT !.blk[q] = <<>>, !.ring[q] = ringbuf_reset(@), !.num[q] = 0,
                      !.live[q] = TRUE]

\* cur_num is forgotten here: the code leaves it, and nothing reads it before
\* queue_create sets it
krhino_queue_del(t, q) ==
    /\ Calls(t)
    /\ k.live[q]
    /\ k' = exit_sched([pend_rm_all([k EXCEPT !.live[q] = FALSE], q)
                          EXCEPT !.ring[q] = ringbuf_reset(@), !.num[q] = 0])

task_msg_recv(r, t, m) == pend_task_wakeup([r EXCEPT !.msg[t] = m], t)

\* faulty variant: queued although somebody waits
queue_push_always(q, m) ==
    /\ Sends /\ k.live[q] /\ ringbuf_fits(k.ring[q], m)
    /\ k' = [k EXCEPT !.ring[q] = ringbuf_push(@, m), !.num[q] = @ + 1]

\* nobody waits: the message is queued
queue_push(q, m) ==
    /\ Sends
    /\ k.live[q] /\ k.blk[q] = <<>>
    /\ ringbuf_fits(k.ring[q], m)
    /\ k' = [k EXCEPT !.ring[q] = ringbuf_push(@, m), !.num[q] = @ + 1]

\* krhino_queue_back_send, or krhino_queue_all_send if wake_all
msg_send(q, m, wake_all) ==
    /\ k.num[q] < QueueSize
    /\ \/ queue_push(q, m)
       \/ /\ Sends
          /\ k.live[q] /\ k.blk[q] # <<>>
          /\ k' = exit_sched(IF wake_all
                     THEN FoldLeft(LAMBDA r, t : task_msg_recv(r, t, m), k, k.blk[q])
                     ELSE task_msg_recv(k, Head(k.blk[q]), m))

buf_queue_send(q, m) ==
    /\ MsgLen[m] <= max_msg_size
    /\ \/ queue_push(q, m)
       \/ /\ Sends
          /\ k.live[q] /\ k.blk[q] # <<>>
          /\ k' = exit_sched(task_msg_recv(k, Head(k.blk[q]), m))

\* a kqueue_t looks at cur_num, a kbuf_queue_t at its ring
has_msg(q) == IF q \in Queue THEN k.num[q] > 0 ELSE ~ ringbuf_is_empty(k.ring[q])

\* faulty variant: a message that is taken is not removed
recv_peek(q) ==
    LET p == ringbuf_pop(k.ring[q])
    IN  [msg |-> Received(k.ring[q], p.data), k |-> [k EXCEPT !.num[q] = @ - 1]]

\* the first message and the queue without it
recv_pop(q) ==
    LET p == ringbuf_pop(k.ring[q])
    IN  [msg |-> Received(k.ring[q], p.data),
         k   |-> [k EXCEPT !.ring[q] = p.ring, !.num[q] = @ - 1]]

\* krhino_queue_recv and krhino_buf_queue_recv.  With a message at hand the call
\* returns without blocking; its return is the same step as after a wait.
queue_recv(t, q, ticks) ==
    /\ Calls(t)
    /\ k.live[q]
    /\ \/ /\ has_msg(q)
          /\ k' = [recv_pop(q).k EXCEPT !.msg[t] = recv_pop(q).msg,
                                        !.pc[t] = "pend", !.wait[t] = q]
       \/ /\ ~ has_msg(q)
          /\ k.lock = 0
          /\ k' = exit_sched_pend(pend_to_blk_obj(k, q, t, ticks), q)

\* an interrupt handler receives with RHINO_NO_WAIT
queue_recv_isr(q) ==
    /\ InIsr
    /\ k.live[q] /\ has_msg(q)
    /\ k' = recv_pop(q).k

queue_flush(t, q) ==
    /\ Calls(t)
    /\ k.live[q]
    /\ k' = [k EXCEPT !.num[q] = 0, !.ring[q] = ringbuf_reset(@)]

QueueNext ==
    \/ \E q \in Queue, m \in Msg, w \in BOOLEAN : msg_send(q, m, w)
    \/ \E q \in BufQueue, m \in Msg : buf_queue_send(q, m)
    \/ \E q \in AnyQueue :
         \/ queue_recv_isr(q)
         \/ \E t \in Task : queue_flush(t, q) \/ \E n \in RecvTicks : queue_recv(t, q, n)

QueueDelNext ==
    \E t \in Task, q \in AnyQueue : krhino_queue_create(t, q) \/ krhino_queue_del(t, q)

-----------------------------------------------------------------------------
\* The books of a queue agree: cur_num, which a receive of a kqueue_t trusts, is
\* the number of messages in the ring, which a receive of a kbuf_queue_t trusts;
\* the cells between head and tail are those messages, each behind its length,
\* wherever the buffer ends; what a receive returns is a message; and no task
\* waits beside a message.
QueueBooksAgree ==
    /\ \A t \in Task : k.msg[t] \in Msg \cup {NULL}
    /\ \A q \in {x \in AnyQueue : k.live[x]} :
         /\ k.num[q] = Len(Contents(k.ring[q])) /\ k.ring[q].freesize \in Nat
         /\ InUse(k.ring[q]) = FlattenSeq([i \in 1 .. k.num[q] |->
                                   Frame(k.ring[q].type, Contents(k.ring[q])[i])])
         /\ k.blk[q] # <<>> => ringbuf_is_empty(k.ring[q])
=============================================================================
