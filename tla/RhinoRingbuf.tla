---------------------------- MODULE RhinoRingbuf -----------------------------
(***************************************************************************)
(* The ring buffer under the queues (k_ringbuf.c).  A ring r keeps the      *)
(* offsets head and tail (head = end or tail = end is only wrapped by the   *)
(* next use), the free bytes and the cells of its buffer.                   *)
(*                                                                          *)
(* A RINGBUF_TYPE_FIX ring has one cell per block, which holds the message. *)
(* A RINGBUF_TYPE_DYN ring has one cell per byte: each message comes after  *)
(* its length, written in one to three bytes whose first one tells by its   *)
(* two high bits how many they are.  A byte has the values 0 .. Base - 1    *)
(* (256 in the code).  Length byte b is the cell <<LEN, b>>, byte i of the   *)
(* payload of m is <<m, i>>.                                                *)
(* A byte that was popped stays in the buffer in the code; here it becomes  *)
(* NoCell, so that reading it again would show.                             *)
(***************************************************************************)
EXTENDS Integers, Sequences, FiniteSets, SequencesExt

CONSTANTS
    Msg,      \* the messages
    MsgLen,   \* the length of each in bytes
    LEN,      \* marks the length bytes
    Base,     \* the number of values of a byte
    NoCell    \* what a cell holds that belongs to no message

ASSUME RingAssumption ==
    /\ Base % 4 = 0 /\ Base > 0
    /\ MsgLen \in [Msg -> 1 .. (Base \div 4) * Base * Base - 1]
    /\ NoCell # LEN /\ {NoCell, LEN} \cap Msg = {}

\* ringbuf_init and ringbuf_reset; n cells
ringbuf_init(type, n) ==
    [type |-> type, size |-> n, buf |-> [i \in 1 .. n |-> NoCell],
     head |-> 0, tail |-> 0, freesize |-> n]

ringbuf_reset(r) == ringbuf_init(r.type, r.size)

ringbuf_is_full(r) == r.freesize < IF r.type = "DYN" THEN 2 ELSE 1

ringbuf_is_empty(r) == r.freesize = r.size

wrapped(r, p) == IF p = r.size THEN 0 ELSE p

\* the n cells at offset p; what lies behind the buffer is no message
cells_at(r, p, n) == SubSeq(r.buf, p + 1, Min({p + n, r.size}))

\* the buffer with cells copied to offset p (longer than size: an overrun)
memcpy(buf, p, cells) ==
    SubSeq(buf, 1, p) \o cells \o SubSeq(buf, p + Len(cells) + 1, Len(buf))

\* the cells go behind the tail, split where the buffer ends
put(r, cells) ==
    LET t    == wrapped(r, r.tail)
        room == r.size - t
        split == t >= r.head /\ room < Len(cells)
    IN  [r EXCEPT
            !.freesize = @ - Len(cells),
            !.buf = IF split THEN memcpy(memcpy(@, t, SubSeq(cells, 1, room)),
                                         0, SubSeq(cells, room + 1, Len(cells)))
                             ELSE memcpy(@, t, cells),
            !.tail = IF split THEN Len(cells) - room ELSE t + Len(cells)]

\* n cells from the head, split where the buffer ends if mayWrap
take(r, n, mayWrap) ==
    LET h    == wrapped(r, r.head)
        room == r.size - h
        none == [i \in 1 .. n |-> NoCell]
    IN  IF mayWrap /\ room < n
        THEN [data |-> cells_at(r, h, room) \o cells_at(r, 0, n - room),
              ring |-> [r EXCEPT !.freesize = @ + n, !.head = n - room,
                                 !.buf = memcpy(memcpy(@, h, SubSeq(none, 1, room)),
                                                0, SubSeq(none, room + 1, n))]]
        ELSE [data |-> cells_at(r, h, n),
              ring |-> [r EXCEPT !.freesize = @ + n, !.head = h + n,
                                 !.buf = memcpy(@, h, none)]]

\* COMPRESS_LEN
header_len(n) == IF n < Base \div 2 THEN 1 ELSE IF n < (Base \div 4) * Base THEN 2 ELSE 3

ringbuf_headlen_compress(n) ==
    LET bytes == CASE header_len(n) = 1 -> <<n>>
                   [] header_len(n) = 2 -> <<Base \div 2 + n \div Base, n % Base>>
                   [] header_len(n) = 3 -> <<3 * (Base \div 4) + n \div (Base * Base),
                                             (n \div Base) % Base, n % Base>>
    IN  [i \in DOMAIN bytes |-> <<LEN, bytes[i]>>]

\* the number of length bytes, told by the first
len_bytes(b) == IF b < Base \div 2 THEN 1 ELSE IF b < 3 * (Base \div 4) THEN 2 ELSE 3

ringbuf_headlen_decompress(c) ==
    LET first == IF Len(c) > 1 THEN c[1][2] % (Base \div 4) ELSE c[1][2]
    IN  FoldLeft(LAMBDA v, b : v * Base + b[2], first, Tail(c))

payload(m) == [i \in 1 .. MsgLen[m] |-> <<m, i>>]

\* a push that does not fit returns RHINO_RINGBUF_FULL
ringbuf_fits(r, m) ==
    /\ ~ ringbuf_is_full(r)
    /\ r.type = "DYN" => r.freesize >= header_len(MsgLen[m]) + MsgLen[m]

\* a push that fits
ringbuf_push(r, m) ==
    IF r.type = "FIX" THEN put(r, <<<<m, 1>>>>)
    ELSE put(put(r, ringbuf_headlen_compress(MsgLen[m])), payload(m))

\* a pop from a ring that is not empty
ringbuf_pop(r) ==
    IF r.type = "FIX" THEN take(r, 1, TRUE)
    ELSE LET n    == len_bytes(r.buf[wrapped(r, r.head) + 1][2])
             head == take(r, n, TRUE)
         IN  take(head.ring, ringbuf_headlen_decompress(head.data),
                  wrapped(r, head.ring.head) > r.tail)

\* the message whose bytes were received, NoCell if they are those of none
Received(r, data) ==
    LET is == {m \in Msg : data = IF r.type = "FIX" THEN <<<<m, 1>>>> ELSE payload(m)}
    IN  IF is = {} THEN NoCell ELSE CHOOSE m \in is : TRUE

-----------------------------------------------------------------------------
(* What a ring holds, read from the buffer independently of ringbuf_pop.    *)

\* the cells in use, first to last
InUse(r) ==
    LET h == wrapped(r, r.head)
    IN  SubSeq(r.buf \o r.buf, h + 1, h + r.size - r.freesize)

\* the messages in the ring, first to last, told by the first cell of each
Contents(r) ==
    LET first == SelectSeq(InUse(r), LAMBDA c : c \in {<<m, 1>> : m \in Msg})
    IN  [i \in DOMAIN first |-> first[i][1]]

\* a message as it lies in a ring of the type
Frame(type, m) ==
    IF type = "FIX" THEN <<<<m, 1>>>> ELSE ringbuf_headlen_compress(MsgLen[m]) \o payload(m)
=============================================================================
