------------------------------- MODULE KvFlash -------------------------------
(***************************************************************************)
(* The log-structured layout of the key-value store (kvmgr.c): what its    *)
(* routines do to the flash partition and to the block table in RAM.       *)
(*                                                                         *)
(* A routine is an operator on a record s = [flash, ram, log]: s.flash is  *)
(* the partition as the routine sees it, s.ram is g_kv_mgr, and s.log is   *)
(* the sequence of raw_write and raw_erase calls made so far.  KvStore     *)
(* performs the calls of s.log one at a time, so that the power may fail   *)
(* between any two of them and in the middle of one.                       *)
(*                                                                         *)
(* Lengths and offsets are counted in units of one header (BLK_HEADER_SIZE *)
(* and ITEM_HEADER_SIZE are both one unit).  A position is a pair of block *)
(* number and offset in the block; origin_off 0 is <<0, 0>>.               *)
(***************************************************************************)
EXTENDS Integers, Sequences, FiniteSets, FiniteSetsExt, SequencesExt

CONSTANTS
    Key, Val,       \* keys, and the values a key may be given
    NoVal,          \* "not found"
    ItemLen,        \* aligned length of an item, by its value
    ITEM_MAX_LEN,   \* the longest item
    BLK_NUMS,       \* number of blocks
    BLK_SIZE        \* length of a block

KV_GC_RESERVED == 1
BLK_HEADER_SIZE == 1
ITEM_HEADER_SIZE == 1

\* Positions are uint16_t in the code: sixteen blocks would overflow them.
ASSUME KvAssumption ==
    /\ BLK_NUMS \in (KV_GC_RESERVED + 1) .. 15
    /\ ITEM_MAX_LEN \in Nat
    /\ ItemLen \in [Val -> (ITEM_HEADER_SIZE + 1) .. ITEM_MAX_LEN]
    /\ BLK_SIZE \in Nat /\ BLK_SIZE > BLK_HEADER_SIZE + ITEM_MAX_LEN
    /\ NoVal \notin Val

Block == 0 .. (BLK_NUMS - 1)
NoPos == <<0, 0>>
FreshSpace == BLK_SIZE - BLK_HEADER_SIZE

-----------------------------------------------------------------------------
(* What is on the flash *)

\* A block: its header state ("bad": magic or state is not a legal one) and
\* its items by offset.  An item is NORMAL, with a good or a bad crc, or
\* deleted, or junk: a header that does not make sense.
Erased == [state |-> "bad", items |-> << >>]
Normal(k, v, orig) == [state |-> "NORMAL", crc |-> TRUE, key |-> k, val |-> v,
                       orig |-> orig, len |-> ItemLen[v]]
Torn(n) == [state |-> "NORMAL", crc |-> FALSE, len |-> n]
Deleted(n) == [state |-> "DELETE", len |-> n]
Junk == [state |-> "JUNK", len |-> ITEM_HEADER_SIZE]

\* Where the items of a block end.
EndOf(blk) == Max({BLK_HEADER_SIZE} \cup {o + blk.items[o].len : o \in DOMAIN blk.items})

\* The effect of one completed call of the flash driver.
Program(f, w) ==
    CASE w.call = "erase"  -> [f EXCEPT ![w.blk] = Erased]
      [] w.call = "header" -> [f EXCEPT ![w.blk].state = "CLEAN"]
      [] w.call = "bstate" -> [f EXCEPT ![w.blk].state = w.state]
      [] w.call = "item"   -> [f EXCEPT ![w.blk].items = @ @@ (w.off :> w.item)]
      [] w.call = "istate" -> [f EXCEPT ![w.blk].items[w.off] = Deleted(@.len)]

\* What a power failure during the call may leave.  An item is programmed from
\* its first byte on: a part of the header leaves junk, a part of the payload
\* an item whose crc does not match.  A header is bad until its state is there.
Interrupted(f, w) ==
    {f} \cup
        {[f EXCEPT ![w.blk].items = @ @@ (w.off :> e)] :
            e \in IF w.call = "item" THEN {Junk, Torn(w.item.len)} ELSE {}}

\* raw_write, raw_erase
raw(s, w) == [s EXCEPT !.flash = Program(@, w), !.log = Append(@, w)]

-----------------------------------------------------------------------------
(* Blocks and positions *)

NoRam == [info |-> [b \in Block |-> [state |-> "none", space |-> 0]],
          clean |-> 0, write_pos |-> NoPos]

kv_block_format(s, b) ==
    LET t == raw(raw(s, [call |-> "erase", blk |-> b]), [call |-> "header", blk |-> b])
    IN  [t EXCEPT !.ram.info[b] = [state |-> "CLEAN", space |-> FreshSpace],
                  !.ram.clean = @ + 1]

\* kv_state_set on a block header, with the copy in block_info.
kv_state_set(s, b, state) ==
    [raw(s, [call |-> "bstate", blk |-> b, state |-> state])
        EXCEPT !.ram.info[b].state = state]

\* A block in use that holds something dead becomes DIRTY.
MarkDirty(s, b) ==
    IF s.ram.info[b].state = "USED" THEN kv_state_set(s, b, "DIRTY") ELSE s

\* The blocks other than b, in the order the code's loops visit them.
CyclicFrom(b) == [j \in 1 .. (BLK_NUMS - 1) |-> (b + j) % BLK_NUMS]

\* faulty variant: counts the reserved block too
more_blocks_any == BLK_NUMS > KV_GC_RESERVED

\* Whether stores may leave the block they are in: there are blocks besides the
\* reserved one (an #if in the code).
more_blocks == BLK_NUMS > KV_GC_RESERVED + 1

\* kv_item_calc_pos: where the next item of this length goes.  The result says
\* whether trigger_gc was called, and "hang" for the loop that never ends: with
\* the write position in block 0 the loop variable steps from 0 to 1 and is
\* never equal to 0 where the loop condition looks at it.
kv_item_calc_pos(s, len) ==
    LET wb    == s.ram.write_pos[1]
        space == s.ram.info[wb].space
        Fits(b) == s.ram.info[b].space > len
        rest  == IF more_blocks THEN SelectSeq(CyclicFrom(wb), Fits) ELSE << >>
        b     == Head(rest)
        t     == IF s.ram.info[b].state = "CLEAN"
                 THEN [kv_state_set(s, b, "USED") EXCEPT !.ram.clean = @ - 1] ELSE s
        to    == <<b, BLK_SIZE - s.ram.info[b].space>>
    IN  IF Fits(wb)
        THEN [s |-> s, pos |-> s.ram.write_pos, hang |-> FALSE,
              gc |-> space - len < ITEM_MAX_LEN /\ s.ram.clean <= KV_GC_RESERVED]
        ELSE IF rest # << >>
        THEN [s |-> [t EXCEPT !.ram.write_pos = to], pos |-> to, hang |-> FALSE, gc |-> FALSE]
        ELSE LET hang == more_blocks /\ wb = 0
             IN  [s |-> s, pos |-> NoPos, hang |-> hang, gc |-> ~hang]

-----------------------------------------------------------------------------
(* Items *)

\* faulty variant: the free space of the block is not reduced
put_keeps_space(s, item) ==
    LET p == s.ram.write_pos
    IN  [raw(s, [call |-> "item", blk |-> p[1], off |-> p[2], item |-> item])
            EXCEPT !.ram.write_pos[2] = @ + item.len]

\* faulty variant: write_pos moves past the header only
put_header_only(s, item) ==
    LET p == s.ram.write_pos
    IN  [raw(s, [call |-> "item", blk |-> p[1], off |-> p[2], item |-> item])
            EXCEPT !.ram.write_pos[2] = @ + ITEM_HEADER_SIZE,
                   !.ram.info[p[1]].space = @ - item.len]

\* Program an item at write_pos and move on (kv_item_store, __item_gc_cb).
Put(s, item) ==
    LET b == s.ram.write_pos[1]
        o == s.ram.write_pos[2]
    IN  [raw(s, [call |-> "item", blk |-> b, off |-> o, item |-> item])
            EXCEPT !.ram.write_pos = <<b, o + item.len>>,
                   !.ram.info[b].space = @ - item.len]

\* kv_item_del(item, KV_SELF_REMOVE)
kv_item_del(s, b, o) ==
    MarkDirty(raw(s, [call |-> "istate", blk |-> b, off |-> o]), b)

\* faulty variant: whatever lies at origin_off goes, of this key or not
del_orig_any_key(s, b, o) ==
    LET orig == s.flash[b].items[o].orig
    IN  IF /\ orig[2] \in DOMAIN s.flash[orig[1]].items
           /\ s.flash[orig[1]].items[orig[2]].state = "NORMAL"
        THEN kv_item_del(s, orig[1], orig[2])
        ELSE s

\* kv_item_del(item, KV_ORIG_REMOVE): the item at origin_off goes if it is
\* NORMAL and has this item's key.  (An item there whose crc is bad may or may
\* not show the key; it is removed in the same scan either way.)
kv_item_del_orig(s, b, o) ==
    LET item == s.flash[b].items[o]
        ob   == item.orig[1]
        oo   == item.orig[2]
    IN  IF /\ oo \in DOMAIN s.flash[ob].items
           /\ s.flash[ob].items[oo].state = "NORMAL"
           /\ s.flash[ob].items[oo].crc
           /\ s.flash[ob].items[oo].key = item.key
        THEN kv_item_del(s, ob, oo)
        ELSE s

\* faulty variant: an update that was cut short is not finished
recovery_keeps_orig(s, b, o) ==
    IF s.flash[b].items[o].crc THEN s ELSE kv_item_del(s, b, o)

item_recovery_cb(s, b, o) ==
    LET item == s.flash[b].items[o]
    IN  IF ~item.crc THEN kv_item_del(s, b, o)
        ELSE IF item.orig # NoPos /\ item.orig # <<b, o>> THEN kv_item_del_orig(s, b, o)
        ELSE s

item_gc_cb(s, b, o) == Put(s, s.flash[b].items[o])

\* ks is the set of keys that have the prefix.
item_del_by_prefix_cb(s, b, o, ks) ==
    IF s.flash[b].items[o].key \in ks THEN kv_item_del(s, b, o) ELSE s

\* kv_item_traverse: the callback func on every NORMAL item of a block, from the
\* first to the last; anything else there makes the block dirty; then
\* block_info gets the space behind the last item.
kv_item_traverse(func, s, b, ks) ==
    LET Visit(t, o) ==
            CASE t.flash[b].items[o].state # "NORMAL" -> MarkDirty(t, b)
              [] OTHER -> CASE func = "recovery" -> item_recovery_cb(t, b, o)
                            [] func = "gc"       -> item_gc_cb(t, b, o)
                            [] func = "prefix"   -> item_del_by_prefix_cb(t, b, o, ks)
        t   == FoldLeft(Visit, s, SetToSortSeq(DOMAIN s.flash[b].items, <))
        end == EndOf(s.flash[b])
    IN  [t EXCEPT !.ram.info[b].space =
            IF BLK_SIZE > end THEN BLK_SIZE - end ELSE ITEM_HEADER_SIZE]

\* The NORMAL items of a key in the blocks that kv_item_get searches.
Copies(s, k) ==
    {<<b, o>> \in Block \X (0 .. BLK_SIZE) :
        /\ s.ram.info[b].state # "CLEAN"
        /\ o \in DOMAIN s.flash[b].items
        /\ s.flash[b].items[o].state = "NORMAL"
        /\ s.flash[b].items[o].crc
        /\ s.flash[b].items[o].key = k}

\* kv_item_get: the first of them.  (The space it recomputes on the way is the
\* one that block_info already has, see RamMirrorsFlash.)
kv_item_get(s, k) ==
    IF Copies(s, k) = {} THEN NoPos
    ELSE CHOOSE p \in Copies(s, k) : \A q \in Copies(s, k) :
            p[1] < q[1] \/ (p[1] = q[1] /\ p[2] <= q[2])

\* The value under a key.
Value(s, k) ==
    LET p == kv_item_get(s, k)
    IN  IF p = NoPos THEN NoVal ELSE s.flash[p[1]].items[p[2]].val

-----------------------------------------------------------------------------
(* The operations, as far as they run under kv_mutex.  The result r has the *)
(* return code and whether trigger_gc was called.                           *)

kv_item_store(s, k, v, orig) ==
    LET c == kv_item_calc_pos(s, ItemLen[v])
    IN  IF c.pos = NoPos
        THEN [s |-> c.s, gc |-> c.gc, ret |-> IF c.hang THEN "hang" ELSE "no_space"]
        ELSE [s |-> Put(c.s, Normal(k, v, orig)), gc |-> c.gc, ret |-> "ok"]

\* faulty variant: the old item is deleted before the new one is stored
update_deletes_first(s, k, v, pos) ==
    IF Value(s, k) = v THEN [s |-> s, gc |-> FALSE, ret |-> "ok"]
    ELSE kv_item_store(kv_item_del(s, pos[1], pos[2]), k, v, pos)

kv_item_update(s, k, v, pos) ==
    LET r == kv_item_store(s, k, v, pos)
    IN  IF Value(s, k) = v THEN [s |-> s, gc |-> FALSE, ret |-> "ok"]
        ELSE IF r.ret # "ok" THEN r
        ELSE [r EXCEPT !.s = kv_item_del(@, pos[1], pos[2])]

kv_set(s, k, v) ==
    LET pos == kv_item_get(s, k)
    IN  IF pos = NoPos THEN kv_item_store(s, k, v, NoPos)
        ELSE kv_item_update(s, k, v, pos)

kv_del(s, k) ==
    LET pos == kv_item_get(s, k)
    IN  IF pos = NoPos THEN [s |-> s, gc |-> FALSE, ret |-> "not_found"]
        ELSE [s |-> kv_item_del(s, pos[1], pos[2]), gc |-> FALSE, ret |-> "ok"]

kv_del_by_prefix(s, ks) ==
    LET Step(t, b) == kv_item_traverse("prefix", t, b, ks)
    IN  [s |-> FoldLeft(Step, s, [j \in 1 .. BLK_NUMS |-> j - 1]), gc |-> FALSE, ret |-> "ok"]

\* aos_kv_gc: copy what lives in the first DIRTY block to a CLEAN one, format
\* the DIRTY block, then declare the copy USED.
kv_gc(s) ==
    LET clean  == {b \in Block : s.ram.info[b].state = "CLEAN"}
        to     == Min(clean)
        from   == s.ram.write_pos[1]
        IsDirty(b) == s.ram.info[b].state = "DIRTY"
        dirty  == SelectSeq(Append(CyclicFrom(from), from), IsDirty)
        copied == kv_item_traverse("gc",
                     [s EXCEPT !.ram.write_pos = <<to, BLK_HEADER_SIZE>>], Head(dirty), {})
        fmt    == kv_block_format(copied, Head(dirty))
    IN  IF s.ram.clean = 0 \/ clean = {} \/ dirty = << >> THEN s
        ELSE [kv_state_set(fmt, to, "USED") EXCEPT !.ram.clean = @ - 1]

\* kv_init, first loop: look at one block.
InitBlock(a, b) ==
    LET hdr == a.s.flash[b].state
        t   == kv_item_traverse("recovery", [a.s EXCEPT !.ram.info[b].state = hdr], b, {})
    IN  IF hdr = "bad" THEN [a EXCEPT !.s = kv_block_format(@, b)]
        ELSE IF hdr # "CLEAN" THEN [a EXCEPT !.s = t]
        ELSE IF t.ram.info[b].space # FreshSpace
        THEN [s |-> t, unclean |-> <<b>> \o a.unclean]
        ELSE [a EXCEPT !.s = [t EXCEPT !.ram.clean = @ + 1]]

\* kv_init, second loop: a CLEAN block that is not empty is an interrupted copy.
InitUnclean(s, b) ==
    IF s.ram.clean >= KV_GC_RESERVED THEN kv_state_set(s, b, "DIRTY")
    ELSE kv_block_format(s, b)

\* kv_init: where to write next.
InitWritePos(s) ==
    LET state(b) == s.ram.info[b].state
        last == {b \in Block : state(b) \in {"USED", "DIRTY"} /\ state((b + 1) % BLK_NUMS) = "CLEAN"}
    IN  IF s.ram.clean = BLK_NUMS
        THEN [kv_state_set(s, 0, "USED") EXCEPT !.ram.write_pos = <<0, BLK_HEADER_SIZE>>,
                                                !.ram.clean = @ - 1]
        ELSE IF last = {} THEN s
        ELSE [s EXCEPT !.ram.write_pos = <<Min(last), BLK_SIZE - s.ram.info[Min(last)].space>>]

\* kv_init on what the flash holds.
kv_init(f) ==
    LET a == FoldLeft(InitBlock, [s |-> [flash |-> f, ram |-> NoRam, log |-> << >>],
                                  unclean |-> << >>], [j \in 1 .. BLK_NUMS |-> j - 1])
        u == FoldLeft(InitUnclean, a.s, a.unclean)
    IN  InitWritePos(IF u.ram.clean = 0 THEN kv_block_format(u, 0) ELSE u)
=============================================================================
