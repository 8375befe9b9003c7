-------------------------------- MODULE KvMap --------------------------------
(***************************************************************************)
(* What the key-value store promises to its callers: a map on which one    *)
(* call works at a time, each call takes effect key by key at some moment  *)
(* before it returns, a call that returns success has taken effect, and a  *)
(* power failure changes nothing.  The one exception is a set of keys at   *)
(* risk, which a restart may drop.                                         *)
(***************************************************************************)
CONSTANTS Key, Val, NoVal, NoCall

VARIABLES
    store,    \* the map, as the next restart will find it
    cur,      \* the call that is under way, or NoCall
    atRisk    \* keys that a restart may drop

vars == <<store, cur, atRisk>>

Call == [op : {"set"}, keys : {{k} : k \in Key}, val : Val, ret : {"ok", "no_space", "hang"}]
   \cup [op : {"del"}, keys : {{k} : k \in Key}, val : {NoVal}, ret : {"ok", "not_found"}]
   \cup [op : {"prefix"}, keys : SUBSET Key, val : {NoVal}, ret : {"ok"}]
   \cup [op : {"get"}, keys : {{k} : k \in Key}, val : {NoVal}, ret : Val \cup {NoVal}]

Init ==
    /\ store = [k \in Key |-> NoVal]
    /\ cur = NoCall
    /\ atRisk = {}

\* A call begins; ret is what it will return.
Begin ==
    /\ cur = NoCall /\ cur' \in Call
    /\ UNCHANGED store

\* The call takes effect on one of its keys.
Effect ==
    /\ cur # NoCall /\ cur.op # "get" /\ cur.ret = "ok"
    /\ \E k \in cur.keys : store' = [store EXCEPT ![k] = cur.val]
    /\ UNCHANGED cur

\* What must be true when a call returns.
Kept(c) ==
    \A k \in c.keys :
        /\ c.ret = "ok" => store[k] = c.val
        /\ c.ret = "not_found" => store[k] = NoVal
        /\ c.op = "get" => c.ret = store[k]

Return ==
    /\ cur # NoCall /\ Kept(cur)
    /\ cur' = NoCall
    /\ UNCHANGED store

\* Power fails: the call under way never returns.
Crash ==
    /\ cur' = NoCall
    /\ UNCHANGED store

\* A restart drops a key that was at risk.
Lose ==
    /\ \E k \in atRisk : store' = [store EXCEPT ![k] = NoVal]
    /\ cur' = NoCall

Next == Begin \/ Effect \/ Return \/ Crash \/ Lose

Spec == Init /\ [][Next]_vars
=============================================================================
