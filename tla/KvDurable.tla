------------------------------ MODULE KvDurable ------------------------------
(***************************************************************************)
(* The key-value store as its callers may rely on it across power          *)
(* failures.  An auxiliary variable keeps what kv_init would find if the   *)
(* power failed now; through it KvStore implements the map of KvMap.       *)
(***************************************************************************)
EXTENDS KvStore

VARIABLE durable    \* the value of every key after a restart

dvars == <<vars, durable>>

DInit == Init /\ durable = [k \in Key |-> Value(kv_init(flash), k)]

Recovered ==
    \E f \in {flash'} : \E s \in {kv_init(f)} : durable' = [k \in Key |-> Value(s, k)]

DNext == Next /\ Recovered

DSpec == DInit /\ [][DNext]_dvars
FairSpec == DSpec /\ Fairness

\* The items that lie at the very place their own origin_off names.
SelfNamed == {<<b, o>> \in Block \X (0 .. BLK_SIZE) :
                 /\ o \in DOMAIN flash[b].items
                 /\ flash[b].items[o].state = "NORMAL"
                 /\ flash[b].items[o].crc
                 /\ flash[b].items[o].orig = <<b, o>>}
ItemAt(p) == flash[p[1]].items[p[2]]
AtRisk == {ItemAt(p).key : p \in SelfNamed}

\* The map: what a restart finds, and for a key at risk that the restart would
\* drop the value it drops.
Map == INSTANCE KvMap WITH
    store  <- [k \in Key |-> IF durable[k] = NoVal /\ k \in AtRisk
                             THEN ItemAt(CHOOSE p \in SelfNamed : ItemAt(p).key = k).val
                             ELSE durable[k]],
    cur    <- IF holder \in Caller THEN call[holder] ELSE NoCall,
    atRisk <- AtRisk

-----------------------------------------------------------------------------
(* Properties *)

\* The store is a map that survives power failures (KvMap): whatever step the
\* power fails at, restarts included, the next kv_init finds every key with the
\* value of the last call that took effect on it; a call that returned success
\* has taken effect; a collection changes no key.
ImplementsMap == Map!Spec

\* What kv_item_get finds while the system runs is what a restart would find:
\* nobody is told a value that a power failure would take back.
RestartKeepsKeys ==
    phase = "up" /\ holder = NoOne => \A k \in Key : Value(Now, k) = durable[k]

\* A collection loses nothing: whatever flash call of aos_kv_gc the power fails
\* after, a restart finds what it would have found before that call.
CollectionKeepsKeys == [][holder = "gc" => durable' = durable]_dvars
=============================================================================
