---------------------------- MODULE UpdateTable ----------------------------
(***************************************************************************)
(* The pending-update tables of settings.c: key_updates (net and app keys) *)
(* and node_updates (the provisioner's node table).  A store or clear of   *)
(* a key or node is coalesced into a slot of the table and written by      *)
(* store_pending_keys / store_pending_nodes when the deferred flush runs;  *)
(* with the table full the record is written at once.                      *)
(*                                                                         *)
(* The two tables share their control flow and differ in how a free slot  *)
(* is taken: bt_mesh_store_subnet and friends set the slot's clear flag,   *)
(* bt_mesh_store_node and bt_mesh_clear_node only set its address.  The    *)
(* constant Table selects which table a run models.                        *)
(*                                                                         *)
(* The timer of pending_store is abstracted: the KEYS or NODES pending bit *)
(* is a flag, and the flush may start whenever it is set (MeshStore models *)
(* when).  An entry is a model value; a key's app/net discriminator is     *)
(* part of its identity.  The data of an entry is a member of Vals.        *)
(***************************************************************************)
EXTENDS Naturals, FiniteSets

CONSTANTS
    Table,      \* Keys or Nodes
    Ids,        \* key indexes (with their app/net flag) or node addresses
    Vals,       \* the contents of a key or node record
    NSlots,     \* ARRAY_SIZE(key_updates) or CONFIG_BT_MESH_NODE_COUNT
    Preemptive, \* API calls may run between two steps of the flush walk
    Absent      \* no such key or node / no such record

Keys == "keys"
Nodes == "nodes"

ASSUME TableAssumption == Table \in {Keys, Nodes}
ASSUME IdsAssumption == Ids # {}
ASSUME SlotsAssumption == NSlots \in Nat \ {0}
ASSUME PreemptiveAssumption == Preemptive \in BOOLEAN
ASSUME AbsentAssumption == Absent \notin Vals

VARIABLES
    live,    \* the keys or nodes in memory: Ids -> Vals \cup {Absent}
    stored,  \* the records written with settings_save_one
    table,   \* the slots of key_updates / node_updates
    pending, \* BT_MESH_KEYS_PENDING / BT_MESH_NODES_PENDING
    pos      \* the slot store_pending_keys/nodes is at; 0: not running

vars == <<live, stored, table, pending, pos>>

Slots == 1..NSlots

Slot == [used : BOOLEAN, id : Ids, clear : BOOLEAN]

TypeOK ==
    /\ live \in [Ids -> Vals \cup {Absent}]
    /\ stored \in [Ids -> Vals \cup {Absent}]
    /\ table \in [Slots -> Slot]
    /\ pending \in BOOLEAN
    /\ pos \in 0..NSlots

(* key_update_find / node_update_find: the matching valid slot and the    *)
(* last free one; the scan keeps the last slot of each kind it meets.     *)
Matches(id) == {s \in Slots : table[s].used /\ table[s].id = id}

FreeSlots == {s \in Slots : ~table[s].used}

LastSlot(S) == CHOOSE s \in S : \A t \in S : t <= s

(* A matching slot only has its clear flag overwritten.                   *)
MatchMark(u, clr) == [u EXCEPT !.clear = clr]

(* Mutant: a free key slot keeps the clear flag it held before.          *)
KeyReuseKeepsClear(u, id, clr) == [u EXCEPT !.used = TRUE, !.id = id]

(* key_updates: a free slot is made valid with its index and clear flag.  *)
KeyReuse(u, id, clr) == [used |-> TRUE, id |-> id, clear |-> clr]

(* node_updates: a free slot only gets its address; clear keeps whatever  *)
(* the slot held before (FALSE from the zeroed static array).             *)
NodeReuse(u, id, clr) == [u EXCEPT !.used = TRUE, !.id = id]

Reuse(u, id, clr) == IF Table = Keys THEN KeyReuse(u, id, clr)
                                     ELSE NodeReuse(u, id, clr)

(* store_net_key / store_app_key / store_node write the record from       *)
(* memory; clear_* write an empty record, which deletes it.               *)
Write(id, clr, val) == [stored EXCEPT ![id] = IF clr THEN Absent ELSE val]

(* bt_mesh_store_subnet, bt_mesh_clear_subnet, bt_mesh_store_app_key,     *)
(* bt_mesh_clear_app_key, bt_mesh_store_node, bt_mesh_clear_node: val is  *)
(* the entry's contents in memory once the caller has changed it.         *)
StoreOrClear(id, clr, val) ==
    \/ /\ Matches(id) # {}
       /\ table' = [table EXCEPT ![LastSlot(Matches(id))] = MatchMark(@, clr)]
       /\ pending' = TRUE
       /\ UNCHANGED stored
    \/ /\ Matches(id) = {}
       /\ FreeSlots = {}
       /\ stored' = Write(id, clr, val)
       /\ UNCHANGED <<table, pending>>
    \/ /\ Matches(id) = {}
       /\ FreeSlots # {}
       /\ table' = [table EXCEPT ![LastSlot(FreeSlots)] = Reuse(@, id, clr)]
       /\ pending' = TRUE
       /\ UNCHANGED stored

CallAllowed == Preemptive \/ pos = 0

(* A key or node is created (net key add, app key add, node provisioned)  *)
(* and stored.                                                            *)
Add(id, v) ==
    /\ CallAllowed
    /\ live[id] = Absent
    /\ live' = [live EXCEPT ![id] = v]
    /\ StoreOrClear(id, FALSE, v)
    /\ UNCHANGED pos

(* The contents of an existing entry change (key refresh, key update) and *)
(* it is stored again.                                                    *)
Change(id, v) ==
    /\ CallAllowed
    /\ live[id] \notin {Absent, v}
    /\ live' = [live EXCEPT ![id] = v]
    /\ StoreOrClear(id, FALSE, v)
    /\ UNCHANGED pos

(* A key or node is deleted and cleared.                                  *)
Delete(id) ==
    /\ CallAllowed
    /\ live[id] # Absent
    /\ live' = [live EXCEPT ![id] = Absent]
    /\ StoreOrClear(id, TRUE, Absent)
    /\ UNCHANGED pos

(* store_pending test-and-clears the category's bit and starts the walk.  *)
StartWalk ==
    /\ pending
    /\ pos = 0
    /\ pending' = FALSE
    /\ pos' = 1
    /\ UNCHANGED <<live, stored, table>>

(* One slot of store_pending_keys / store_pending_nodes: a clear writes   *)
(* the empty record, a store writes the entry if it is still in memory    *)
(* (else only a warning), and the slot is freed.                          *)
Flushed(u) ==
    IF ~u.used THEN stored
    ELSE IF u.clear THEN Write(u.id, TRUE, Absent)
    ELSE IF live[u.id] # Absent THEN Write(u.id, FALSE, live[u.id])
    ELSE stored

(* Mutant: the walk runs one slot past the end of the table.              *)
WalkStepNoWrap ==
    /\ pos # 0
    /\ stored' = Flushed(table[pos])
    /\ table' = [table EXCEPT ![pos].used = FALSE]
    /\ pos' = IF pos > NSlots THEN 0 ELSE pos + 1
    /\ UNCHANGED <<live, pending>>

WalkStep ==
    /\ pos # 0
    /\ stored' = Flushed(table[pos])
    /\ table' = [table EXCEPT ![pos].used = FALSE]
    /\ pos' = IF pos = NSlots THEN 0 ELSE pos + 1
    /\ UNCHANGED <<live, pending>>

Init ==
    /\ live = [id \in Ids |-> Absent]
    /\ stored = [id \in Ids |-> Absent]
    /\ table = [s \in Slots |-> [used |-> FALSE, id |-> CHOOSE id \in Ids : TRUE,
                                 clear |-> FALSE]]
    /\ pending = FALSE
    /\ pos = 0

Next ==
    \/ \E id \in Ids, v \in Vals : Add(id, v) \/ Change(id, v)
    \/ \E id \in Ids : Delete(id)
    \/ StartWalk
    \/ WalkStep

Spec == Init /\ [][Next]_vars

-----------------------------------------------------------------------------
(* No update is waiting: the walk is not running and every slot is free.  *)
Quiescent == pos = 0 /\ FreeSlots = Slots

(* Once every pending update has been flushed, the store holds exactly    *)
(* the keys or nodes in memory: no deletion is lost and no record is      *)
(* stale (spec 4.3: flush stores or clears each entry per its flag).      *)
StoreMatchesMemory == Quiescent => stored = live

(* No step deletes the record of a key or node that is still in memory:   *)
(* a clear flag left over in a reused slot must never turn a store into   *)
(* a deletion.                                                            *)
LiveNotDeleted ==
    \A id \in Ids : stored[id] # Absent /\ stored'[id] = Absent => live'[id] = Absent

NoLiveDelete == [][LiveNotDeleted]_vars
=============================================================================
