------------------------------ MODULE VaLabels ------------------------------
(***************************************************************************)
(* The virtual-address labels of settings.c.  A label changed in memory    *)
(* gets its BT_MESH_VA_CHANGED flag and bt_mesh_store_label marks the VA   *)
(* category; store_pending_va walks the labels, test-and-clears each flag  *)
(* and saves the label's Va/<index> record, unless its reference count is  *)
(* zero (IS_VA_DEL), in which case nothing is written.  At boot           *)
(* va_set_bin restores a label from its record.                            *)
(*                                                                         *)
(* The label table and its add/delete operations live in the transport     *)
(* layer, which is not in the repository; they are modelled from the       *)
(* spec: an add takes a label of the same UUID or a free one, a delete     *)
(* drops a reference.  A label's address is a hash of its UUID and is not  *)
(* modelled apart from it.  The pending_store timer is abstracted: the     *)
(* walk may start whenever the VA bit is set.                              *)
(***************************************************************************)
EXTENDS Naturals

CONSTANTS
    NLabels,    \* CONFIG_BT_MESH_LABEL_COUNT
    Uuids,      \* label UUIDs
    MaxRef,     \* bound on a label's reference count
    Preemptive, \* API calls may run between two steps of the walk
    Absent      \* no record / no UUID

ASSUME LabelsAssumption == NLabels \in Nat \ {0}
ASSUME RefAssumption == MaxRef \in Nat \ {0}
ASSUME PreemptiveAssumption == Preemptive \in BOOLEAN

VARIABLES
    ref,      \* lab->ref of each label
    uuid,     \* lab->uuid of each label
    changed,  \* the labels with BT_MESH_VA_CHANGED set
    pending,  \* BT_MESH_VA_PENDING
    pos,      \* the label store_pending_va is at; 0: not running
    stored    \* the Va/<index> records

vars == <<ref, uuid, changed, pending, pos, stored>>

Labels == 1..NLabels

(* struct va_val: ref, addr and uuid; addr is a function of uuid.          *)
VaVal == [ref : 1..MaxRef, uuid : Uuids]

ASSUME AbsentAssumption == Absent \notin Uuids \cup VaVal

TypeOK ==
    /\ ref \in [Labels -> 0..MaxRef]
    /\ uuid \in [Labels -> Uuids \cup {Absent}]
    /\ changed \subseteq Labels
    /\ pending \in BOOLEAN
    /\ pos \in 0..NLabels
    /\ stored \in [Labels -> VaVal \cup {Absent}]

CallAllowed == Preemptive \/ pos = 0

(* bt_mesh_store_label: the VA category is marked.                        *)
StoreLabel == pending' = TRUE

(* A label of UUID u gains a reference: the one holding u, or a free one. *)
VaAdd(u) ==
    /\ CallAllowed
    /\ \E l \in Labels :
          /\ \/ ref[l] > 0 /\ uuid[l] = u /\ ref[l] < MaxRef
             \/ ref[l] = 0 /\ \A k \in Labels : ref[k] > 0 => uuid[k] # u
          /\ ref' = [ref EXCEPT ![l] = @ + 1]
          /\ uuid' = [uuid EXCEPT ![l] = u]
          /\ changed' = changed \cup {l}
    /\ StoreLabel
    /\ UNCHANGED <<pos, stored>>

(* Mutant: a reference is dropped from a label that has none.            *)
VaDelNoGuard(l) ==
    /\ CallAllowed
    /\ ref' = [ref EXCEPT ![l] = @ - 1]
    /\ changed' = changed \cup {l}
    /\ StoreLabel
    /\ UNCHANGED <<uuid, pos, stored>>

(* A label loses a reference.                                             *)
VaDel(l) ==
    /\ CallAllowed
    /\ ref[l] > 0
    /\ ref' = [ref EXCEPT ![l] = @ - 1]
    /\ changed' = changed \cup {l}
    /\ StoreLabel
    /\ UNCHANGED <<uuid, pos, stored>>

(* store_pending test-and-clears the VA bit and starts the walk.          *)
StartWalk ==
    /\ pending
    /\ pos = 0
    /\ pending' = FALSE
    /\ pos' = 1
    /\ UNCHANGED <<ref, uuid, changed, stored>>

(* Mutant: a label with a single reference is taken for deleted.          *)
IsVaDelOffByOne(l) == ref[l] <= 1

(* IS_VA_DEL.                                                             *)
IsVaDel(l) == ref[l] = 0

(* One label of store_pending_va: a changed label is saved with its       *)
(* reference count and UUID, unless it is deleted, when nothing is        *)
(* written at all.                                                        *)
VaStep ==
    /\ pos # 0
    /\ changed' = changed \ {pos}
    /\ stored' = IF pos \in changed /\ ~IsVaDel(pos)
                    THEN [stored EXCEPT ![pos] = [ref |-> ref[pos], uuid |-> uuid[pos]]]
                    ELSE stored
    /\ pos' = IF pos = NLabels THEN 0 ELSE pos + 1
    /\ UNCHANGED <<ref, uuid, pending>>

Init ==
    /\ ref = [l \in Labels |-> 0]
    /\ uuid = [l \in Labels |-> Absent]
    /\ changed = {}
    /\ pending = FALSE
    /\ pos = 0
    /\ stored = [l \in Labels |-> Absent]

Next ==
    \/ \E u \in Uuids : VaAdd(u)
    \/ \E l \in Labels : VaDel(l)
    \/ StartWalk
    \/ VaStep

Spec == Init /\ [][Next]_vars

-----------------------------------------------------------------------------
(* va_set_bin: the label a record restores at boot; an empty record or a  *)
(* zero reference count restores none.                                    *)
NoLabel == [ref |-> 0, uuid |-> Absent]

Restored(l) == IF stored[l] = Absent \/ stored[l].ref = 0 THEN NoLabel ELSE stored[l]

Quiescent == pos = 0 /\ changed = {}

(* Once every changed label is flushed, a power cycle restores each label *)
(* in use with its reference count and UUID.                              *)
LiveLabelsStored ==
    Quiescent => \A l \in Labels : ref[l] > 0 => Restored(l) = [ref |-> ref[l], uuid |-> uuid[l]]

(* Once every changed label is flushed, a power cycle restores no label   *)
(* whose last reference was dropped (spec section 3: a label with         *)
(* reference count 0 is logically deleted).                               *)
DeletedLabelsGone ==
    Quiescent => \A l \in Labels : ref[l] = 0 => Restored(l) = NoLabel
=============================================================================
