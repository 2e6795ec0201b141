------------------------------ MODULE RplStore ------------------------------
(***************************************************************************)
(* The replay-protection list (RPL) of settings.c and its records.         *)
(*                                                                         *)
(* Each entry of bt_mesh.rpl holds a source address (0: free), the highest *)
(* sequence number accepted from it and a store bit.  bt_mesh_store_rpl    *)
(* sets the bit and marks the RPL category; store_pending test-and-clears  *)
(* the category and, on a valid node, walks the entries, saving each       *)
(* entry whose bit it clears (store_pending_rpl, store_rpl); otherwise it  *)
(* calls clear_rpl, which deletes the record of every used entry and       *)
(* zeroes the entry.  bt_mesh_clear_rpl calls clear_rpl at once.  At boot  *)
(* conf_load replays the records one by one through rpl_set_bin, which     *)
(* allocates the first free entry for each source (rpl_alloc).             *)
(*                                                                         *)
(* The replay check that accepts a message, the reset and the provisioning *)
(* live in the transport and node code, which is not in the repository:    *)
(* they are modelled from the spec.  The old-IV flag is left out.  The     *)
(* pending_store timer is abstracted as in VaLabels, and the store is the  *)
(* committed one (MeshStore models the commit).  The RAM walk of           *)
(* clear_rpl is one step.                                                  *)
(***************************************************************************)
EXTENDS Naturals, FiniteSets

CONSTANTS
    NEntries,   \* CONFIG_BT_MESH_CRPL
    Srcs,       \* unicast source addresses (never 0)
    MaxSeq,     \* bound on the sequence numbers received
    Preemptive, \* messages may be accepted between two steps of the walk
    Absent      \* no record under a key (a zero-length value)

ASSUME EntriesAssumption == NEntries \in Nat \ {0}
ASSUME SeqAssumption == MaxSeq \in Nat \ {0}
ASSUME PreemptiveAssumption == Preemptive \in BOOLEAN
ASSUME SrcsAssumption == IsFiniteSet(Srcs) /\ 0 \notin Srcs /\ Absent \notin Nat

VARIABLES
    src,      \* rpl->src of each entry; 0: free
    seq,      \* rpl->seq of each entry
    store,    \* rpl->store of each entry
    pending,  \* BT_MESH_RPL_PENDING
    valid,    \* BT_MESH_VALID
    pos,      \* the entry store_pending_rpl is at; 0: not running
    loading,  \* the records conf_load has still to replay
    stored    \* the RPL/<src> records

vars == <<src, seq, store, pending, valid, pos, loading, stored>>

Entries == 1..NEntries
Seqs == 0..MaxSeq

TypeOK ==
    /\ src \in [Entries -> Srcs \cup {0}]
    /\ seq \in [Entries -> Seqs]
    /\ store \in [Entries -> BOOLEAN]
    /\ pending \in BOOLEAN
    /\ valid \in BOOLEAN
    /\ pos \in 0..NEntries
    /\ loading \subseteq Srcs
    /\ stored \in [Srcs -> Seqs \cup {Absent}]

\* Between a boot's conf_load and the end of the last action.
Running == loading = {}

CallAllowed == Running /\ (Preemptive \/ pos = 0)

\* rpl_alloc: the first entry whose address is 0, if any.
FreeEntries == {e \in Entries : src[e] = 0}
FirstFree == CHOOSE e \in FreeEntries : \A f \in FreeEntries : e <= f

-----------------------------------------------------------------------------
(* Callers.                                                                *)

\* Mutant: the store bit is set but the category is not marked.
StoreRplNoSchedule(e) == /\ store' = [store EXCEPT ![e] = TRUE]
                         /\ pending' = pending

\* bt_mesh_store_rpl(entry): set the store bit and mark the category.
StoreRpl(e) == /\ store' = [store EXCEPT ![e] = TRUE]
               /\ pending' = TRUE

\* Mutant: a message from a source the list holds takes a new entry.
AcceptNoFind(s, q) ==
    /\ CallAllowed
    /\ valid
    /\ \/ \E e \in Entries :
            /\ src[e] = s
            /\ seq[e] < q
            /\ seq' = [seq EXCEPT ![e] = q]
            /\ StoreRpl(e)
            /\ UNCHANGED src
       \/ /\ FreeEntries # {}
          /\ src' = [src EXCEPT ![FirstFree] = s]
          /\ seq' = [seq EXCEPT ![FirstFree] = q]
          /\ StoreRpl(FirstFree)
    /\ UNCHANGED <<valid, pos, loading, stored>>

\* The replay check accepts a message from s with sequence number q: the
\* entry of s if q is above its sequence number, or else a free entry; a
\* full list rejects it.
Accept(s, q) ==
    /\ CallAllowed
    /\ valid
    /\ \/ \E e \in Entries :
            /\ src[e] = s
            /\ seq[e] < q
            /\ seq' = [seq EXCEPT ![e] = q]
            /\ StoreRpl(e)
            /\ UNCHANGED src
       \/ /\ \A e \in Entries : src[e] # s
          /\ FreeEntries # {}
          /\ src' = [src EXCEPT ![FirstFree] = s]
          /\ seq' = [seq EXCEPT ![FirstFree] = q]
          /\ StoreRpl(FirstFree)
    /\ UNCHANGED <<valid, pos, loading, stored>>

\* Mutant: the records are deleted but the entries are left in RAM.
ClearRplKeepEntries ==
    /\ stored' = [a \in Srcs |-> IF \E e \in Entries : src[e] = a
                                 THEN Absent ELSE stored[a]]
    /\ UNCHANGED <<src, seq, store>>

\* clear_rpl: delete RPL/<src> of every used entry and zero the entry.
ClearRpl ==
    /\ stored' = [a \in Srcs |-> IF \E e \in Entries : src[e] = a
                                 THEN Absent ELSE stored[a]]
    /\ src' = [e \in Entries |-> 0]
    /\ seq' = [e \in Entries |-> 0]
    /\ store' = [e \in Entries |-> FALSE]

\* bt_mesh_reset: the node leaves the network and calls bt_mesh_clear_rpl.
Reset ==
    /\ CallAllowed
    /\ valid
    /\ valid' = FALSE
    /\ ClearRpl
    /\ UNCHANGED <<pending, pos, loading>>

\* Provisioning makes the node valid again.
Provision ==
    /\ CallAllowed
    /\ ~valid
    /\ valid' = TRUE
    /\ UNCHANGED <<src, seq, store, pending, pos, loading, stored>>

-----------------------------------------------------------------------------
(* store_pending and the RPL walk.                                         *)

\* store_pending: test-and-clear RPL_PENDING; a valid node walks its
\* entries, any other clears them.
StartRpl ==
    /\ Running
    /\ pending
    /\ pos = 0
    /\ pending' = FALSE
    /\ IF valid THEN /\ pos' = 1
                     /\ UNCHANGED <<src, seq, store, stored>>
                ELSE /\ ClearRpl
                     /\ UNCHANGED pos
    /\ UNCHANGED <<valid, loading>>

\* store_rpl(entry): save RPL/<src> with the entry's sequence number.
SaveRpl(e) == stored' = [stored EXCEPT ![src[e]] = seq[e]]

\* Mutant: the walk runs one past the last entry.
RplStepNoWrap ==
    /\ pos # 0
    /\ IF store[pos]
          THEN /\ store' = [store EXCEPT ![pos] = FALSE]
               /\ SaveRpl(pos)
          ELSE UNCHANGED <<store, stored>>
    /\ pos' = pos + 1
    /\ UNCHANGED <<src, seq, pending, valid, loading>>

\* One entry of store_pending_rpl: clear its store bit and save it.
RplStep ==
    /\ pos # 0
    /\ IF store[pos]
          THEN /\ store' = [store EXCEPT ![pos] = FALSE]
               /\ SaveRpl(pos)
          ELSE UNCHANGED <<store, stored>>
    /\ pos' = IF pos = NEntries THEN 0 ELSE pos + 1
    /\ UNCHANGED <<src, seq, pending, valid, loading>>

-----------------------------------------------------------------------------
(* Power cycle and boot.                                                   *)

\* Power is lost: RAM is zeroed and conf_load starts on the stored records.
\* Whether the node comes back valid depends on the Net and Role records,
\* which MeshStore models.
Reboot ==
    /\ src' = [e \in Entries |-> 0]
    /\ seq' = [e \in Entries |-> 0]
    /\ store' = [e \in Entries |-> FALSE]
    /\ pending' = FALSE
    /\ pos' = 0
    /\ loading' = {a \in Srcs : stored[a] # Absent}
    /\ valid' \in BOOLEAN
    /\ UNCHANGED stored

\* rpl_set_bin for the record of s: a new entry from rpl_alloc takes the
\* stored sequence number; with no free entry it fails with -ENOMEM, which
\* conf_load ignores.
RestoreRpl(s) ==
    /\ loading' = loading \ {s}
    /\ IF FreeEntries # {}
          THEN /\ src' = [src EXCEPT ![FirstFree] = s]
               /\ seq' = [seq EXCEPT ![FirstFree] = stored[s]]
          ELSE UNCHANGED <<src, seq>>
    /\ UNCHANGED <<store, pending, valid, pos, stored>>

Init ==
    /\ src = [e \in Entries |-> 0]
    /\ seq = [e \in Entries |-> 0]
    /\ store = [e \in Entries |-> FALSE]
    /\ pending = FALSE
    /\ valid = FALSE
    /\ pos = 0
    /\ loading = {}
    /\ stored = [a \in Srcs |-> Absent]

Next ==
    \/ \E s \in Srcs, q \in 1..MaxSeq : Accept(s, q)
    \/ Reset
    \/ Provision
    \/ StartRpl
    \/ RplStep
    \/ Reboot
    \/ \E s \in loading : RestoreRpl(s)

Spec == Init /\ [][Next]_vars

\* The pending_store work runs store_pending once its timer expires
\* (MeshStore checks FlushProgress), the walk is a loop of that call, and
\* conf_load reads the records to the end.
FairSpec == Spec /\ WF_vars(StartRpl) /\ WF_vars(RplStep)
                 /\ WF_vars(\E s \in loading : RestoreRpl(s))

-----------------------------------------------------------------------------
(* Properties.                                                             *)

Quiescent == Running /\ ~pending /\ pos = 0 /\ \A e \in Entries : ~store[e]

\* Once no entry waits to be saved, the records are the list: a source has
\* a record exactly when an entry holds it, with the entry's sequence
\* number, so a power cycle restores the list that rejects replays
\* (bt_mesh_store_rpl, store_pending_rpl, clear_rpl, rpl_set_bin).
RplStored ==
    Quiescent =>
        /\ \A a \in Srcs : stored[a] # Absent => \E e \in Entries : src[e] = a
        /\ \A e \in Entries : src[e] # 0 => stored[src[e]] = seq[e]

(* The list the entries stand for: the number of the entry holding each  *)
(* source, and the sources whose entry has its store bit set.              *)
ListOf(sr, sq) ==
    [a \in Srcs |-> IF \E e \in Entries : sr[e] = a
                    THEN sq[CHOOSE e \in Entries : sr[e] = a]
                    ELSE Absent]
AbsList == ListOf(src, seq)
AbsDirty == {src[e] : e \in {f \in Entries : store[f]}}

Abs == INSTANCE RplList WITH list <- AbsList, dirty <- AbsDirty

\* The entry array, the store bits and the walk implement the abstract list
\* (RplList): every step of bt_mesh_store_rpl, store_pending_rpl, clear_rpl
\* and rpl_set_bin is a step of the list or leaves it as it is; in
\* particular no replayed record is refused by rpl_alloc and no saved
\* record carries a number other than the list's.
RplRefinesList == Abs!Spec

\* An entry marked for storing is saved, cleared or lost in a power cycle:
\* bt_mesh_store_rpl always schedules the walk that clears its bit.
RplWritten == \A e \in Entries : store[e] ~> ~store[e]
=============================================================================
