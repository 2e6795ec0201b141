------------------------------- MODULE RplList -------------------------------
(***************************************************************************)
(* What the replay-protection list and its records promise, without the    *)
(* entry array, the store bits or the walk of store_pending_rpl.           *)
(*                                                                         *)
(* The list is a partial map from source addresses to the highest sequence *)
(* number accepted from each, holding at most NEntries sources.  A source  *)
(* whose number changed is dirty until its record is saved; dirty records  *)
(* are saved one at a time in any order.  Clearing the list deletes the    *)
(* records of the sources it held.  A power cycle empties the list and the *)
(* boot replays every record into it: none is ever refused for want of    *)
(* room.  RplStore implements this specification under the mapping it      *)
(* gives (RplStore!Abs).                                                   *)
(***************************************************************************)
EXTENDS Naturals, FiniteSets

CONSTANTS NEntries, Srcs, MaxSeq, Absent

VARIABLES
    list,     \* source -> highest accepted sequence number, or Absent
    dirty,    \* sources whose record is older than the list
    valid,    \* the node is provisioned
    loading,  \* records the boot has still to replay
    stored    \* the RPL/<src> records

vars == <<list, dirty, valid, loading, stored>>

Seqs == 0..MaxSeq

\* The sources the list holds.
Held == {a \in Srcs : list[a] # Absent}

Running == loading = {}

Init ==
    /\ list = [a \in Srcs |-> Absent]
    /\ dirty = {}
    /\ valid = FALSE
    /\ loading = {}
    /\ stored = [a \in Srcs |-> Absent]

\* A message from s with a sequence number above the one held, or from a
\* new source while the list has room, is accepted and its number kept.
Accept(s, q) ==
    /\ Running
    /\ valid
    /\ \/ list[s] # Absent /\ list[s] < q
       \/ list[s] = Absent /\ Cardinality(Held) < NEntries
    /\ list' = [list EXCEPT ![s] = q]
    /\ dirty' = dirty \cup {s}
    /\ UNCHANGED <<valid, loading, stored>>

\* One dirty record is saved with the number the list holds now.
Save(s) ==
    /\ s \in dirty
    /\ stored' = [stored EXCEPT ![s] = list[s]]
    /\ dirty' = dirty \ {s}
    /\ UNCHANGED <<list, valid, loading>>

\* The list is emptied and the records of its sources are deleted.
Clear ==
    /\ stored' = [a \in Srcs |-> IF a \in Held THEN Absent ELSE stored[a]]
    /\ list' = [a \in Srcs |-> Absent]
    /\ dirty' = {}

\* The node leaves the network.
Reset ==
    /\ Running
    /\ valid
    /\ valid' = FALSE
    /\ Clear
    /\ UNCHANGED loading

\* A node that is not provisioned drops its list.
Discard ==
    /\ Running
    /\ ~valid
    /\ Clear
    /\ UNCHANGED <<valid, loading>>

Provision ==
    /\ Running
    /\ ~valid
    /\ valid' = TRUE
    /\ UNCHANGED <<list, dirty, loading, stored>>

Reboot ==
    /\ list' = [a \in Srcs |-> Absent]
    /\ dirty' = {}
    /\ loading' = {a \in Srcs : stored[a] # Absent}
    /\ valid' \in BOOLEAN
    /\ UNCHANGED stored

\* The boot replays the record of s into the list.
Restore(s) ==
    /\ s \in loading
    /\ loading' = loading \ {s}
    /\ list' = [list EXCEPT ![s] = stored[s]]
    /\ UNCHANGED <<dirty, valid, stored>>

Next ==
    \/ \E s \in Srcs, q \in 1..MaxSeq : Accept(s, q)
    \/ \E s \in Srcs : Save(s)
    \/ Reset
    \/ Discard
    \/ Provision
    \/ Reboot
    \/ \E s \in Srcs : Restore(s)

Spec == Init /\ [][Next]_vars
=============================================================================
