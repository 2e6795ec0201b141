------------------------- MODULE UpdateTableProofs -------------------------
(***************************************************************************)
(* Proofs about the key_updates table: whatever the table size, the number *)
(* of keys and the interleaving of key stores, clears and flush steps, the *)
(* store agrees with memory once every pending update is flushed, and no   *)
(* step deletes the record of a key still in memory; for node_updates as  *)
(* well, every state stays well typed.                                    *)
(***************************************************************************)
EXTENDS UpdateTable, WellFoundedInduction, TLAPS

USE TableAssumption, IdsAssumption, SlotsAssumption, PreemptiveAssumption, AbsentAssumption

(* The inductive invariant.  A valid slot's clear flag says whether its   *)
(* key is gone from memory; a key with no valid slot is stored as it is   *)
(* in memory; a key has at most one valid slot.                           *)
SlotIntent ==
    \A s \in Slots : table[s].used => (table[s].clear <=> live[table[s].id] = Absent)

Unsynced == \A id \in Ids : Matches(id) = {} => stored[id] = live[id]

OneSlot ==
    \A s, t \in Slots :
        table[s].used /\ table[t].used /\ table[s].id = table[t].id => s = t

IInv == TypeOK /\ SlotIntent /\ Unsynced /\ OneSlot

-----------------------------------------------------------------------------
(* The scans of key_update_find pick a slot of the set they scan: a       *)
(* nonempty set of slots has a largest one.                               *)
LEMMA LastSlotIn ==
    ASSUME NEW S \in SUBSET Slots, S # {}
    PROVE  LastSlot(S) \in S /\ \A t \in S : t <= LastSlot(S)
<1> DEFINE T == {NSlots - s : s \in S}
<1>1. T \subseteq Nat /\ T # {}
  <2>1. \A s \in S : NSlots - s \in Nat
    BY DEF Slots
  <2>2. PICK s1 \in S : TRUE
    OBVIOUS
  <2> QED  BY <2>1, <2>2 DEF T
<1>2. PICK m \in T : \A y \in T : ~(<<y, m>> \in OpToRel(<, Nat))
  BY <1>1, NatLessThanWellFounded, WFMin
<1>3. \A y \in T : m <= y
  <2> SUFFICES ASSUME NEW y \in T PROVE m <= y
    OBVIOUS
  <2>1. y \in Nat /\ m \in Nat
    BY <1>1
  <2>2. ~(<<y, m>> \in OpToRel(<, Nat))
    BY <1>2
  <2>3. ~(y < m)
    BY <2>1, <2>2, Zenon DEF OpToRel
  <2> QED  BY <2>1, <2>3
<1>4. \E s \in S : \A t \in S : t <= s
  <2>1. PICK s0 \in S : m = NSlots - s0
    OBVIOUS
  <2>2. \A t \in S : t <= s0
    <3> TAKE t \in S
    <3>1. NSlots - t \in T
      BY DEF T
    <3>2. m <= NSlots - t
      BY <1>3, <3>1
    <3> QED  BY <2>1, <3>2 DEF Slots
  <2> QED  BY <2>2
<1> QED  BY <1>4 DEF LastSlot

(* A set of slots with at most one element of each key.                   *)
LEMMA MatchIsOnly ==
    ASSUME TypeOK, OneSlot, NEW id \in Ids, Matches(id) # {}
    PROVE  Matches(id) = {LastSlot(Matches(id))}
<1>1. LastSlot(Matches(id)) \in Matches(id)
  BY LastSlotIn DEF Matches
<1> QED  BY <1>1 DEF Matches, OneSlot, TypeOK, Slot
-----------------------------------------------------------------------------
InitIInv == Init => IInv

LEMMA InitHolds == InitIInv
<1> SUFFICES ASSUME Init PROVE IInv
  BY DEF InitIInv
<1>1. (CHOOSE id \in Ids : TRUE) \in Ids
  <2>1. \E x \in Ids : TRUE
    BY IdsAssumption
  <2> QED  BY <2>1
<1>2. TypeOK
  <2>1. table \in [Slots -> Slot]
    <3>1. [used |-> FALSE, id |-> CHOOSE id \in Ids : TRUE, clear |-> FALSE] \in Slot
      BY <1>1, Zenon DEF Slot
    <3> QED  BY <3>1, Zenon DEF Init
  <2>2. pos \in 0..NSlots
    BY DEF Init
  <2> QED  BY <2>1, <2>2 DEF Init, TypeOK
<1>3. SlotIntent /\ OneSlot
  BY DEF Init, SlotIntent, OneSlot
<1>4. Unsynced
  BY DEF Init, Unsynced
<1> QED  BY <1>2, <1>3, <1>4 DEF IInv

(* A store or clear of one key: val is the key's new contents in memory,  *)
(* Absent exactly when it is a clear.                                     *)
LEMMA StoreOrClearIInv ==
    ASSUME IInv, Table = Keys,
           NEW id \in Ids, NEW clr \in BOOLEAN, NEW val \in Vals \cup {Absent},
           clr <=> val = Absent,
           live' = [live EXCEPT ![id] = val],
           pos' = pos,
           StoreOrClear(id, clr, val)
    PROVE  IInv'
<1> USE DEF IInv, TypeOK, Slot
<1>1. CASE /\ Matches(id) # {}
           /\ table' = [table EXCEPT ![LastSlot(Matches(id))] = MatchMark(@, clr)]
           /\ pending' = TRUE
           /\ UNCHANGED stored
  <2> DEFINE s0 == LastSlot(Matches(id))
  <2>1. Matches(id) = {s0}
    BY <1>1, MatchIsOnly
  <2>2. s0 \in Slots /\ table[s0].used /\ table[s0].id = id
    BY <2>1 DEF Matches
  <2>3. table' = [table EXCEPT ![s0].clear = clr]
    BY <1>1, <2>2 DEF MatchMark
  <2>4. \A s \in Slots : s # s0 /\ table[s].used => table[s].id # id
    BY <2>1 DEF Matches
  <2>5. \A x \in Ids : Matches(x)' = Matches(x)
    BY <2>3 DEF Matches
  <2>6. TypeOK'
    <3>1. table' \in [Slots -> Slot]
      BY <2>2, <2>3
    <3>2. live' \in [Ids -> Vals \cup {Absent}]
      OBVIOUS
    <3>3. pending' \in BOOLEAN
      BY <1>1, Zenon
    <3> QED  BY <1>1, <3>1, <3>2, <3>3
  <2>7. SlotIntent'
    BY <2>2, <2>3, <2>4 DEF SlotIntent
  <2>8. Unsynced'
    BY <1>1, <2>5 DEF Unsynced
  <2>9. OneSlot'
    BY <2>3 DEF OneSlot
  <2> QED  BY <2>6, <2>7, <2>8, <2>9
<1>2. CASE /\ Matches(id) = {}
           /\ FreeSlots = {}
           /\ stored' = Write(id, clr, val)
           /\ UNCHANGED <<table, pending>>
  <2>1. stored' = [stored EXCEPT ![id] = val]
    BY <1>2 DEF Write
  <2>2. \A x \in Ids : Matches(x)' = Matches(x)
    BY <1>2 DEF Matches
  <2>3. TypeOK'
    BY <1>2, <2>1
  <2>4. SlotIntent'
    BY <1>2 DEF SlotIntent, Matches
  <2>5. Unsynced'
    BY <1>2, <2>1, <2>2 DEF Unsynced
  <2>6. OneSlot'
    BY <1>2 DEF OneSlot
  <2> QED  BY <2>3, <2>4, <2>5, <2>6
<1>3. CASE /\ Matches(id) = {}
           /\ FreeSlots # {}
           /\ table' = [table EXCEPT ![LastSlot(FreeSlots)] = Reuse(@, id, clr)]
           /\ pending' = TRUE
           /\ UNCHANGED stored
  <2> DEFINE f == LastSlot(FreeSlots)
  <2>1. f \in Slots /\ ~table[f].used
    <3>1. FreeSlots \in SUBSET Slots
      BY DEF FreeSlots
    <3>2. LastSlot(FreeSlots) \in FreeSlots
      BY <1>3, <3>1, LastSlotIn
    <3> QED  BY <3>2 DEF FreeSlots, f
  <2>2. table' = [table EXCEPT ![f] = [used |-> TRUE, id |-> id, clear |-> clr]]
    BY <1>3, <2>1 DEF Reuse, KeyReuse
  <2>3. \A s \in Slots : table[s].used => table[s].id # id
    BY <1>3 DEF Matches
  <2>4. \A x \in Ids : x # id => Matches(x)' = Matches(x)
    BY <2>1, <2>2 DEF Matches
  <2>5. Matches(id)' # {}
    BY <2>1, <2>2 DEF Matches
  <2>6. TypeOK'
    <3>1. table' \in [Slots -> Slot]
      BY <2>1, <2>2
    <3>2. live' \in [Ids -> Vals \cup {Absent}]
      OBVIOUS
    <3>3. pending' \in BOOLEAN
      BY <1>3, Zenon
    <3> QED  BY <1>3, <3>1, <3>2, <3>3
  <2>7. SlotIntent'
    BY <2>1, <2>2, <2>3 DEF SlotIntent
  <2>8. Unsynced'
    BY <1>3, <2>4, <2>5 DEF Unsynced
  <2>9. OneSlot'
    BY <2>1, <2>2, <2>3 DEF OneSlot
  <2> QED  BY <2>6, <2>7, <2>8, <2>9
<1> QED  BY <1>1, <1>2, <1>3 DEF StoreOrClear
LEMMA AddIInv ==
    ASSUME IInv, Table = Keys, NEW id \in Ids, NEW v \in Vals, Add(id, v)
    PROVE  IInv'
BY AbsentAssumption, StoreOrClearIInv DEF Add

LEMMA ChangeIInv ==
    ASSUME IInv, Table = Keys, NEW id \in Ids, NEW v \in Vals, Change(id, v)
    PROVE  IInv'
BY AbsentAssumption, StoreOrClearIInv DEF Change

LEMMA DeleteIInv ==
    ASSUME IInv, Table = Keys, NEW id \in Ids, Delete(id)
    PROVE  IInv'
BY StoreOrClearIInv DEF Delete

LEMMA StartWalkIInv ==
    ASSUME IInv, StartWalk
    PROVE  IInv'
<1>1. TypeOK'
  <2>1. pending' \in BOOLEAN
    BY Zenon DEF StartWalk
  <2> QED  BY <2>1 DEF StartWalk, IInv, TypeOK
<1> QED  BY <1>1 DEF StartWalk, IInv, SlotIntent, Unsynced, OneSlot, Matches

(* The write of one slot of the walk, arm by arm.                         *)
LEMMA FlushedCases ==
    ASSUME NEW u \in Slot
    PROVE  /\ ~u.used => Flushed(u) = stored
           /\ u.used /\ u.clear => Flushed(u) = Write(u.id, TRUE, Absent)
           /\ u.used /\ ~u.clear /\ live[u.id] # Absent
                => Flushed(u) = Write(u.id, FALSE, live[u.id])
<1>1. ~u.used => Flushed(u) = stored
  BY DEF Flushed
<1>2. u.used /\ u.clear => Flushed(u) = Write(u.id, TRUE, Absent)
  BY DEF Flushed
<1>3. u.used /\ ~u.clear /\ live[u.id] # Absent
        => Flushed(u) = Write(u.id, FALSE, live[u.id])
  BY DEF Flushed
<1> QED  BY <1>1, <1>2, <1>3

(* One slot of store_pending_keys: the write it makes brings the store    *)
(* in line with memory for the slot's key, and frees the slot.            *)
LEMMA WalkStepIInv ==
    ASSUME IInv, WalkStep
    PROVE  IInv'
<1> USE DEF IInv, TypeOK, Slot
<1> DEFINE u == table[pos]
<1>1. pos \in Slots
  BY DEF WalkStep, Slots
<1>2. table' = [table EXCEPT ![pos].used = FALSE]
  BY DEF WalkStep
<1>3. \A s \in Slots : s # pos => table'[s] = table[s]
  BY <1>1, <1>2
<1>4. ~table'[pos].used
  BY <1>1, <1>2
<1>5. TypeOK'
  <2>1. table' \in [Slots -> Slot]
    BY <1>1, <1>2
  <2>2. pos' \in 0..NSlots
    BY <1>1 DEF WalkStep, Slots
  <2>3. stored' \in [Ids -> Vals \cup {Absent}]
    <3>1. u \in Slot
      BY <1>1 DEF u
    <3>2. CASE ~u.used
      BY <3>1, <3>2, FlushedCases DEF WalkStep, u
    <3>3. CASE u.used /\ u.clear
      BY <3>1, <3>3, FlushedCases DEF WalkStep, Write, u
    <3>4. CASE u.used /\ ~u.clear
      <4>1. live[u.id] # Absent
        BY <1>1, <3>4 DEF SlotIntent, u
      <4> QED  BY <3>1, <3>4, <4>1, FlushedCases DEF WalkStep, Write, u
    <3> QED  BY <3>2, <3>3, <3>4
  <2> QED  BY <2>1, <2>2, <2>3 DEF WalkStep
<1>6. SlotIntent'
  BY <1>3, <1>4 DEF WalkStep, SlotIntent
<1>7. OneSlot'
  BY <1>3, <1>4 DEF OneSlot
<1>8. \A x \in Ids : Matches(x)' = Matches(x) \ {pos}
  BY <1>1, <1>3, <1>4 DEF Matches
<1>9. Unsynced'
  <2>1. CASE ~u.used
    <3>1. stored' = stored
      BY <1>1, <2>1, FlushedCases DEF WalkStep, u
    <3>2. \A x \in Ids : Matches(x)' = Matches(x)
      BY <1>8, <2>1 DEF Matches, u
    <3> QED  BY <3>1, <3>2 DEF WalkStep, Unsynced
  <2>2. CASE u.used
    <3>1. Matches(u.id) = {pos}
      BY <1>1, <2>2 DEF OneSlot, Matches, u
    <3>2. stored' = [stored EXCEPT ![u.id] = live[u.id]]
      <4>1. CASE u.clear
        <5>1. live[u.id] = Absent
          BY <1>1, <2>2, <4>1 DEF SlotIntent, u
        <5> QED  BY <1>1, <2>2, <4>1, <5>1, FlushedCases DEF WalkStep, Write, u
      <4>2. CASE ~u.clear
        <5>1. live[u.id] # Absent
          BY <1>1, <2>2, <4>2 DEF SlotIntent, u
        <5> QED  BY <1>1, <2>2, <4>2, <5>1, FlushedCases DEF WalkStep, Write, u
      <4> QED  BY <4>1, <4>2
    <3>3. u.id \in Ids
      BY <1>1 DEF u
    <3>4. ASSUME NEW x \in Ids, Matches(x)' = {}
          PROVE  stored'[x] = live'[x]
      <4>1. CASE x = u.id
        BY <3>2, <3>3, <4>1 DEF WalkStep
      <4>2. CASE x # u.id
        <5>1. Matches(x) = {}
          BY <1>8, <3>4, <4>2 DEF Matches, u
        <5> QED  BY <3>2, <4>2, <5>1 DEF WalkStep, Unsynced
      <4> QED  BY <4>1, <4>2
    <3> QED  BY <3>4 DEF Unsynced
  <2> QED  BY <2>1, <2>2
<1> QED  BY <1>5, <1>6, <1>7, <1>9

LEMMA NextIInv ==
    ASSUME IInv, Table = Keys, [Next]_vars
    PROVE  IInv'
<1>1. CASE UNCHANGED vars
  BY <1>1 DEF vars, IInv, TypeOK, SlotIntent, Unsynced, OneSlot, Matches, FreeSlots
<1> QED  BY <1>1, AddIInv, ChangeIInv, DeleteIInv, StartWalkIInv, WalkStepIInv DEF Next
(* A step deletes a stored key only when it is gone from memory: a clear  *)
(* is only ever issued for a deleted key, and a slot's clear flag always  *)
(* reflects memory.                                                       *)
LEMMA NextLiveNotDeleted ==
    ASSUME IInv, Table = Keys, [Next]_vars
    PROVE  LiveNotDeleted
<1> SUFFICES ASSUME NEW id \in Ids, stored[id] # Absent, stored'[id] = Absent
             PROVE  live'[id] = Absent
  BY DEF LiveNotDeleted
<1> USE DEF IInv, TypeOK, Slot
<1>1. ASSUME NEW x \in Ids, NEW clr \in BOOLEAN, NEW val \in Vals \cup {Absent},
             clr <=> val = Absent,
             live' = [live EXCEPT ![x] = val],
             StoreOrClear(x, clr, val)
      PROVE  live'[id] = Absent
  <2>1. CASE x = id
    <3>1. stored' # stored
      OBVIOUS
    <3>2. stored' = Write(x, clr, val)
      BY <1>1, <3>1 DEF StoreOrClear
    <3> QED  BY <1>1, <2>1, <3>2 DEF Write
  <2>2. CASE x # id
    BY <1>1, <2>2 DEF StoreOrClear, Write
  <2> QED  BY <2>1, <2>2
<1>2. CASE \E x \in Ids, v \in Vals : Add(x, v) \/ Change(x, v)
  BY <1>1, <1>2, AbsentAssumption DEF Add, Change
<1>3. CASE \E x \in Ids : Delete(x)
  BY <1>1, <1>3 DEF Delete
<1>4. CASE WalkStep
  <2> DEFINE u == table[pos]
  <2>1. pos \in Slots /\ u \in Slot
    BY <1>4 DEF WalkStep, Slots, u
  <2>2. u.used
    <3>1. CASE ~u.used
      BY <1>4, <2>1, <3>1, FlushedCases DEF WalkStep, u
    <3> QED  BY <3>1
  <2>3. u.clear
    <3>1. CASE ~u.clear
      <4>1. live[u.id] # Absent
        BY <2>1, <2>2, <3>1 DEF SlotIntent, u
      <4>2. stored' = [stored EXCEPT ![u.id] = live[u.id]]
        BY <1>4, <2>1, <2>2, <3>1, <4>1, FlushedCases DEF WalkStep, Write, u
      <4> QED  BY <2>1, <4>1, <4>2
    <3> QED  BY <3>1
  <2>4. u.id = id
    <3>1. stored' = [stored EXCEPT ![u.id] = Absent]
      BY <1>4, <2>1, <2>2, <2>3, FlushedCases DEF WalkStep, Write, u
    <3> QED  BY <2>1, <3>1
  <2> QED  BY <1>4, <2>1, <2>2, <2>3, <2>4 DEF WalkStep, SlotIntent, u
<1>5. CASE StartWalk \/ UNCHANGED vars
  BY <1>5 DEF StartWalk, vars
<1> QED  BY <1>2, <1>3, <1>4, <1>5 DEF Next

LEMMA IInvQuiescent ==
    ASSUME IInv
    PROVE  StoreMatchesMemory
<1> SUFFICES ASSUME Quiescent PROVE stored = live
  BY DEF StoreMatchesMemory
<1>1. \A id \in Ids : Matches(id) = {}
  BY DEF Quiescent, FreeSlots, Matches
<1> QED  BY <1>1 DEF IInv, Unsynced, TypeOK

-----------------------------------------------------------------------------
(* For every table size, key set and interleaving of key stores, clears   *)
(* and steps of store_pending_keys, the store holds exactly the keys in   *)
(* memory whenever no update is pending.                                  *)
THEOREM KeysStoreMatchesMemory ==
    ASSUME Table = Keys
    PROVE  Spec => []StoreMatchesMemory
<1>1. Init => IInv
  BY InitHolds DEF InitIInv
<1>2. IInv /\ [Next]_vars => IInv'
  BY NextIInv
<1>3. IInv => StoreMatchesMemory
  BY IInvQuiescent
<1> QED  BY <1>1, <1>2, <1>3, PTL DEF Spec

(* For every table size and key set, no step of the key table deletes    *)
(* the record of a key that is still in memory.                           *)
THEOREM KeysNoLiveDelete ==
    ASSUME Table = Keys
    PROVE  Spec => NoLiveDelete
<1>1. Init => IInv
  BY InitHolds DEF InitIInv
<1>2. IInv /\ [Next]_vars => IInv'
  BY NextIInv
<1>3. IInv /\ [Next]_vars => [LiveNotDeleted]_vars
  BY NextLiveNotDeleted
<1> QED  BY <1>1, <1>2, <1>3, PTL DEF Spec, NoLiveDelete

-----------------------------------------------------------------------------
(* Type correctness, for both tables.  Unlike the theorems above it does  *)
(* not assume the key table: node_updates reuses a free slot's clear flag *)
(* and still keeps every slot well formed.                                *)

LEMMA StoreOrClearType ==
    ASSUME TypeOK, NEW id \in Ids, NEW clr \in BOOLEAN,
           NEW val \in Vals \cup {Absent}, StoreOrClear(id, clr, val)
    PROVE  /\ stored' \in [Ids -> Vals \cup {Absent}]
           /\ table' \in [Slots -> Slot]
           /\ pending' \in BOOLEAN
<1>0. pending' \in BOOLEAN
  BY Zenon DEF StoreOrClear, TypeOK
<1>1. CASE Matches(id) # {}
  <2>1. LastSlot(Matches(id)) \in Slots
    BY <1>1, LastSlotIn DEF Matches
  <2>2. \A u \in Slot : MatchMark(u, clr) \in Slot
    BY DEF MatchMark, Slot
  <2>3. table' = [table EXCEPT ![LastSlot(Matches(id))] = MatchMark(@, clr)]
        /\ stored' = stored
    BY <1>1 DEF StoreOrClear
  <2> QED
    BY <1>0, <2>1, <2>2, <2>3 DEF TypeOK
<1>2. CASE Matches(id) = {} /\ FreeSlots = {}
  <2>1. stored' = Write(id, clr, val) /\ table' = table
    BY <1>2 DEF StoreOrClear
  <2> QED
    BY <1>0, <2>1 DEF Write, TypeOK
<1>3. CASE Matches(id) = {} /\ FreeSlots # {}
  <2>1. LastSlot(FreeSlots) \in Slots
    BY <1>3, LastSlotIn DEF FreeSlots
  <2>2. \A u \in Slot : Reuse(u, id, clr) \in Slot
    BY DEF Reuse, KeyReuse, NodeReuse, Slot
  <2>3. table' = [table EXCEPT ![LastSlot(FreeSlots)] = Reuse(@, id, clr)]
        /\ stored' = stored
    BY <1>3 DEF StoreOrClear
  <2> QED
    BY <1>0, <2>1, <2>2, <2>3 DEF TypeOK
<1> QED
  BY <1>1, <1>2, <1>3

LEMMA NextTypeOK ==
    ASSUME TypeOK, [Next]_vars
    PROVE  TypeOK'
<1>1. ASSUME NEW id \in Ids, NEW v \in Vals, Add(id, v) \/ Change(id, v)
      PROVE  TypeOK'
  <2>1. live' \in [Ids -> Vals \cup {Absent}] /\ pos' = pos
    BY <1>1 DEF Add, Change, TypeOK
  <2>2. StoreOrClear(id, FALSE, v)
    BY <1>1 DEF Add, Change
  <2> QED
    BY <2>1, <2>2, StoreOrClearType DEF TypeOK
<1>2. ASSUME NEW id \in Ids, Delete(id)
      PROVE  TypeOK'
  <2>1. live' \in [Ids -> Vals \cup {Absent}] /\ pos' = pos
    BY <1>2 DEF Delete, TypeOK
  <2>2. StoreOrClear(id, TRUE, Absent)
    BY <1>2 DEF Delete
  <2> QED
    BY <2>1, <2>2, StoreOrClearType DEF TypeOK
<1>3. CASE StartWalk
  <2>1. pos' \in 0..NSlots
    BY <1>3 DEF StartWalk
  <2> QED
    BY <1>3, <2>1, Zenon DEF StartWalk, TypeOK
<1>4. CASE WalkStep
  <2>1. pos \in Slots /\ table[pos] \in Slot
    BY <1>4 DEF WalkStep, TypeOK, Slots
  <2>2. Flushed(table[pos]) \in [Ids -> Vals \cup {Absent}]
    BY <2>1 DEF Flushed, Write, TypeOK, Slot
  <2>3. pos' \in 0..NSlots
    BY <1>4, <2>1 DEF WalkStep, Slots
  <2>4. table' \in [Slots -> Slot]
    BY <1>4, <2>1 DEF WalkStep, TypeOK, Slot
  <2> QED
    BY <1>4, <2>2, <2>3, <2>4, Zenon DEF WalkStep, TypeOK
<1>5. CASE UNCHANGED vars
  BY <1>5 DEF vars, TypeOK
<1> QED
  BY <1>1, <1>2, <1>3, <1>4, <1>5 DEF Next

(* For both tables, every size and every set of keys or nodes, the live  *)
(* entries, the records, the slots of key_updates / node_updates and the  *)
(* walk position of store_pending_keys / store_pending_nodes stay well   *)
(* formed.                                                                 *)
THEOREM TypeCorrect == Spec => []TypeOK
<1>1. Init => TypeOK
  BY InitHolds DEF InitIInv, IInv
<1> QED
  BY <1>1, NextTypeOK, PTL DEF Spec

=============================================================================
