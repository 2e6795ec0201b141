-------------------------- MODULE VaLabelsProofs --------------------------
(***************************************************************************)
(* Proof that store_pending_va keeps every label in use restorable: for    *)
(* any number of labels and references, once no label is changed, each    *)
(* label with a reference has a Va record with its count and UUID.         *)
(***************************************************************************)
EXTENDS VaLabels, TLAPS

USE LabelsAssumption, RefAssumption, PreemptiveAssumption, AbsentAssumption

(* A label in use whose CHANGED flag is clear is stored as it is.         *)
LiveStored ==
    \A l \in Labels \ changed :
        ref[l] > 0 => stored[l] = [ref |-> ref[l], uuid |-> uuid[l]]

(* A label in use has a UUID.                                             *)
LiveHasUuid == \A l \in Labels : ref[l] > 0 => uuid[l] \in Uuids

IInv == TypeOK /\ LiveHasUuid /\ LiveStored
-----------------------------------------------------------------------------
LEMMA InitIInv ==
    ASSUME Init
    PROVE  IInv
<1>1. TypeOK
  <2>1. pending \in BOOLEAN
    BY Zenon DEF Init
  <2> QED  BY <2>1 DEF Init, TypeOK, Labels
<1> QED  BY <1>1 DEF Init, IInv, LiveHasUuid, LiveStored

(* An add or a drop of a reference sets the label's CHANGED flag, so      *)
(* LiveStored no longer speaks of it.                                     *)
LEMMA VaAddIInv ==
    ASSUME IInv, NEW u \in Uuids, VaAdd(u)
    PROVE  IInv'
<1> USE DEF IInv, TypeOK
<1>1. PICK l \in Labels :
          /\ \/ ref[l] > 0 /\ uuid[l] = u /\ ref[l] < MaxRef
             \/ ref[l] = 0 /\ \A k \in Labels : ref[k] > 0 => uuid[k] # u
          /\ ref' = [ref EXCEPT ![l] = @ + 1]
          /\ uuid' = [uuid EXCEPT ![l] = u]
          /\ changed' = changed \cup {l}
  BY DEF VaAdd
<1>2. pending' \in BOOLEAN
  BY Zenon DEF VaAdd, StoreLabel
<1>3. TypeOK'
  BY <1>1, <1>2 DEF VaAdd, Labels
<1>4. LiveHasUuid'
  BY <1>1 DEF LiveHasUuid
<1>5. LiveStored'
  BY <1>1 DEF VaAdd, LiveStored
<1> QED  BY <1>3, <1>4, <1>5

LEMMA VaDelIInv ==
    ASSUME IInv, NEW l \in Labels, VaDel(l)
    PROVE  IInv'
<1> USE DEF IInv, TypeOK
<1>1. pending' \in BOOLEAN
  BY Zenon DEF VaDel, StoreLabel
<1>2. TypeOK'
  BY <1>1 DEF VaDel
<1>3. LiveHasUuid'
  BY DEF VaDel, LiveHasUuid
<1>4. LiveStored'
  BY DEF VaDel, LiveStored
<1> QED  BY <1>2, <1>3, <1>4

LEMMA StartWalkIInv ==
    ASSUME IInv, StartWalk
    PROVE  IInv'
<1>1. pending' \in BOOLEAN
  BY Zenon DEF StartWalk
<1> QED  BY <1>1 DEF StartWalk, IInv, TypeOK, LiveHasUuid, LiveStored, Labels

(* A step of store_pending_va clears the label's flag only after saving   *)
(* it, unless its count is zero, when LiveStored asks nothing of it.      *)
LEMMA VaStepIInv ==
    ASSUME IInv, VaStep
    PROVE  IInv'
<1> USE DEF IInv, TypeOK
<1>1. pos \in Labels
  BY DEF VaStep, Labels
<1>2. TypeOK'
  <2>1. stored' \in [Labels -> VaVal \cup {Absent}]
    <3>1. CASE pos \in changed /\ ~IsVaDel(pos)
      <4>1. [ref |-> ref[pos], uuid |-> uuid[pos]] \in VaVal
        BY <1>1, <3>1 DEF IsVaDel, LiveHasUuid, VaVal
      <4> QED  BY <1>1, <3>1, <4>1 DEF VaStep
    <3>2. CASE ~(pos \in changed /\ ~IsVaDel(pos))
      BY <3>2 DEF VaStep
    <3> QED  BY <3>1, <3>2
  <2> QED  BY <1>1, <2>1 DEF VaStep, Labels
<1>3. LiveHasUuid'
  BY DEF VaStep, LiveHasUuid
<1>4. LiveStored'
  BY <1>1 DEF VaStep, LiveStored, IsVaDel
<1> QED  BY <1>2, <1>3, <1>4

LEMMA NextIInv ==
    ASSUME IInv, [Next]_vars
    PROVE  IInv'
<1>1. CASE UNCHANGED vars
  BY <1>1 DEF vars, IInv, TypeOK, LiveHasUuid, LiveStored
<1> QED  BY <1>1, VaAddIInv, VaDelIInv, StartWalkIInv, VaStepIInv DEF Next

-----------------------------------------------------------------------------
(* For every number of labels and bound on references, whenever no label  *)
(* is changed, a power cycle restores every label in use with its         *)
(* reference count and UUID (store_pending_va, va_set_bin).               *)
THEOREM LiveLabelsStoredHolds == Spec => []LiveLabelsStored
<1>1. IInv => LiveLabelsStored
  <2> SUFFICES ASSUME IInv, Quiescent, NEW l \in Labels, ref[l] > 0
               PROVE  Restored(l) = [ref |-> ref[l], uuid |-> uuid[l]]
    BY DEF LiveLabelsStored
  <2>1. stored[l] = [ref |-> ref[l], uuid |-> uuid[l]]
    BY DEF IInv, LiveStored, Quiescent
  <2>2. stored[l] \in VaVal
    BY <2>1 DEF IInv, LiveHasUuid, TypeOK, VaVal
  <2> QED  BY <2>1, <2>2, AbsentAssumption DEF Restored
<1> QED  BY <1>1, InitIInv, NextIInv, PTL DEF Spec

(* For every number of labels and bound on references, the reference     *)
(* counts, UUIDs, records, the dirty flags of va_del / bt_mesh_va_add and *)
(* the walk of store_pending_va stay well typed.                          *)
THEOREM TypeCorrect == Spec => []TypeOK
<1>1. IInv => TypeOK
  BY DEF IInv
<1> QED  BY <1>1, InitIInv, NextIInv, PTL DEF Spec

=============================================================================
