---------------------------- MODULE RplListProofs ----------------------------
(***************************************************************************)
(* Proof that RplStore implements the abstract list RplList under the      *)
(* mapping RplStore gives: the list a source maps to is the number of the  *)
(* one entry that holds it, and the dirty sources are those whose entry    *)
(* has its store bit set.  The mapping is a function only because no       *)
(* source holds two entries (Unique of RplStoreProofs), and a replayed     *)
(* record is always restored because rpl_alloc always finds a free entry   *)
(* during the boot (ReplayFindsEntry); the invariant IInv of RplStoreProofs *)
(* carries both.                                                            *)
(***************************************************************************)
EXTENDS RplStoreProofs

USE EntriesAssumption, SeqAssumption, PreemptiveAssumption, SrcsAssumption

-----------------------------------------------------------------------------
(* The list a pair of entry arrays stands for.                             *)

(* The entry chosen for a source is the only entry that holds it.         *)
LEMMA ChooseAt ==
    ASSUME NEW sr, NEW e \in Entries,
           \A f \in Entries : sr[f] = sr[e] => f = e
    PROVE  (CHOOSE f \in Entries : sr[f] = sr[e]) = e
OBVIOUS

LEMMA ListNone ==
    ASSUME NEW sr, NEW sq, NEW a \in Srcs, \A e \in Entries : sr[e] # a
    PROVE  ListOf(sr, sq)[a] = Absent
BY DEF ListOf

(* Setting the number of an entry sets the number its source maps to.     *)
LEMMA ListSet ==
    ASSUME TypeOK, Unique, NEW e \in Entries, src[e] \in Srcs, NEW v,
           NEW sq2, sq2 = [seq EXCEPT ![e] = v]
    PROVE  ListOf(src, sq2) = [ListOf(src, seq) EXCEPT ![src[e]] = v]
<1>1. \A f \in Entries : src[f] = src[e] => f = e
  BY SrcsAssumption DEF Unique
<1> SUFFICES ASSUME NEW a \in Srcs
             PROVE  ListOf(src, sq2)[a] = [ListOf(src, seq) EXCEPT ![src[e]] = v][a]
  BY DEF ListOf
<1>2. CASE a = src[e]
  <2>1. ListOf(src, sq2)[src[e]] = sq2[e]
    BY <1>1, ChooseAt DEF ListOf
  <2>2. sq2[e] = v
    BY DEF TypeOK
  <2>3. [ListOf(src, seq) EXCEPT ![src[e]] = v][src[e]] = v
    BY DEF ListOf
  <2> QED  BY <1>2, <2>1, <2>2, <2>3
<1>3. CASE a # src[e] /\ \E f \in Entries : src[f] = a
  <2>1. PICK f \in Entries : src[f] = a
    BY <1>3
  <2>2. f # e /\ \A g \in Entries : src[g] = src[f] => g = f
    BY <1>3, <2>1, SrcsAssumption DEF Unique
  <2>3. ListOf(src, sq2)[a] = sq2[f] /\ ListOf(src, seq)[a] = seq[f]
    BY <2>1, <2>2, ChooseAt DEF ListOf
  <2>4. sq2[f] = seq[f]
    BY <2>2 DEF TypeOK
  <2> QED  BY <1>3, <2>3, <2>4 DEF ListOf
<1>4. CASE a # src[e] /\ ~\E f \in Entries : src[f] = a
  BY <1>4, ListNone DEF ListOf
<1> QED  BY <1>2, <1>3, <1>4

(* Giving a free entry to a source the list does not hold adds it.        *)
LEMMA ListAlloc ==
    ASSUME TypeOK, Unique, NEW fe \in Entries, src[fe] = 0,
           NEW s \in Srcs, \A e \in Entries : src[e] # s, NEW v
    PROVE  ListOf([src EXCEPT ![fe] = s], [seq EXCEPT ![fe] = v])
             = [ListOf(src, seq) EXCEPT ![s] = v]
<1>1. \A sr2, sq2 : sr2 = [src EXCEPT ![fe] = s] /\ sq2 = [seq EXCEPT ![fe] = v]
                   => ListOf(sr2, sq2) = [ListOf(src, seq) EXCEPT ![s] = v]
  <2> SUFFICES ASSUME NEW sr2, NEW sq2,
                      sr2 = [src EXCEPT ![fe] = s], sq2 = [seq EXCEPT ![fe] = v]
               PROVE  ListOf(sr2, sq2) = [ListOf(src, seq) EXCEPT ![s] = v]
    OBVIOUS
  <2> SUFFICES ASSUME NEW a \in Srcs
               PROVE  ListOf(sr2, sq2)[a] = [ListOf(src, seq) EXCEPT ![s] = v][a]
    BY DEF ListOf
  <2>1. CASE a = s
    <3>1. sr2[fe] = s /\ \A f \in Entries : sr2[f] = sr2[fe] => f = fe
      BY DEF TypeOK
    <3>2. ListOf(sr2, sq2)[s] = sq2[fe]
      BY <3>1, ChooseAt DEF ListOf
    <3>3. sq2[fe] = v
      BY DEF TypeOK
    <3>4. [ListOf(src, seq) EXCEPT ![s] = v][s] = v
      BY DEF ListOf
    <3> QED  BY <2>1, <3>2, <3>3, <3>4
  <2>2. CASE a # s /\ \E f \in Entries : src[f] = a
    <3>1. PICK f \in Entries : src[f] = a
      BY <2>2
    <3>2. f # fe /\ sr2[f] = a
      BY <3>1, SrcsAssumption DEF TypeOK
    <3>3. \A g \in Entries : sr2[g] = sr2[f] => g = f
      BY <2>2, <3>1, <3>2, SrcsAssumption DEF Unique, TypeOK
    <3>4. \A g \in Entries : src[g] = src[f] => g = f
      BY <3>1, SrcsAssumption DEF Unique
    <3>5. ListOf(sr2, sq2)[a] = sq2[f] /\ ListOf(src, seq)[a] = seq[f]
      BY <3>1, <3>2, <3>3, <3>4, ChooseAt DEF ListOf
    <3>6. sq2[f] = seq[f]
      BY <3>2 DEF TypeOK
    <3> QED  BY <2>2, <3>5, <3>6 DEF ListOf
  <2>3. CASE a # s /\ ~\E f \in Entries : src[f] = a
    <3>1. \A f \in Entries : sr2[f] # a
      BY <2>3, SrcsAssumption DEF TypeOK
    <3> QED  BY <2>3, <3>1, ListNone DEF ListOf
  <2> QED  BY <2>1, <2>2, <2>3
<1> QED  BY <1>1

(* The sources the list holds are the sources held by an entry.           *)
LEMMA HeldIsMemSrcs ==
    ASSUME TypeOK, Unique
    PROVE  Abs!Held = MemSrcs
<1>1. ASSUME NEW e \in Entries, src[e] # 0
      PROVE  AbsList[src[e]] = seq[e] /\ seq[e] # Absent
  <2>1. \A f \in Entries : src[f] = src[e] => f = e
    BY <1>1 DEF Unique
  <2>2. src[e] \in Srcs /\ seq[e] \in Nat
    BY <1>1 DEF TypeOK, Seqs
  <2> QED  BY <2>1, <2>2, ChooseAt, SrcsAssumption DEF AbsList, ListOf
<1>2. ASSUME NEW a \in Srcs, a \notin MemSrcs
      PROVE  AbsList[a] = Absent
  BY <1>2, ListNone, SrcsAssumption DEF AbsList, MemSrcs
<1> QED  BY <1>1, <1>2, SrcsAssumption DEF Abs!Held, MemSrcs, TypeOK

(* A free entry leaves room in the list for one more source.              *)
LEMMA HeldRoom ==
    ASSUME TypeOK, FreeEntries # {}
    PROVE  Cardinality(MemSrcs) < NEntries
<1>1. PICK ff \in Entries : src[ff] = 0
  BY DEF FreeEntries
<1> DEFINE Rest == Entries \ {ff}
           Img == {src[e] : e \in Rest}
<1>2. IsFiniteSet(Rest) /\ Cardinality(Rest) = NEntries - 1
  <2>1. IsFiniteSet(Entries) /\ Cardinality(Entries) = NEntries
    BY FS_Interval DEF Entries
  <2> QED  BY <1>1, <2>1, FS_RemoveElement
<1>3. [e \in Rest |-> src[e]] \in Surjection(Rest, Img)
  BY DEF Surjection
<1>4. IsFiniteSet(Img) /\ Cardinality(Img) <= NEntries - 1
  BY <1>2, <1>3, FS_Surjection
<1>5. MemSrcs \subseteq Img
  BY <1>1 DEF MemSrcs
<1>6. IsFiniteSet(MemSrcs) /\ Cardinality(MemSrcs) <= Cardinality(Img)
  BY <1>4, <1>5, FS_Subset
<1> QED  BY <1>4, <1>6, FS_CardinalityType

(* clear_rpl empties the list and deletes the records of its sources.     *)
LEMMA ClearRefines ==
    ASSUME TypeOK, Unique, ClearRpl
    PROVE  Abs!Clear
<1>1. AbsList' = [a \in Srcs |-> Absent]
  BY SrcsAssumption DEF ClearRpl, AbsList, ListOf
<1>2. AbsDirty' = {}
  BY DEF ClearRpl, AbsDirty
<1>3. \A a \in Srcs : a \in Abs!Held <=> \E e \in Entries : src[e] = a
  BY HeldIsMemSrcs, SrcsAssumption DEF MemSrcs
<1>4. stored' = [a \in Srcs |-> IF a \in Abs!Held THEN Absent ELSE stored[a]]
  BY <1>3 DEF ClearRpl
<1> QED  BY <1>1, <1>2, <1>4 DEF Abs!Clear

-----------------------------------------------------------------------------
(* One lemma per action: each step is a step of RplList or leaves the      *)
(* list, the dirty sources, valid, loading and the records as they are.    *)

LEMMA InitRefines ==
    ASSUME Init
    PROVE  Abs!Init
<1>1. AbsList = [a \in Srcs |-> Absent] /\ AbsDirty = {}
  BY SrcsAssumption DEF Init, AbsList, ListOf, AbsDirty
<1> QED  BY <1>1 DEF Init, Abs!Init

LEMMA AcceptRefines ==
    ASSUME IInv, NEW s \in Srcs, NEW q \in 1..MaxSeq, Accept(s, q)
    PROVE  Abs!Accept(s, q)
<1>1. Abs!Running /\ valid /\ UNCHANGED <<valid, loading, stored>>
  BY DEF Accept, CallAllowed, Running, Abs!Running
<1>2. TypeOK /\ Unique
  BY DEF IInv
<1>3. CASE \E e \in Entries : /\ src[e] = s
                             /\ seq[e] < q
                             /\ seq' = [seq EXCEPT ![e] = q]
                             /\ StoreRpl(e)
                             /\ UNCHANGED src
  <2>1. PICK e \in Entries : /\ src[e] = s
                             /\ seq[e] < q
                             /\ seq' = [seq EXCEPT ![e] = q]
                             /\ StoreRpl(e)
                             /\ UNCHANGED src
    BY <1>3
  <2>2. \A f \in Entries : src[f] = src[e] => f = e
    BY <1>2, <2>1, SrcsAssumption DEF Unique
  <2>3. AbsList[s] = seq[e] /\ seq[e] \in Nat
    BY <1>2, <2>1, <2>2, ChooseAt DEF AbsList, ListOf, TypeOK, Seqs
  <2>4. AbsList[s] # Absent /\ AbsList[s] < q
    BY <2>1, <2>3, SrcsAssumption
  <2>5. ListOf(src, seq') = [ListOf(src, seq) EXCEPT ![src[e]] = q]
    BY <1>2, <2>1, ListSet
  <2>6. AbsList' = [AbsList EXCEPT ![s] = q]
    BY <2>1, <2>5 DEF AbsList
  <2>7. AbsDirty' = AbsDirty \cup {s}
    BY <1>2, <2>1 DEF AbsDirty, StoreRpl, TypeOK
  <2> QED  BY <1>1, <2>4, <2>6, <2>7 DEF Abs!Accept
<1>4. CASE /\ \A e \in Entries : src[e] # s
           /\ FreeEntries # {}
           /\ src' = [src EXCEPT ![FirstFree] = s]
           /\ seq' = [seq EXCEPT ![FirstFree] = q]
           /\ StoreRpl(FirstFree)
  <2>1. PICK fe \in Entries : /\ fe = FirstFree
                              /\ src[fe] = 0
                              /\ src' = [src EXCEPT ![fe] = s]
                              /\ seq' = [seq EXCEPT ![fe] = q]
                              /\ store' = [store EXCEPT ![fe] = TRUE]
    BY <1>4, FirstFreeIn DEF FreeEntries, StoreRpl
  <2>2. AbsList[s] = Absent
    BY <1>4, ListNone DEF AbsList
  <2>3. Cardinality(Abs!Held) < NEntries
    BY <1>2, <1>4, HeldIsMemSrcs, HeldRoom
  <2>4. AbsList' = [AbsList EXCEPT ![s] = q]
    <3>0. src[fe] = 0 /\ \A e \in Entries : src[e] # s
      BY <1>4, <2>1
    <3>1. ListOf([src EXCEPT ![fe] = s], [seq EXCEPT ![fe] = q])
            = [ListOf(src, seq) EXCEPT ![s] = q]
      BY ONLY <1>2, <3>0, ListAlloc
    <3>2. ListOf(src', seq') = [ListOf(src, seq) EXCEPT ![s] = q]
      BY <2>1, <3>1
    <3> QED  BY <3>2 DEF AbsList
  <2>5. ~store[fe]
    BY <2>1 DEF IInv, StoreUsed
  <2>6. AbsDirty' = AbsDirty \cup {s}
    BY <1>2, <2>1, <2>5 DEF AbsDirty, TypeOK
  <2>7. \/ AbsList[s] # Absent /\ AbsList[s] < q
        \/ AbsList[s] = Absent /\ Cardinality(Abs!Held) < NEntries
    BY <2>2, <2>3
  <2>8. Abs!Cardinality(Abs!Held) = Cardinality(Abs!Held)
    BY DEF Abs!Cardinality, Cardinality
  <2> QED  BY ONLY <1>1, <2>4, <2>6, <2>7, <2>8 DEF Abs!Accept
<1> QED  BY <1>3, <1>4 DEF Accept

LEMMA ResetRefines ==
    ASSUME IInv, Reset
    PROVE  Abs!Reset
<1>1. ClearRpl /\ Abs!Running /\ valid /\ valid' = FALSE /\ loading' = loading
  BY DEF Reset, CallAllowed, Running, Abs!Running
<1> QED  BY <1>1, ClearRefines DEF IInv, Abs!Reset

LEMMA ProvisionRefines ==
    ASSUME Provision
    PROVE  Abs!Provision
BY DEF Provision, CallAllowed, Running, Abs!Running, Abs!Provision, AbsList, AbsDirty

LEMMA StartRplRefines ==
    ASSUME IInv, StartRpl
    PROVE  Abs!Discard \/ UNCHANGED Abs!vars
<1>1. CASE valid
  BY <1>1 DEF StartRpl, Abs!vars, AbsList, AbsDirty
<1>2. CASE ~valid
  <2>1. ClearRpl /\ Abs!Running /\ UNCHANGED <<valid, loading>>
    BY <1>2 DEF StartRpl, Running, Abs!Running
  <2> QED  BY <1>2, <2>1, ClearRefines DEF IInv, Abs!Discard
<1> QED  BY <1>1, <1>2

LEMMA RplStepRefines ==
    ASSUME IInv, RplStep
    PROVE  (\E a \in Srcs : Abs!Save(a)) \/ UNCHANGED Abs!vars
<1>1. pos \in Entries /\ UNCHANGED <<src, seq, valid, loading>>
  BY DEF RplStep, IInv, TypeOK, WalkRunning, Running, Entries
<1>2. UNCHANGED AbsList
  BY <1>1 DEF AbsList
<1>3. CASE store[pos]
  <2> DEFINE a == src[pos]
  <2>1. a \in Srcs /\ \A f \in Entries : src[f] = a => f = pos
    BY <1>1, <1>3, SrcsAssumption DEF IInv, StoreUsed, Unique, TypeOK
  <2>2. AbsList[a] = seq[pos]
    BY <1>1, <2>1, ChooseAt DEF AbsList, ListOf
  <2>3. store' = [store EXCEPT ![pos] = FALSE] /\ stored' = [stored EXCEPT ![a] = seq[pos]]
    BY <1>3 DEF RplStep, SaveRpl
  <2>4. a \in AbsDirty
    BY <1>1, <1>3 DEF AbsDirty
  <2>5. AbsDirty' = AbsDirty \ {a}
    BY <1>1, <2>1, <2>3 DEF AbsDirty, IInv, TypeOK
  <2>6. Abs!Save(a)
    BY <1>1, <1>2, <2>2, <2>3, <2>4, <2>5 DEF Abs!Save
  <2> QED  BY <2>1, <2>6
<1>4. CASE ~store[pos]
  BY <1>1, <1>2, <1>4 DEF RplStep, Abs!vars, AbsDirty
<1> QED  BY <1>3, <1>4

LEMMA RebootRefines ==
    ASSUME Reboot
    PROVE  Abs!Reboot
<1>1. AbsList' = [a \in Srcs |-> Absent] /\ AbsDirty' = {}
  BY SrcsAssumption DEF Reboot, AbsList, ListOf, AbsDirty
<1> QED  BY <1>1 DEF Reboot, Abs!Reboot

LEMMA RestoreRplRefines ==
    ASSUME IInv, NEW s \in loading, RestoreRpl(s)
    PROVE  Abs!Restore(s)
<1> DEFINE ff == FirstFree
<1>1. FreeEntries # {}
  BY ReplayFindsEntry
<1>2. ff \in Entries /\ src[ff] = 0 /\ ~store[ff]
  BY <1>1, FirstFreeIn DEF FreeEntries, IInv, StoreUsed
<1>3. src' = [src EXCEPT ![ff] = s] /\ seq' = [seq EXCEPT ![ff] = stored[s]]
      /\ loading' = loading \ {s}
      /\ UNCHANGED <<store, valid, stored>>
  BY <1>1 DEF RestoreRpl
<1>4. s \in Srcs /\ \A e \in Entries : src[e] # s
  BY DEF IInv, Recorded, Running, TypeOK, MemSrcs
<1>5. AbsList' = [AbsList EXCEPT ![s] = stored[s]]
  <2>1. TypeOK /\ Unique
    BY DEF IInv
  <2>2. ListOf([src EXCEPT ![ff] = s], [seq EXCEPT ![ff] = stored[s]])
          = [ListOf(src, seq) EXCEPT ![s] = stored[s]]
    BY <1>2, <1>4, <2>1, ListAlloc
  <2>3. ListOf(src', seq') = [ListOf(src, seq) EXCEPT ![s] = stored[s]]
    BY <1>3, <2>2
  <2> QED  BY <2>3 DEF AbsList
<1>6. UNCHANGED AbsDirty
  BY <1>2, <1>3 DEF AbsDirty, IInv, TypeOK
<1> QED  BY <1>3, <1>5, <1>6 DEF Abs!Restore

LEMMA NextRefines ==
    ASSUME IInv, [Next]_vars
    PROVE  [Abs!Next]_Abs!vars
<1>1. CASE UNCHANGED vars
  BY <1>1 DEF vars, Abs!vars, AbsList, AbsDirty
<1>2. CASE \E s \in Srcs, q \in 1..MaxSeq : Accept(s, q)
  BY <1>2, AcceptRefines DEF Abs!Next
<1>3. CASE Reset
  BY <1>3, ResetRefines DEF Abs!Next
<1>4. CASE Provision
  BY <1>4, ProvisionRefines DEF Abs!Next
<1>5. CASE StartRpl
  BY <1>5, StartRplRefines DEF Abs!Next
<1>6. CASE RplStep
  BY <1>6, RplStepRefines DEF Abs!Next
<1>7. CASE Reboot
  BY <1>7, RebootRefines DEF Abs!Next
<1>8. CASE \E s \in loading : RestoreRpl(s)
  <2>1. PICK s \in loading : RestoreRpl(s)
    BY <1>8
  <2>2. s \in Srcs
    BY DEF IInv, TypeOK
  <2> QED  BY <2>1, <2>2, RestoreRplRefines DEF Abs!Next
<1> QED  BY <1>1, <1>2, <1>3, <1>4, <1>5, <1>6, <1>7, <1>8 DEF Next

-----------------------------------------------------------------------------
(* For every number of entries and every set of sources, the entry array, *)
(* the store bits and the walk of store_pending_rpl implement the abstract *)
(* list: bt_mesh_store_rpl, store_pending_rpl, clear_rpl and rpl_set_bin   *)
(* never take a step the list could not take.                              *)
THEOREM RplRefinesListHolds == Spec => RplRefinesList
<1>1. Spec => []IInv
  BY InitIInv, NextIInv, PTL DEF Spec
<1>2. Init => Abs!Init
  BY InitRefines
<1>3. IInv /\ [Next]_vars => [Abs!Next]_Abs!vars
  BY NextRefines
<1> QED  BY <1>1, <1>2, <1>3, PTL DEF Spec, RplRefinesList, Abs!Spec
=============================================================================
