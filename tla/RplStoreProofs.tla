--------------------------- MODULE RplStoreProofs ---------------------------
(***************************************************************************)
(* Proof that the RPL records agree with the list once no entry waits to   *)
(* be saved, for any number of entries and sources.  The argument needs    *)
(* that a boot never runs out of entries: a record is only written for a   *)
(* source that holds an entry, so there are never more records than        *)
(* entries, and rpl_alloc finds a free entry for every record it replays.  *)
(***************************************************************************)
EXTENDS RplStore, FiniteSetTheorems, WellFoundedInduction, TLAPS

USE EntriesAssumption, SeqAssumption, PreemptiveAssumption, SrcsAssumption

\* The sources with a record, and the sources held by an entry.
Recs == {a \in Srcs : stored[a] # Absent}
MemSrcs == {src[e] : e \in Entries} \ {0}

(* No source holds two entries.                                           *)
Unique == \A e, f \in Entries : src[e] # 0 /\ src[e] = src[f] => e = f

(* Only a used entry has its store bit set.                               *)
StoreUsed == \A e \in Entries : store[e] => src[e] # 0

(* A used entry whose store bit is clear is stored as it is.              *)
Synced == \A e \in Entries : src[e] # 0 /\ ~store[e] => stored[src[e]] = seq[e]

(* The walk runs only after conf_load.                                    *)
WalkRunning == pos # 0 => Running

(* Every record is held by an entry or is still to be replayed, and while *)
(* conf_load runs the entries hold only replayed records.                 *)
Recorded ==
    /\ Recs \subseteq MemSrcs \cup loading
    /\ loading \subseteq Recs
    /\ ~Running => MemSrcs \subseteq Recs \ loading

(* There are no more records than entries.                                *)
Fits == Cardinality(Recs) <= NEntries

IInv == TypeOK /\ Unique /\ StoreUsed /\ Synced /\ WalkRunning /\ Recorded /\ Fits

-----------------------------------------------------------------------------
(* Lemmas about rpl_alloc and the size of the list.                        *)

LEMMA FirstFreeIn ==
    ASSUME FreeEntries # {}
    PROVE  FirstFree \in FreeEntries /\ src[FirstFree] = 0
<1>1. FreeEntries \subseteq Nat
  BY DEF FreeEntries, Entries
<1>2. PICK m \in FreeEntries : \A y \in FreeEntries : ~(<<y, m>> \in OpToRel(<, Nat))
  BY <1>1, NatLessThanWellFounded, WFMin
<1>3. \A y \in FreeEntries : m <= y
  <2> SUFFICES ASSUME NEW y \in FreeEntries PROVE m <= y
    OBVIOUS
  <2>1. y \in Nat /\ m \in Nat
    BY <1>1
  <2>2. ~(y < m)
    BY <1>2, <2>1, Zenon DEF OpToRel
  <2> QED  BY <2>1, <2>2
<1>4. \E e \in FreeEntries : \A f \in FreeEntries : e <= f
  BY <1>3
<1> QED  BY <1>4 DEF FirstFree, FreeEntries

LEMMA RecsFinite == IsFiniteSet(Recs)
BY FS_Subset DEF Recs

LEMMA MemSrcsBound ==
    ASSUME TypeOK
    PROVE  IsFiniteSet(MemSrcs) /\ Cardinality(MemSrcs) <= NEntries
<1> DEFINE Img == {src[e] : e \in Entries}
<1>1. IsFiniteSet(Entries) /\ Cardinality(Entries) = NEntries
  BY FS_Interval DEF Entries
<1>2. src \in Surjection(Entries, Img)
  BY DEF TypeOK, Surjection
<1>3. IsFiniteSet(Img) /\ Cardinality(Img) <= NEntries
  BY <1>1, <1>2, FS_Surjection
<1>4. MemSrcs \subseteq Img
  BY DEF MemSrcs
<1>5. IsFiniteSet(MemSrcs) /\ Cardinality(MemSrcs) <= Cardinality(Img)
  BY <1>3, <1>4, FS_Subset
<1> QED  BY <1>3, <1>5, FS_CardinalityType

(* A replay during conf_load finds a free entry: all entries hold other   *)
(* records, and there are no more records than entries.                   *)
LEMMA ReplayFindsEntry ==
    ASSUME IInv, NEW s \in loading
    PROVE  FreeEntries # {}
<1> SUFFICES ASSUME FreeEntries = {} PROVE FALSE
  OBVIOUS
<1>1. ~Running
  BY DEF Running
<1>2. src \in [Entries -> Recs \ {s}]
  <2> SUFFICES ASSUME NEW e \in Entries PROVE src[e] \in Recs \ {s}
    BY DEF IInv, TypeOK
  <2>1. src[e] \in MemSrcs
    BY DEF FreeEntries, MemSrcs
  <2> QED  BY <1>1, <2>1 DEF IInv, Recorded
<1>3. IsFiniteSet(Recs \ {s}) /\ Cardinality(Recs \ {s}) = Cardinality(Recs) - 1
  BY RecsFinite, FS_RemoveElement DEF IInv, Recorded
<1>4. IsFiniteSet(Entries) /\ Cardinality(Entries) = NEntries
  BY FS_Interval DEF Entries
<1>5. Cardinality(Recs \ {s}) < Cardinality(Entries)
  BY <1>3, <1>4, RecsFinite, FS_CardinalityType DEF IInv, Fits
<1>6. PICK x, y \in Entries : x # y /\ src[x] = src[y]
  BY <1>2, <1>3, <1>4, <1>5, FS_PigeonHole
<1> QED  BY <1>6 DEF FreeEntries, IInv, Unique
-----------------------------------------------------------------------------
(* One lemma per action.                                                   *)

LEMMA InitIInv ==
    ASSUME Init
    PROVE  IInv
<1>1. TypeOK
  <2>1. pending \in BOOLEAN /\ valid \in BOOLEAN
    BY Zenon DEF Init
  <2> QED  BY <2>1 DEF Init, TypeOK, Seqs
<1>2. Recs = {} /\ MemSrcs = {}
  BY DEF Init, Recs, MemSrcs
<1>3. Fits
  BY <1>2, FS_EmptySet DEF Fits
<1> QED  BY <1>1, <1>2, <1>3 DEF Init, IInv, Unique, StoreUsed, Synced,
                                  WalkRunning, Recorded, Running

(* The list and the records after clear_rpl on a node that has finished   *)
(* conf_load: every record was held by an entry, so none is left.         *)
LEMMA ClearRplFacts ==
    ASSUME IInv, Running, ClearRpl
    PROVE  /\ src' \in [Entries -> Srcs \cup {0}]
           /\ seq' \in [Entries -> Seqs]
           /\ store' \in [Entries -> BOOLEAN]
           /\ stored' \in [Srcs -> Seqs \cup {Absent}]
           /\ Unique' /\ StoreUsed' /\ Synced'
           /\ Recs' = {} /\ MemSrcs' = {}
<1>1. Recs \subseteq MemSrcs
  BY DEF IInv, Recorded, Running
<1>2. Recs' = {}
  BY <1>1 DEF ClearRpl, Recs, MemSrcs
<1> QED  BY <1>2 DEF ClearRpl, IInv, TypeOK, Seqs, Unique, StoreUsed, Synced, MemSrcs

LEMMA AcceptIInv ==
    ASSUME IInv, NEW s \in Srcs, NEW q \in 1..MaxSeq, Accept(s, q)
    PROVE  IInv'
<1>1. Running /\ loading' = loading /\ stored' = stored /\ pos' = pos
  BY DEF Accept, CallAllowed
<1>2. pending' \in BOOLEAN /\ valid' \in BOOLEAN
  BY Zenon DEF Accept, StoreRpl, IInv, TypeOK
<1>3. Recs' = Recs
  BY <1>1 DEF Recs
<1>4. CASE \E e \in Entries : /\ src[e] = s
                             /\ seq[e] < q
                             /\ seq' = [seq EXCEPT ![e] = q]
                             /\ StoreRpl(e)
                             /\ UNCHANGED src
  <2>1. PICK e \in Entries : /\ src[e] = s
                             /\ seq[e] < q
                             /\ seq' = [seq EXCEPT ![e] = q]
                             /\ StoreRpl(e)
                             /\ UNCHANGED src
    BY <1>4
  <2>2. TypeOK'
    BY <1>1, <1>2, <2>1 DEF IInv, TypeOK, StoreRpl, Seqs
  <2>3. StoreUsed' /\ Synced'
    BY <1>1, <2>1, SrcsAssumption DEF IInv, StoreUsed, Synced, StoreRpl, TypeOK
  <2>4. Unique' /\ MemSrcs' = MemSrcs
    BY <2>1 DEF IInv, Unique, MemSrcs
  <2>5. Recorded'
    BY <1>1, <1>3, <2>4 DEF IInv, Recorded, Running
  <2>6. WalkRunning' /\ Fits'
    BY <1>1, <1>3 DEF IInv, WalkRunning, Running, Fits
  <2> QED  BY <2>2, <2>3, <2>4, <2>5, <2>6 DEF IInv
<1>5. CASE /\ \A e \in Entries : src[e] # s
           /\ FreeEntries # {}
           /\ src' = [src EXCEPT ![FirstFree] = s]
           /\ seq' = [seq EXCEPT ![FirstFree] = q]
           /\ StoreRpl(FirstFree)
  <2> DEFINE ff == FirstFree
  <2>1. ff \in Entries /\ src[ff] = 0
    BY <1>5, FirstFreeIn DEF FreeEntries
  <2>2. TypeOK'
    BY <1>1, <1>2, <1>5, <2>1 DEF IInv, TypeOK, StoreRpl, Seqs
  <2>3. Unique'
    BY <1>5, <2>1 DEF IInv, Unique, TypeOK
  <2>4. StoreUsed' /\ Synced'
    BY <1>1, <1>5, <2>1, SrcsAssumption DEF IInv, StoreUsed, Synced, StoreRpl, TypeOK
  <2>5. MemSrcs \subseteq MemSrcs'
    BY <1>5, <2>1 DEF MemSrcs, IInv, TypeOK
  <2>6. Recorded'
    BY <1>1, <1>3, <2>5 DEF IInv, Recorded, Running
  <2>7. WalkRunning' /\ Fits'
    BY <1>1, <1>3 DEF IInv, WalkRunning, Running, Fits
  <2> QED  BY <2>2, <2>3, <2>4, <2>6, <2>7 DEF IInv
<1> QED  BY <1>4, <1>5 DEF Accept

LEMMA ResetIInv ==
    ASSUME IInv, Reset
    PROVE  IInv'
<1>1. Running /\ ClearRpl
  BY DEF Reset, CallAllowed
<1>2. pending' \in BOOLEAN /\ valid' \in BOOLEAN
  BY Zenon DEF Reset, IInv, TypeOK
<1>3. Cardinality(Recs') = 0
  BY <1>1, ClearRplFacts, FS_EmptySet
<1> QED  BY <1>1, <1>2, <1>3, ClearRplFacts
          DEF Reset, IInv, TypeOK, WalkRunning, Recorded, Fits, Running

LEMMA ProvisionIInv ==
    ASSUME IInv, Provision
    PROVE  IInv'
<1>1. valid' \in BOOLEAN
  BY Zenon DEF Provision
<1> QED  BY <1>1 DEF Provision, IInv, TypeOK, Unique, StoreUsed, Synced,
                    WalkRunning, Recorded, Fits, Recs, MemSrcs, Running

LEMMA StartRplIInv ==
    ASSUME IInv, StartRpl
    PROVE  IInv'
<1>1. Running /\ pending' = FALSE /\ valid' = valid /\ loading' = loading
  BY DEF StartRpl
<1>2. pending' \in BOOLEAN
  BY <1>1
<1>3. CASE valid
  <2>1. pos' = 1 /\ UNCHANGED <<src, seq, store, stored>>
    BY <1>3 DEF StartRpl
  <2> QED  BY <1>1, <1>2, <2>1 DEF IInv, TypeOK, Unique, StoreUsed, Synced,
                                   WalkRunning, Recorded, Fits, Recs, MemSrcs,
                                   Running
<1>4. CASE ~valid
  <2>1. ClearRpl /\ pos' = pos
    BY <1>4 DEF StartRpl
  <2>2. Cardinality(Recs') = 0
    BY <1>1, <2>1, ClearRplFacts, FS_EmptySet
  <2> QED  BY <1>1, <1>2, <2>1, <2>2, ClearRplFacts
            DEF IInv, TypeOK, WalkRunning, Recorded, Fits, Running
<1> QED  BY <1>3, <1>4

LEMMA RplStepIInv ==
    ASSUME IInv, RplStep
    PROVE  IInv'
<1>1. pos \in Entries /\ Running
  BY DEF RplStep, IInv, TypeOK, WalkRunning, Entries
<1>2. pos' \in 0..NEntries
  BY <1>1 DEF RplStep, Entries
<1>3. UNCHANGED <<src, seq, pending, valid, loading>>
  BY DEF RplStep, SaveRpl
<1>4. CASE store[pos]
  <2>1. store' = [store EXCEPT ![pos] = FALSE]
        /\ stored' = [stored EXCEPT ![src[pos]] = seq[pos]]
    BY <1>4 DEF RplStep, SaveRpl
  <2>2. src[pos] \in Srcs
    BY <1>1, <1>4 DEF IInv, StoreUsed, TypeOK
  <2>3. TypeOK'
    BY <1>1, <1>2, <1>3, <2>1, <2>2 DEF IInv, TypeOK
  <2>4. StoreUsed' /\ Synced'
    BY <1>1, <1>3, <2>1, <2>2 DEF IInv, StoreUsed, Synced, Unique, TypeOK
  <2>5. Recs' = Recs \cup {src[pos]} /\ MemSrcs' = MemSrcs
    <3>1. seq[pos] \in Nat
      BY <1>1 DEF IInv, TypeOK, Seqs
    <3>2. Recs' = Recs \cup {src[pos]}
      BY <2>1, <2>2, <3>1, SrcsAssumption DEF Recs, IInv, TypeOK
    <3>3. MemSrcs' = MemSrcs
      BY <1>3 DEF MemSrcs
    <3> QED  BY <3>2, <3>3
  <2>6. src[pos] \in MemSrcs
    BY <1>1, <2>2, SrcsAssumption DEF MemSrcs
  <2>7. Recs' \subseteq MemSrcs'
    BY <1>1, <2>5, <2>6 DEF IInv, Recorded, Running
  <2>8. Fits'
    <3>1. IsFiniteSet(MemSrcs) /\ Cardinality(MemSrcs) <= NEntries
      BY MemSrcsBound DEF IInv
    <3>2. Cardinality(Recs') <= Cardinality(MemSrcs)
      BY <2>5, <2>7, <3>1, FS_Subset
    <3>3. Cardinality(Recs') \in Nat
      BY <2>5, <2>7, <3>1, FS_Subset, FS_CardinalityType
    <3> QED  BY <3>1, <3>2, <3>3, FS_CardinalityType DEF Fits
  <2> QED  BY <1>1, <1>3, <2>3, <2>4, <2>5, <2>7, <2>8
            DEF IInv, Unique, WalkRunning, Recorded, Running
<1>5. CASE ~store[pos]
  <2>1. UNCHANGED <<store, stored>>
    BY <1>5 DEF RplStep, SaveRpl
  <2> QED  BY <1>1, <1>2, <1>3, <2>1 DEF IInv, TypeOK, Unique, StoreUsed, Synced,
                                          WalkRunning, Recorded, Fits, Recs,
                                          MemSrcs, Running
<1> QED  BY <1>4, <1>5

LEMMA RebootIInv ==
    ASSUME IInv, Reboot
    PROVE  IInv'
<1>1. pending' \in BOOLEAN /\ valid' \in BOOLEAN
  BY Zenon DEF Reboot
<1>2. Recs' = Recs /\ MemSrcs' = {} /\ loading' = Recs
  BY SrcsAssumption DEF Reboot, Recs, MemSrcs
<1>3. TypeOK'
  BY <1>1, <1>2 DEF Reboot, IInv, TypeOK, Seqs, Recs
<1> QED  BY <1>2, <1>3 DEF Reboot, IInv, Unique, StoreUsed, Synced, WalkRunning,
                          Recorded, Fits, Running

LEMMA RestoreRplIInv ==
    ASSUME IInv, NEW s \in loading, RestoreRpl(s)
    PROVE  IInv'
<1> DEFINE ff == FirstFree
<1>1. FreeEntries # {}
  BY ReplayFindsEntry
<1>2. ff \in Entries /\ src[ff] = 0
  BY <1>1, FirstFreeIn DEF FreeEntries
<1>3. src' = [src EXCEPT ![ff] = s] /\ seq' = [seq EXCEPT ![ff] = stored[s]]
      /\ loading' = loading \ {s}
      /\ UNCHANGED <<store, pending, valid, pos, stored>>
  BY <1>1 DEF RestoreRpl
<1>4. s \in Recs /\ s \in Srcs /\ s \notin MemSrcs /\ ~Running
  BY DEF IInv, Recorded, Running, TypeOK
<1>5. stored[s] \in Seqs /\ ~store[ff]
  BY <1>2, <1>4 DEF IInv, TypeOK, Recs, StoreUsed
<1>6. TypeOK'
  BY <1>2, <1>3, <1>4, <1>5 DEF IInv, TypeOK
<1>7. Unique'
  BY <1>2, <1>3, <1>4 DEF IInv, Unique, MemSrcs, TypeOK
<1>8. StoreUsed' /\ Synced'
  BY <1>2, <1>3, <1>4, <1>5, SrcsAssumption DEF IInv, StoreUsed, Synced, TypeOK
<1>9. MemSrcs' = MemSrcs \cup {s} /\ Recs' = Recs
  BY <1>2, <1>3, <1>4, SrcsAssumption DEF MemSrcs, Recs, IInv, TypeOK
<1>10. Recorded'
  BY <1>3, <1>4, <1>9 DEF IInv, Recorded, Running
<1>11. WalkRunning'
  BY <1>3, <1>4 DEF IInv, WalkRunning
<1> QED  BY <1>6, <1>7, <1>8, <1>9, <1>10, <1>11 DEF IInv, Fits

LEMMA NextIInv ==
    ASSUME IInv, [Next]_vars
    PROVE  IInv'
<1>1. CASE UNCHANGED vars
  BY <1>1 DEF vars, IInv, TypeOK, Unique, StoreUsed, Synced, WalkRunning,
              Recorded, Fits, Recs, MemSrcs, Running
<1> QED  BY <1>1, AcceptIInv, ResetIInv, ProvisionIInv, StartRplIInv,
            RplStepIInv, RebootIInv, RestoreRplIInv DEF Next

-----------------------------------------------------------------------------
(* For every number of entries and every set of sources, once no entry    *)
(* waits to be saved the RPL records hold exactly the list's sources with *)
(* their sequence numbers (bt_mesh_store_rpl, store_pending_rpl,          *)
(* clear_rpl, rpl_set_bin).                                               *)
THEOREM RplStoredHolds == Spec => []RplStored
<1>1. IInv => RplStored
  <2> SUFFICES ASSUME IInv, Quiescent PROVE RplStored
    BY DEF RplStored
  <2>1. Recs \subseteq MemSrcs
    BY DEF IInv, Recorded, Quiescent, Running
  <2>2. \A a \in Srcs : stored[a] # Absent => \E e \in Entries : src[e] = a
    BY <2>1 DEF Recs, MemSrcs
  <2>3. \A e \in Entries : src[e] # 0 => stored[src[e]] = seq[e]
    BY DEF IInv, Synced, Quiescent
  <2> QED  BY <2>2, <2>3 DEF RplStored
<1> QED  BY <1>1, InitIInv, NextIInv, PTL DEF Spec

(* For every number of entries and every set of sources, the replay list, *)
(* its store bits, the records and the walk of store_pending_rpl stay     *)
(* well typed.                                                            *)
THEOREM TypeCorrect == Spec => []TypeOK
<1>1. IInv => TypeOK
  BY DEF IInv
<1> QED  BY <1>1, InitIInv, NextIInv, PTL DEF Spec

=============================================================================
