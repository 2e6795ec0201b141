-------------------------- MODULE MeshStoreProofs --------------------------
(***************************************************************************)
(* Proofs about MeshStore for every value of the constants: type           *)
(* correctness, the flush deadline of schedule_store / store_pending, and  *)
(* the 24-bit codec of the Seq record.                                     *)
(***************************************************************************)
EXTENDS MeshStore, TLAPS

USE TimeoutsAssumption, SeqAssumption, MarkCatsAssumption, AbsentAssumption

\* The categories, spelled out.
LEMMA CatsEnum ==
    Cats = {"RPL", "KEYS", "NET", "IV", "SEQ", "HBPUB", "CFG", "MOD", "VA",
            "ROLE", "NODES"}
BY DEF Cats, FlushOrder, NCat

\* Every category has a position in the walk of store_pending.
LEMMA CatsPosition ==
    \A c \in Cats : \E j \in 1..NCat : FlushOrder[j] = c
BY DEF Cats

LEMMA MaxTBounds ==
    /\ ShortT <= MaxT /\ RplT <= MaxT /\ StoreT <= MaxT
    /\ MaxT \in Nat \ {0}
BY DEF MaxT

USE MaxTBounds DEF NCat

\* schedule_store always arms the timer with one of the three timeouts.
LEMMA TimeoutRange ==
    \A p : StoreTimeout(p) \in 1..MaxT
BY MaxTBounds DEF StoreTimeout

\* The timeout chosen for a pending set never exceeds the deadline of any
\* category in it.
LEMMA TimeoutWithinBound ==
    \A p, c : c \in p => StoreTimeout(p) <= Bound(c)
BY MaxTBounds DEF StoreTimeout, Bound, NoWaitCats, GenericCats

LEMMA BoundRange ==
    \A c : Bound(c) \in 0..MaxT
BY MaxTBounds DEF Bound

-----------------------------------------------------------------------------
(* The scheduler part of the state, and the deadline stated on it.         *)

SchedOK(s) ==
    /\ s.pending \subseteq Cats
    /\ s.timer \in 0..MaxT
    /\ s.due \in [Cats -> 0..MaxT]

InFlush(c) == wpc > 0 /\ \E j \in wpc..NCat : FlushOrder[j] = c

CovS(s) ==
    \A c \in s.pending : InFlush(c) \/ queued \/ (s.timer > 0 /\ s.timer <= s.due[c])

LEMMA SchedNow ==
    /\ TypeOK => SchedOK(Sched)
    /\ FlushDeadline <=> CovS(Sched)
BY DEF TypeOK, SchedOK, Sched, FlushDeadline, Covered, CovS, InFlush

\* schedule_store keeps the scheduler well typed and keeps every pending
\* category, the one it marks included, within its deadline.
LEMMA ScheduleStoreOK ==
    ASSUME NEW s, NEW c \in Cats, SchedOK(s)
    PROVE  SchedOK(ScheduleStore(s, c))
<1> DEFINE p == s.pending \cup {c}
<1>1. StoreTimeout(p) \in 1..MaxT
  BY TimeoutRange
<1>2. Bound(c) \in 0..MaxT
  BY BoundRange
<1> QED
  BY <1>1, <1>2 DEF SchedOK, ScheduleStore

LEMMA ScheduleStoreCov ==
    ASSUME NEW s, NEW c \in Cats, SchedOK(s), CovS(s)
    PROVE  CovS(ScheduleStore(s, c))
<1> DEFINE p == s.pending \cup {c}
           t == StoreTimeout(p)
           s2 == ScheduleStore(s, c)
<1>1. t \in 1..MaxT
  BY TimeoutRange
<1>2. s2.timer \in Nat /\ s2.timer > 0 /\ s2.timer <= t /\ (s.timer > 0 => s2.timer <= s.timer)
  BY <1>1 DEF SchedOK, ScheduleStore
<1>3. s2.pending = p
  BY DEF ScheduleStore
<1>4. SUFFICES ASSUME NEW d \in p
               PROVE  InFlush(d) \/ queued \/ (s2.timer > 0 /\ s2.timer <= s2.due[d])
  BY <1>3 DEF CovS
<1>5. CASE d \in s.pending
  <2>1. s2.due[d] = s.due[d]
    BY <1>5 DEF ScheduleStore, SchedOK
  <2>2. InFlush(d) \/ queued \/ (s.timer > 0 /\ s.timer <= s.due[d])
    BY <1>5 DEF CovS
  <2>3. s.timer \in Int /\ s.due[d] \in Int
    BY <1>5 DEF SchedOK
  <2> QED
    BY <2>1, <2>2, <2>3, <1>2
<1>6. CASE d \notin s.pending
  <2>1. d = c /\ c \notin s.pending
    BY <1>6 DEF p
  <2>2. s2.due[d] = Bound(c)
    BY <2>1 DEF ScheduleStore, SchedOK
  <2>3. t <= Bound(c)
    BY TimeoutWithinBound
  <2>4. Bound(c) \in Nat
    BY BoundRange, MaxTBounds
  <2> QED
    BY <2>2, <2>3, <2>4, <1>1, <1>2
<1> QED
  BY <1>5, <1>6

\* bt_mesh_store_seq and bt_mesh_store_iv are made of schedule_store calls.
LEMMA StoreSeqOK ==
    ASSUME NEW s, NEW n, SchedOK(s), CovS(s)
    PROVE  SchedOK(StoreSeq(s, n)) /\ CovS(StoreSeq(s, n))
<1>1. "SEQ" \in Cats
  BY CatsEnum
<1>2. SchedOK(ScheduleStore(s, "SEQ")) /\ CovS(ScheduleStore(s, "SEQ"))
  BY <1>1, ScheduleStoreOK, ScheduleStoreCov
<1> QED
  BY <1>2 DEF StoreSeq

LEMMA StoreIvOK ==
    ASSUME NEW s, NEW b, SchedOK(s), CovS(s)
    PROVE  SchedOK(StoreIv(s, b)) /\ CovS(StoreIv(s, b))
<1>1. "IV" \in Cats /\ "SEQ" \in Cats
  BY CatsEnum
<1>2. SchedOK(ScheduleStore(s, "IV")) /\ CovS(ScheduleStore(s, "IV"))
  BY <1>1, ScheduleStoreOK, ScheduleStoreCov
<1> QED
  BY <1>1, <1>2, ScheduleStoreOK, ScheduleStoreCov DEF StoreIv

\* Setting the scheduler variables to a well-typed, covered state s, with
\* the worker and the queue left alone, gives a state within its deadlines.
LEMMA SetSchedInv ==
    ASSUME NEW s, SchedOK(s), CovS(s), SetSched(s), wpc' = wpc, queued' = queued
    PROVE  /\ pending' \subseteq Cats
           /\ timer' \in 0..MaxT
           /\ due' \in [Cats -> 0..MaxT]
           /\ FlushDeadline'
BY DEF SchedOK, CovS, SetSched, FlushDeadline, Covered, InFlush

\* seq_set_bin restores a natural number.
LEMMA RestoreSeqNat ==
    \A v \in Nat \cup {Absent} : RestoreSeq(v) \in Nat
<1> SUFFICES ASSUME NEW v \in Nat, SeqRate > 0 PROVE RestoreSeq(v) \in Nat
  BY DEF RestoreSeq
<1>1. v % SeqRate \in 0..(SeqRate - 1)
  OBVIOUS
<1> QED
  BY <1>1, AbsentAssumption DEF RestoreSeq

-----------------------------------------------------------------------------
(* The inductive invariant.                                                 *)

\* TypeOK alone is not inductive: a write of the network record needs the
\* address and key of a valid node.
TypeInv == TypeOK /\ (valid => net \in NetVals)

IInv == TypeInv /\ FlushDeadline

\* The three bytes of store_pending_seq, read back by seq_set_bin, give
\* the counter modulo 2^24.
LEMMA SeqValRoundTrip ==
    ASSUME NEW c \in Nat
    PROVE  SeqOfVal(SeqVal(c)) = c % 16777216
<1>1. c % 16777216 = (c % 256) + 256 * ((c \div 256) % 256)
                       + 65536 * ((c \div 65536) % 256)
  OBVIOUS
<1> QED
  BY <1>1 DEF SeqOfVal, SeqVal

\* The round-up of seq_set_bin never moves a counter back.
LEMMA RestoreNotBehind ==
    ASSUME NEW c \in Nat
    PROVE  c <= RestoreSeq(c)
<1>1. CASE SeqRate > 0
  <2>1. c % SeqRate \in 0..(SeqRate - 1)
    BY <1>1
  <2> QED
    BY <1>1, <2>1, AbsentAssumption DEF RestoreSeq
<1>2. CASE SeqRate = 0
  BY <1>2, AbsentAssumption DEF RestoreSeq
<1> QED
  BY <1>1, <1>2

\* A store rate that divides 2^24.
SeqRateDividesField == SeqRate = 0 \/ 16777216 % SeqRate = 0

\* With such a rate the round-up of a 24-bit counter stays within 24 bits:
\* it ends the block of SeqRate counters c lies in, and 2^24 ends a block.
LEMMA RestoreFits ==
    ASSUME SeqRateDividesField, NEW c \in Nat, c < 16777216
    PROVE  RestoreSeq(c) < 16777216
<1>1. CASE SeqRate > 0
  <2> DEFINE q == c \div SeqRate
             k == 16777216 \div SeqRate
  <2>1. c = q * SeqRate + (c % SeqRate) /\ c % SeqRate \in 0..(SeqRate - 1)
    BY <1>1, SMT
  <2>2. 16777216 = k * SeqRate
    BY <1>1 DEF SeqRateDividesField, SMT
  <2>3. q * SeqRate < k * SeqRate
    BY <2>1, <2>2, SMT
  <2>4. q < k
    BY <1>1, <2>3, SMT
  <2>5. (q + 1) * SeqRate <= k * SeqRate
    BY <1>1, <2>4, SMT
  <2>7. (q + 1) * SeqRate <= 16777216
    BY <2>2, <2>5, SMT
  <2> QED
    BY <1>1, <2>1, <2>7, AbsentAssumption DEF RestoreSeq
<1>2. CASE SeqRate = 0
  BY <1>2, AbsentAssumption DEF RestoreSeq, SMT
<1> QED
  BY <1>1, <1>2, SMT

\* Every counter, not only the ones around a carry, survives the Seq
\* record when the rate divides 2^24.
LEMMA SeqCodecAll ==
    ASSUME SeqRateDividesField, NEW c \in Nat
    PROVE  SeqCodecAt(c)
<1>1. SeqOfVal(SeqVal(c)) = c % 16777216
  BY SeqValRoundTrip, SMT
<1>2. c < 16777216 => SeqOfVal(SeqVal(c)) = c
  BY <1>1, SMT
<1> QED
  BY <1>1, <1>2, RestoreNotBehind, RestoreFits DEF SeqCodecAt, SMT

\* store_pending writes a well-formed record.
LEMMA WrittenOK ==
    ASSUME TypeInv, NEW c, NEW b \in Records
    PROVE  Written(c, b) \in Records
<1>1. SeqOfVal(SeqVal(seq)) \in Nat
  BY SeqValRoundTrip DEF TypeInv, TypeOK
<1> QED
  BY <1>1 DEF TypeInv, TypeOK, Written, Records

LEMMA InitIInv == Init => IInv
<1> SUFFICES ASSUME Init PROVE IInv
  OBVIOUS
<1>1. buf \in Records /\ flash \in Records
  BY DEF Init, Records
<1>2. due \in [Cats -> 0..MaxT]
  BY MaxTBounds DEF Init
<1>3. timer \in 0..MaxT /\ wpc \in 0..NCat
  BY MaxTBounds DEF Init, NCat
<1>4. pending \subseteq Cats /\ queued \in BOOLEAN /\ valid \in BOOLEAN
  BY DEF Init
<1>6. net \in NetVals \cup {NoNet} /\ seq \in Nat /\ role \in {Node, NoRole}
  BY DEF Init
<1>7. savePending \in BOOLEAN /\ lastSent \in Nat \cup {-1}
  BY DEF Init
<1>5. TypeOK
  BY <1>1, <1>2, <1>3, <1>4, <1>6, <1>7 DEF TypeOK
<1> QED
  BY <1>5 DEF Init, IInv, TypeInv, FlushDeadline

\* What the inductive invariant gives each step.
LEMMA IInvFacts ==
    ASSUME IInv
    PROVE  /\ TypeOK /\ (valid => net \in NetVals) /\ FlushDeadline
           /\ SchedOK(Sched) /\ CovS(Sched)
BY SchedNow DEF IInv, TypeInv

\* An action that only calls schedule_store keeps the invariant.
LEMMA SchedActionIInv ==
    ASSUME IInv, NEW s, SchedOK(s), CovS(s), SetSched(s),
           UNCHANGED <<queued, wpc, buf, flash, savePending>>,
           seq' \in Nat, lastSent' \in Nat \cup {-1}, valid' \in BOOLEAN,
           net' \in NetVals \cup {NoNet}, role' \in {Node, NoRole},
           valid' => net' \in NetVals
    PROVE  IInv'
<1>1. FlushDeadline'
  BY IInvFacts, SetSchedInv
<1>2. /\ pending' \subseteq Cats
      /\ timer' \in 0..MaxT
      /\ due' \in [Cats -> 0..MaxT]
  BY IInvFacts, SetSchedInv
<1>4. queued' \in BOOLEAN /\ savePending' \in BOOLEAN
  BY Zenon, IInvFacts DEF TypeOK
<1>5. wpc' \in 0..NCat /\ buf' \in Records /\ flash' \in Records
  BY IInvFacts DEF TypeOK
<1>3. TypeOK'
  BY <1>2, <1>4, <1>5 DEF TypeOK
<1> QED
  BY <1>1, <1>3 DEF IInv, TypeInv

LEMMA StoreCategoryIInv ==
    ASSUME IInv, NEW c \in MarkCats, StoreCategory(c)
    PROVE  IInv'
<1>1. c \in Cats
  BY MarkCatsAssumption
<1>2. SchedOK(ScheduleStore(Sched, c)) /\ CovS(ScheduleStore(Sched, c))
  BY <1>1, IInvFacts, ScheduleStoreOK, ScheduleStoreCov
<1>3. UNCHANGED <<valid, net, seq, role, lastSent>>
  BY DEF StoreCategory
<1> QED
  BY <1>2, <1>3, IInvFacts, SchedActionIInv DEF StoreCategory, TypeOK

LEMMA NextSeqIInv ==
    ASSUME IInv, NextSeq
    PROVE  IInv'
<1>1. SchedOK(StoreSeq(Sched, seq + 1)) /\ CovS(StoreSeq(Sched, seq + 1))
  BY IInvFacts, StoreSeqOK
<1>2. seq' \in Nat /\ lastSent' \in Nat
  BY IInvFacts DEF NextSeq, TypeOK
<1> QED
  BY <1>1, <1>2, IInvFacts, SchedActionIInv DEF NextSeq, TypeOK

LEMMA ProvisionIInv ==
    ASSUME IInv, NEW v \in NetVals, Provision(v)
    PROVE  IInv'
<1> DEFINE s1 == ScheduleStore(Sched, "NET")
           s2 == ScheduleStore(s1, "KEYS")
           s3 == StoreIv(s2, FALSE)
           s4 == ScheduleStore(s3, "ROLE")
<1>0. "NET" \in Cats /\ "KEYS" \in Cats /\ "ROLE" \in Cats
  BY CatsEnum
<1>1. SchedOK(s1) /\ CovS(s1)
  BY <1>0, IInvFacts, ScheduleStoreOK, ScheduleStoreCov
<1>2. SchedOK(s2) /\ CovS(s2)
  BY <1>0, <1>1, ScheduleStoreOK, ScheduleStoreCov
<1>3. SchedOK(s3) /\ CovS(s3)
  BY <1>2, StoreIvOK
<1>4. SchedOK(s4) /\ CovS(s4)
  BY <1>0, <1>3, ScheduleStoreOK, ScheduleStoreCov
<1>5. SetSched(s4)
  BY DEF Provision
<1>6. /\ seq' \in Nat /\ lastSent' \in Nat \cup {-1} /\ valid' \in BOOLEAN
      /\ net' \in NetVals /\ role' \in {Node, NoRole}
      /\ UNCHANGED <<queued, wpc, buf, flash, savePending>>
  BY DEF Provision
<1> QED
  BY <1>4, <1>5, <1>6, SchedActionIInv

LEMMA ResetIInv ==
    ASSUME IInv, Reset
    PROVE  IInv'
<1> DEFINE s1 == ScheduleStore(Sched, "NET")
           s2 == ScheduleStore(s1, "IV")
           s3 == ScheduleStore(s2, "CFG")
<1>0. "NET" \in Cats /\ "IV" \in Cats /\ "CFG" \in Cats
  BY CatsEnum
<1>1. SchedOK(s1) /\ CovS(s1)
  BY <1>0, IInvFacts, ScheduleStoreOK, ScheduleStoreCov
<1>2. SchedOK(s2) /\ CovS(s2)
  BY <1>0, <1>1, ScheduleStoreOK, ScheduleStoreCov
<1>3. SchedOK(s3) /\ CovS(s3)
  BY <1>0, <1>2, ScheduleStoreOK, ScheduleStoreCov
<1>4. SetSched(s3)
  BY DEF Reset
<1>5. /\ seq' \in Nat /\ valid' = FALSE /\ net' = NoNet
      /\ UNCHANGED <<queued, wpc, buf, flash, savePending, role, lastSent>>
  BY DEF Reset
<1> QED
  BY <1>3, <1>4, <1>5, IInvFacts, SchedActionIInv DEF TypeOK

LEMMA IvUpdateIInv ==
    ASSUME IInv, NEW r \in BOOLEAN, IvUpdate(r)
    PROVE  IInv'
<1>1. SchedOK(StoreIv(Sched, ~r)) /\ CovS(StoreIv(Sched, ~r))
  BY IInvFacts, StoreIvOK
<1>2. seq' \in Nat /\ lastSent' \in Nat \cup {-1}
  BY IInvFacts DEF IvUpdate, TypeOK
<1>3. UNCHANGED <<queued, wpc, valid, net, role, buf, flash, savePending>>
  BY DEF IvUpdate
<1> QED
  BY <1>1, <1>2, <1>3, IInvFacts, SchedActionIInv DEF IvUpdate, TypeOK

LEMMA TickIInv ==
    ASSUME IInv, Tick
    PROVE  IInv'
<1>0. TypeOK /\ (valid => net \in NetVals) /\ FlushDeadline
  BY IInvFacts
<1>1. \A c \in pending : timer <= due[c]
  BY <1>0 DEF Tick, FlushDeadline, Covered
<1>2. due' \in [Cats -> 0..MaxT]
  BY <1>0 DEF Tick, TypeOK
<1>3. timer' \in 0..MaxT
  BY <1>0 DEF Tick, TypeOK
<1>4. queued' \in BOOLEAN
  BY DEF Tick
<1>5. UNCHANGED <<pending, wpc, valid, net, seq, role, buf, flash,
                  savePending, lastSent>>
  BY DEF Tick
<1>6. TypeOK'
  BY <1>0, <1>2, <1>3, <1>4, <1>5 DEF TypeOK
<1>7. FlushDeadline'
  <2> SUFFICES ASSUME NEW c \in pending' PROVE Covered(c)'
    BY DEF FlushDeadline
  <2>1. c \in pending /\ c \in Cats
    BY <1>0, <1>5 DEF TypeOK
  <2>2. CASE timer = 1
    BY <2>2 DEF Tick, Covered
  <2>3. CASE timer # 1
    <3>1. timer' > 0 /\ timer' = timer - 1
      BY <1>0, <2>3 DEF Tick, TypeOK
    <3>2. due'[c] = due[c] - 1 /\ timer <= due[c]
      BY <1>0, <1>1, <2>1 DEF Tick, TypeOK
    <3> QED
      BY <1>0, <3>1, <3>2, <2>1 DEF Covered, TypeOK
  <2> QED
    BY <2>2, <2>3
<1> QED
  BY <1>0, <1>5, <1>6, <1>7 DEF IInv, TypeInv

LEMMA StartFlushIInv ==
    ASSUME IInv, StartFlush
    PROVE  IInv'
<1>0. TypeOK /\ (valid => net \in NetVals) /\ FlushDeadline
  BY IInvFacts
<1>1. FlushDeadline'
  BY <1>0, CatsPosition DEF StartFlush, TypeOK, FlushDeadline, Covered
<1>2. wpc' \in 0..NCat
  BY DEF StartFlush
<1>5. queued' \in BOOLEAN
  BY Zenon DEF StartFlush
<1>3. UNCHANGED <<pending, timer, valid, net, seq, role, buf, flash,
                  savePending, due, lastSent>>
  BY DEF StartFlush
<1>4. TypeOK'
  BY <1>0, <1>2, <1>3, <1>5 DEF TypeOK
<1> QED
  BY <1>0, <1>1, <1>3, <1>4 DEF IInv, TypeInv

LEMMA FlushStepIInv ==
    ASSUME IInv, FlushStep
    PROVE  IInv'
<1> DEFINE c0 == FlushOrder[wpc]
<1>0. TypeOK /\ (valid => net \in NetVals) /\ FlushDeadline
  BY IInvFacts
<1>1. wpc \in 1..NCat /\ c0 \in Cats
  BY <1>0 DEF FlushStep, TypeOK, Cats
<1>2. Written(c0, buf) \in Records
  BY <1>0, WrittenOK DEF IInv, TypeInv, TypeOK
<1>3. buf' \in Records
  BY <1>0, <1>2 DEF FlushStep, TypeOK
<1>4. /\ pending' \subseteq Cats /\ wpc' \in 0..NCat
      /\ savePending' \in BOOLEAN /\ due' \in [Cats -> 0..MaxT]
  BY <1>0, <1>1 DEF FlushStep, TypeOK
<1>5. UNCHANGED <<timer, queued, valid, net, seq, role, flash, lastSent>>
  BY DEF FlushStep
<1>6. TypeOK'
  BY <1>0, <1>3, <1>4, <1>5 DEF TypeOK
<1>7. FlushDeadline'
  <2> SUFFICES ASSUME NEW c \in pending' PROVE Covered(c)'
    BY DEF FlushDeadline
  <2>1. c \in pending /\ c # c0
    BY DEF FlushStep
  <2>2. Covered(c)
    BY <1>0, <2>1 DEF FlushDeadline
  <2>3. due'[c] = due[c]
    BY <1>0, <2>1 DEF FlushStep, TypeOK
  <2>4. CASE wpc > 0 /\ \E j \in wpc..NCat : FlushOrder[j] = c
    <3>1. PICK j \in wpc..NCat : FlushOrder[j] = c
      BY <2>4
    <3>2. j # wpc /\ wpc # NCat
      BY <2>1, <3>1
    <3>3. wpc' = wpc + 1 /\ j \in wpc'..NCat
      BY <1>1, <3>1, <3>2 DEF FlushStep
    <3> QED
      BY <1>1, <3>1, <3>3 DEF Covered
  <2> QED
    BY <1>5, <2>2, <2>3, <2>4 DEF Covered
<1> QED
  BY <1>0, <1>5, <1>6, <1>7 DEF IInv, TypeInv

LEMMA SettingsFlushIInv ==
    ASSUME IInv, SettingsFlush
    PROVE  IInv'
<1>0. TypeOK /\ (valid => net \in NetVals) /\ FlushDeadline
  BY IInvFacts
<1>1. UNCHANGED <<pending, timer, queued, wpc, valid, net, seq, role, buf,
                  due, lastSent>>
  BY DEF SettingsFlush
<1>2. flash' \in Records /\ savePending' \in BOOLEAN
  BY <1>0 DEF SettingsFlush, TypeOK
<1>3. TypeOK'
  BY <1>0, <1>1, <1>2 DEF TypeOK
<1>4. FlushDeadline'
  BY <1>0, <1>1 DEF FlushDeadline, Covered
<1> QED
  BY <1>0, <1>1, <1>3, <1>4 DEF IInv, TypeInv

LEMMA RebootIInv ==
    ASSUME IInv, Reboot
    PROVE  IInv'
<1>0. TypeOK /\ (valid => net \in NetVals) /\ FlushDeadline
  BY IInvFacts
<1>1. flash \in Records
  BY <1>0 DEF TypeOK
<1>2. seq' \in Nat
  BY <1>1, RestoreSeqNat DEF Reboot, Records
<1>3. net' \in NetVals \cup {NoNet} /\ (valid' => net' \in NetVals)
  BY <1>1 DEF Reboot, Committed, CommitValid, Records
<1>4. /\ pending' = {} /\ timer' = 0 /\ queued' = FALSE /\ wpc' = 0
      /\ due' = [c \in Cats |-> 0] /\ lastSent' = -1 /\ savePending' = FALSE
      /\ buf' = flash /\ flash' = flash /\ role' \in {Node, NoRole}
  BY DEF Reboot
<1>7. valid' \in BOOLEAN /\ queued' \in BOOLEAN /\ savePending' \in BOOLEAN
  BY Zenon DEF Reboot, Committed, RoleMatches, CommitValid
<1>8. due' \in [Cats -> 0..MaxT] /\ timer' \in 0..MaxT /\ wpc' \in 0..NCat
  BY <1>4
<1>5. TypeOK'
  BY <1>1, <1>2, <1>3, <1>4, <1>7, <1>8 DEF TypeOK
<1>6. FlushDeadline'
  BY <1>4 DEF FlushDeadline
<1> QED
  BY <1>3, <1>5, <1>6 DEF IInv, TypeInv

LEMMA StutterIInv ==
    ASSUME IInv, UNCHANGED vars
    PROVE  IInv'
BY DEF vars, IInv, TypeInv, TypeOK, FlushDeadline, Covered

LEMMA NextIInv == IInv /\ [Next]_vars => IInv'
BY StoreCategoryIInv, NextSeqIInv, ProvisionIInv, ResetIInv, IvUpdateIInv,
   TickIInv, StartFlushIInv, FlushStepIInv, SettingsFlushIInv, RebootIInv,
   StutterIInv DEF Next

-----------------------------------------------------------------------------
(* Theorems.                                                                *)

\* The state stays well typed: every pending bit is a category, the
\* pending_store timer never exceeds the longest timeout, store_pending's
\* position stays within the walk, and every stored record is well formed.
THEOREM TypeCorrect == Spec => []TypeOK
<1>1. IInv => TypeOK
  BY DEF IInv, TypeInv
<1> QED
  BY <1>1, InitIInv, NextIInv, PTL DEF Spec

\* For every choice of the timeouts, a dirty category is always either
\* still ahead of the running store_pending, queued for the worker, or
\* covered by an armed pending_store timer that expires before the
\* category's deadline (schedule_store, store_pending).
THEOREM FlushDeadlineHolds == Spec => []FlushDeadline
<1>1. IInv => FlushDeadline
  BY DEF IInv
<1> QED
  BY <1>1, InitIInv, NextIInv, PTL DEF Spec

\* For every store rate that divides 2^24 (a power of two up to 2^24, as
\* the rates Kconfig offers), the counter the node holds and every counter
\* around a byte carry survive store_pending_seq and seq_set_bin: the
\* record keeps the counter modulo 2^24 and the round-up is neither behind
\* a 24-bit counter nor beyond 24 bits.
THEOREM SeqCodecHolds == SeqRateDividesField => (Spec => []SeqCodecSound)
<1> SUFFICES ASSUME SeqRateDividesField PROVE Spec => []SeqCodecSound
  OBVIOUS
<1>1. EdgeCodecOK
  <2>1. SeqEdge \subseteq Nat
    BY DEF SeqEdge
  <2> QED
    BY <2>1, SeqCodecAll DEF EdgeCodecOK
<1>2. TypeOK => SeqCodecSound
  BY <1>1, SeqCodecAll DEF TypeOK, SeqCodecSound
<1> QED
  BY <1>2, TypeCorrect, PTL

=============================================================================
