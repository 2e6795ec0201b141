----------------------- MODULE MeshStoreDurableProofs -----------------------
(***************************************************************************)
(* Proofs that what store_pending writes and bt_mesh_settings_flush        *)
(* commits is what a power cycle needs: the provisioning survives a        *)
(* quiescent store (ProvisioningDurable), and a clean Seq record restores  *)
(* a counter above every number sent (SeqDurable).                         *)
(***************************************************************************)
EXTENDS MeshStoreProofs

USE TimeoutsAssumption, SeqAssumption, MarkCatsAssumption, AbsentAssumption,
    PreemptiveAssumption

-----------------------------------------------------------------------------
(* The inductive invariant of ProvisioningDurable.                          *)

\* Only a provisioned node is valid (bt_mesh_provision, mesh_commit).
RoleOfValid == valid => role = Node

\* Once the NET bit is clear, the RAM store holds the network of a valid
\* node (store_pending_net).
NetStored == valid /\ "NET" \notin pending => buf.net = net

\* Once the ROLE bit is clear, the RAM store of a valid node holds its role
\* (store_pending_role).
RoleStored == valid /\ "ROLE" \notin pending => buf.role = Node

\* Once the NET bit is clear, the RAM store of a node that is not valid
\* would not commit: clear_net deleted the network record, or the role is
\* missing from both the store and RAM.
NetCleared ==
    ~valid /\ "NET" \notin pending =>
        buf.net = Absent \/ (buf.role # Node /\ role # Node)

\* With no write since the last bt_mesh_settings_flush, flash is the RAM
\* store.
Flushed == ~savePending => flash = buf

ProvInv == RoleOfValid /\ NetStored /\ RoleStored /\ NetCleared /\ Flushed

-----------------------------------------------------------------------------
(* Lemmas about the operators.                                             *)

\* The record store_pending writes for category c, field by field.
LEMMA WrittenIs ==
    ASSUME NEW c, NEW b \in Records
    PROVE  Written(c, b) =
             [net  |-> IF c = "NET" THEN (IF valid THEN net ELSE Absent)
                       ELSE b.net,
              seq  |-> IF c = "SEQ" THEN SeqOfVal(SeqVal(seq)) ELSE b.seq,
              role |-> IF c = "ROLE" /\ role = Node THEN Node ELSE b.role]
<1>1. CASE c = "NET"
  BY <1>1 DEF Written, Records
<1>2. CASE c = "SEQ"
  BY <1>2 DEF Written, Records
<1>3. CASE c = "ROLE"
  BY <1>3 DEF Written, Records
<1>4. CASE c \notin {"NET", "SEQ", "ROLE"}
  BY <1>4 DEF Written, Records
<1> QED
  BY <1>1, <1>2, <1>3, <1>4

\* A category that does not go through settings_save_one leaves the store
\* as it is.
LEMMA WrittenNoWrite ==
    ASSUME NEW c, NEW b \in Records, ~Writes(c)
    PROVE  Written(c, b) = b
BY WrittenIs DEF Writes, Records

\* schedule_store and the calls built from it only add pending bits.
LEMMA SchedPending ==
    ASSUME NEW s, NEW c
    PROVE  ScheduleStore(s, c).pending = s.pending \cup {c}
BY DEF ScheduleStore

LEMMA StoreSeqPending ==
    ASSUME NEW s, NEW n
    PROVE  /\ s.pending \subseteq StoreSeq(s, n).pending
           /\ "SEQ" \notin StoreSeq(s, n).pending =>
                  SeqRate # 0 /\ n % SeqRate # 0 /\ StoreSeq(s, n) = s
BY SchedPending DEF StoreSeq

LEMMA StoreIvPending ==
    ASSUME NEW s, NEW b
    PROVE  /\ s.pending \cup {"IV"} \subseteq StoreIv(s, b).pending
           /\ ~b => "SEQ" \in StoreIv(s, b).pending
BY SchedPending DEF StoreIv

\* An action that only marks categories keeps ProvInv.
LEMMA MarkOnlyProv ==
    ASSUME ProvInv, pending \subseteq pending',
           UNCHANGED <<valid, net, role, buf, flash, savePending>>
    PROVE  ProvInv'
BY DEF ProvInv, RoleOfValid, NetStored, RoleStored, NetCleared, Flushed

-----------------------------------------------------------------------------
(* One lemma per action.                                                    *)

LEMMA StoreCategoryProv ==
    ASSUME ProvInv, NEW c \in MarkCats, StoreCategory(c)
    PROVE  ProvInv'
<1>1. pending' = pending \cup {c}
  BY SchedPending DEF StoreCategory, SetSched, Sched
<1> QED
  BY <1>1, MarkOnlyProv DEF StoreCategory

LEMMA NextSeqProv ==
    ASSUME ProvInv, NextSeq
    PROVE  ProvInv'
<1>1. pending \subseteq pending'
  BY StoreSeqPending DEF NextSeq, SetSched, Sched
<1> QED
  BY <1>1, MarkOnlyProv DEF NextSeq

LEMMA IvUpdateProv ==
    ASSUME ProvInv, NEW r \in BOOLEAN, IvUpdate(r)
    PROVE  ProvInv'
<1>1. pending \subseteq pending'
  BY StoreIvPending DEF IvUpdate, SetSched, Sched
<1> QED
  BY <1>1, MarkOnlyProv DEF IvUpdate

LEMMA ProvisionProv ==
    ASSUME ProvInv, NEW v \in NetVals, Provision(v)
    PROVE  ProvInv'
<1> DEFINE s1 == ScheduleStore(Sched, "NET")
           s2 == ScheduleStore(s1, "KEYS")
           s3 == StoreIv(s2, FALSE)
           s4 == ScheduleStore(s3, "ROLE")
<1>a. "NET" \in s1.pending
  BY SchedPending
<1>b. "NET" \in s2.pending
  BY <1>a, SchedPending
<1>c. "NET" \in s3.pending
  BY <1>b, StoreIvPending
<1>d. "NET" \in s4.pending /\ "ROLE" \in s4.pending
  BY <1>c, SchedPending
<1>1. "NET" \in pending' /\ "ROLE" \in pending'
  BY <1>d DEF Provision, SetSched
<1>2. valid' /\ role' = Node /\ UNCHANGED <<buf, flash, savePending>>
  BY DEF Provision
<1> QED
  BY <1>1, <1>2
  DEF ProvInv, RoleOfValid, NetStored, RoleStored, NetCleared, Flushed

LEMMA ResetProv ==
    ASSUME ProvInv, Reset
    PROVE  ProvInv'
<1>1. "NET" \in pending'
  BY SchedPending DEF Reset, SetSched, Sched
<1>2. ~valid' /\ UNCHANGED <<buf, flash, savePending>>
  BY DEF Reset
<1> QED
  BY <1>1, <1>2
  DEF ProvInv, RoleOfValid, NetStored, RoleStored, NetCleared, Flushed

LEMMA FlushStepProv ==
    ASSUME TypeOK, ProvInv, FlushStep
    PROVE  ProvInv'
<1> DEFINE c == FlushOrder[wpc]
<1>0. /\ pending' = pending \ {c}
      /\ buf' = IF c \in pending THEN Written(c, buf) ELSE buf
      /\ savePending' = (savePending \/ (c \in pending /\ Writes(c)))
      /\ UNCHANGED <<valid, net, role, flash>>
      /\ buf \in Records
  BY DEF FlushStep, TypeOK
<1>1. RoleOfValid'
  BY <1>0 DEF ProvInv, RoleOfValid
<1>2. Flushed'
  <2>1. ~savePending' => buf' = buf
    BY <1>0, WrittenNoWrite
  <2> QED
    BY <1>0, <2>1 DEF ProvInv, Flushed
<1>3. NetStored'
  <2>1. CASE c = "NET" /\ c \in pending
    BY <1>0, <2>1, WrittenIs DEF NetStored
  <2>2. CASE ~(c = "NET" /\ c \in pending)
    <3>1. buf'.net = buf.net
      BY <1>0, <2>2, WrittenIs
    <3> QED
      BY <1>0, <2>2, <3>1 DEF ProvInv, NetStored
  <2> QED
    BY <2>1, <2>2
<1>4. RoleStored'
  <2>1. CASE c = "ROLE" /\ c \in pending
    BY <1>0, <2>1, WrittenIs DEF ProvInv, RoleOfValid, RoleStored
  <2>2. CASE ~(c = "ROLE" /\ c \in pending)
    <3>1. buf'.role = Node \/ buf'.role = buf.role
      BY <1>0, <2>2, WrittenIs
    <3> QED
      BY <1>0, <2>2, <3>1 DEF ProvInv, RoleStored
  <2> QED
    BY <2>1, <2>2
<1>5. NetCleared'
  <2>1. CASE c = "NET" /\ c \in pending
    BY <1>0, <2>1, WrittenIs DEF NetCleared
  <2>2. CASE ~(c = "NET" /\ c \in pending)
    <3>1. buf'.net = buf.net
      BY <1>0, <2>2, WrittenIs
    <3>2. role # Node => buf'.role = buf.role
      BY <1>0, WrittenIs
    <3> QED
      BY <1>0, <2>2, <3>1, <3>2 DEF ProvInv, NetCleared
  <2> QED
    BY <2>1, <2>2
<1> QED
  BY <1>1, <1>2, <1>3, <1>4, <1>5 DEF ProvInv

LEMMA SettingsFlushProv ==
    ASSUME ProvInv, SettingsFlush
    PROVE  ProvInv'
BY DEF SettingsFlush, ProvInv, RoleOfValid, NetStored, RoleStored,
       NetCleared, Flushed

LEMMA RebootProv ==
    ASSUME TypeOK, Reboot
    PROVE  ProvInv'
<1>0. /\ buf' = flash /\ ~savePending' /\ pending' = {}
      /\ valid' = (flash.role = Node /\ flash.net # Absent)
      /\ net' = IF flash.net = Absent THEN NoNet ELSE flash.net
      /\ role' = IF flash.role = Node THEN Node ELSE NoRole
      /\ flash' = flash
  BY DEF Reboot, Committed, RoleMatches, CommitValid
<1>1. Node # NoRole
  BY DEF Node, NoRole
<1> QED
  BY <1>0, <1>1
  DEF ProvInv, RoleOfValid, NetStored, RoleStored, NetCleared, Flushed

LEMMA TickStartProv ==
    ASSUME ProvInv, Tick \/ StartFlush
    PROVE  ProvInv'
BY DEF Tick, StartFlush, ProvInv, RoleOfValid, NetStored, RoleStored,
       NetCleared, Flushed

LEMMA InitProv == Init => ProvInv
BY DEF Init, ProvInv, RoleOfValid, NetStored, RoleStored, NetCleared, Flushed

LEMMA NextProv ==
    ASSUME IInv, ProvInv, [Next]_vars
    PROVE  ProvInv'
<1>0. TypeOK
  BY DEF IInv, TypeInv
<1>1. CASE UNCHANGED vars
  BY <1>1 DEF vars, ProvInv, RoleOfValid, NetStored, RoleStored,
              NetCleared, Flushed
<1> QED
  BY <1>0, <1>1, StoreCategoryProv, NextSeqProv, ProvisionProv, ResetProv,
     IvUpdateProv, TickStartProv, FlushStepProv, SettingsFlushProv,
     RebootProv DEF Next

-----------------------------------------------------------------------------
(* The inductive invariant of SeqDurable.                                   *)

\* The largest counter a run reaches: MaxSeq rounded up by seq_set_bin.
SeqTop == RestoreSeq(MaxSeq)

\* Every counter, in RAM or in a record, stays at or below SeqTop.
SeqBounded ==
    /\ seq <= SeqTop
    /\ buf.seq \in Nat => buf.seq <= SeqTop
    /\ flash.seq \in Nat => flash.seq <= SeqTop

\* A valid node has not yet sent the number bt_mesh.seq holds.
SentBelow == valid => lastSent < seq

\* Once the SEQ bit is clear, the RAM store holds a Seq record whose
\* round-up is not behind the counter (bt_mesh_store_seq marks SEQ when the
\* counter reaches the next multiple of the store rate).
SeqAhead ==
    valid /\ "SEQ" \notin pending =>
        buf.seq \in Nat /\ seq <= RestoreSeq(buf.seq)

\* No store holds the role without a Seq record, and while the RAM store
\* has none, a node that has the role has SEQ pending and store_pending
\* has not passed it (SEQ is fifth in the walk, ROLE tenth).
SeqBeforeRole ==
    /\ flash.seq = Absent => flash.role # Node
    /\ buf.seq = Absent =>
           /\ buf.role # Node
           /\ role = Node => "SEQ" \in pending /\ wpc \in 0..5

\* When only the provisioning calls mark categories, a node that was never
\* provisioned since its boot has nothing pending and no walk running.
Unprovisioned ==
    MarkCats = {} /\ role # Node =>
        pending = {} /\ wpc = 0 /\ ~queued /\ timer = 0

SeqInv == SeqBounded /\ SentBelow /\ SeqAhead /\ SeqBeforeRole /\ Unprovisioned

\* No walk of store_pending can be past SEQ when bt_mesh_provision runs:
\* either API calls never preempt the walk, or nothing but the provisioning
\* calls of this model marks a category, so no walk runs before it.
NoEarlyWalk == ~Preemptive \/ MarkCats = {}

-----------------------------------------------------------------------------
(* Lemmas about the Seq arithmetic.                                        *)

\* seq_set_bin rounds up to the last counter of a block of SeqRate.
LEMMA RestoreBlockEnd ==
    ASSUME NEW s \in Nat, SeqRate > 0
    PROVE  (RestoreSeq(s) + 1) % SeqRate = 0
<1> DEFINE q == s \div SeqRate
<1>1. s = q * SeqRate + (s % SeqRate) /\ q \in Nat
  BY SMT
<1>2. RestoreSeq(s) + 1 = (q + 1) * SeqRate
  BY <1>1, AbsentAssumption, SMT DEF RestoreSeq
<1>3. ((q + 1) * SeqRate) % SeqRate = 0
  BY <1>1, SMT
<1> QED
  BY <1>2, <1>3

LEMMA SeqTopFacts ==
    /\ SeqTop \in Nat
    /\ MaxSeq <= SeqTop
    /\ SeqTop < 16777216
<1>1. SeqTop \in Nat /\ MaxSeq <= SeqTop
  BY RestoreSeqNat, RestoreNotBehind DEF SeqTop
<1>2. CASE SeqRate > 0
  <2>1. MaxSeq % SeqRate \in 0..(SeqRate - 1)
    BY <1>2, SMT
  <2> QED
    BY <1>2, <2>1, SeqWidthAssumption, AbsentAssumption, SMT
    DEF SeqTop, RestoreSeq
<1>3. CASE SeqRate = 0
  BY <1>3, SeqWidthAssumption, AbsentAssumption, SMT DEF SeqTop, RestoreSeq
<1> QED
  BY <1>1, <1>2, <1>3

\* The round-up of a counter at or below SeqTop stays at or below it.
LEMMA RestoreWithinTop ==
    ASSUME NEW s \in Nat, s <= SeqTop
    PROVE  RestoreSeq(s) <= SeqTop
<1>1. CASE SeqRate > 0
  <2> DEFINE q == s \div SeqRate
             k == MaxSeq \div SeqRate
  <2>1. s = q * SeqRate + (s % SeqRate) /\ s % SeqRate \in 0..(SeqRate - 1)
    BY <1>1, SMT
  <2>2. MaxSeq = k * SeqRate + (MaxSeq % SeqRate)
        /\ MaxSeq % SeqRate \in 0..(SeqRate - 1)
    BY <1>1, SMT
  <2>3. SeqTop = (k + 1) * SeqRate - 1
    BY <1>1, <2>2, AbsentAssumption, SMT DEF SeqTop, RestoreSeq
  <2>4. q * SeqRate < (k + 1) * SeqRate
    BY <2>1, <2>3, SMT
  <2>5. q <= k
    BY <1>1, <2>4, SMT
  <2>6. (q + 1) * SeqRate <= (k + 1) * SeqRate
    BY <1>1, <2>5, SMT
  <2> QED
    BY <1>1, <2>1, <2>3, <2>6, AbsentAssumption, SMT DEF RestoreSeq
<1>2. CASE SeqRate = 0
  BY <1>2, AbsentAssumption DEF RestoreSeq
<1> QED
  BY <1>1, <1>2

\* store_pending_seq and seq_set_bin give back a counter within the run.
LEMMA SeqRecordExact ==
    ASSUME NEW c \in Nat, c <= SeqTop
    PROVE  SeqOfVal(SeqVal(c)) = c
<1>1. c < 16777216
  BY SeqTopFacts, SMT
<1> QED
  BY <1>1, SeqValRoundTrip, SMT

-----------------------------------------------------------------------------
(* SeqInv, one lemma per action.                                            *)

LEMMA StoreCategorySeq ==
    ASSUME SeqInv, NEW c \in MarkCats, StoreCategory(c)
    PROVE  SeqInv'
<1>1. pending \subseteq pending'
  BY SchedPending DEF StoreCategory, SetSched, Sched
<1>2. MarkCats # {}
  OBVIOUS
<1> QED
  BY <1>1, <1>2 DEF StoreCategory, SeqInv, SeqBounded, SentBelow, SeqAhead,
                    SeqBeforeRole, Unprovisioned

LEMMA NextSeqSeq ==
    ASSUME TypeOK, ProvInv, SeqInv, NextSeq
    PROVE  SeqInv'
<1>1. pending \subseteq pending'
  BY StoreSeqPending DEF NextSeq, SetSched, Sched
<1>2. /\ seq' = seq + 1 /\ lastSent' = seq /\ valid /\ seq < MaxSeq
      /\ UNCHANGED <<wpc, valid, role, buf, flash>>
  BY DEF NextSeq
<1>3. role = Node
  BY <1>2 DEF ProvInv, RoleOfValid
<1>4. SeqBounded'
  BY <1>2, SeqTopFacts DEF SeqInv, SeqBounded, TypeOK
<1>5. SentBelow'
  BY <1>2 DEF SentBelow, TypeOK
<1>6. SeqAhead'
  <2>1. SUFFICES ASSUME "SEQ" \notin pending'
                 PROVE  buf.seq \in Nat /\ seq + 1 <= RestoreSeq(buf.seq)
    BY <1>2 DEF SeqAhead
  <2>2. /\ SeqRate # 0 /\ (seq + 1) % SeqRate # 0
        /\ StoreSeq(Sched, seq + 1) = Sched
    BY <2>1, StoreSeqPending DEF NextSeq, SetSched
  <2>3. "SEQ" \notin pending
    BY <2>1, <2>2 DEF NextSeq, SetSched, Sched
  <2>4. buf.seq \in Nat /\ seq <= RestoreSeq(buf.seq)
    BY <1>2, <2>3 DEF SeqInv, SeqAhead
  <2>5. /\ (RestoreSeq(buf.seq) + 1) % SeqRate = 0
        /\ RestoreSeq(buf.seq) \in Nat
    BY <2>2, <2>4, RestoreBlockEnd, RestoreSeqNat, SeqAssumption
  <2> QED
    BY <2>2, <2>4, <2>5, SeqAssumption, SMT DEF TypeOK
<1>7. SeqBeforeRole'
  BY <1>1, <1>2 DEF SeqInv, SeqBeforeRole
<1>8. Unprovisioned'
  BY <1>2, <1>3 DEF Unprovisioned
<1> QED
  BY <1>4, <1>5, <1>6, <1>7, <1>8 DEF SeqInv

LEMMA ResetSeq ==
    ASSUME TypeOK, ProvInv, SeqInv, Reset
    PROVE  SeqInv'
<1>1. pending \subseteq pending'
  BY SchedPending DEF Reset, SetSched, Sched
<1>2. /\ ~valid' /\ seq' = 0 /\ valid
      /\ UNCHANGED <<wpc, role, buf, flash>>
  BY DEF Reset
<1>3. role = Node
  BY <1>2 DEF ProvInv, RoleOfValid
<1>4. SeqBounded'
  BY <1>2, SeqTopFacts DEF SeqInv, SeqBounded
<1> QED
  BY <1>1, <1>2, <1>3, <1>4
  DEF SeqInv, SentBelow, SeqAhead, SeqBeforeRole, Unprovisioned

LEMMA IvUpdateSeq ==
    ASSUME TypeOK, ProvInv, SeqInv, NEW r \in BOOLEAN, IvUpdate(r)
    PROVE  SeqInv'
<1>1. pending \subseteq pending' /\ (r => "SEQ" \in pending')
  BY StoreIvPending DEF IvUpdate, SetSched, Sched
<1>2. /\ seq' = IF r THEN 0 ELSE seq
      /\ lastSent' = IF r THEN -1 ELSE lastSent
      /\ valid /\ UNCHANGED <<wpc, valid, role, buf, flash>>
  BY DEF IvUpdate
<1>3. role = Node
  BY <1>2 DEF ProvInv, RoleOfValid
<1>4. SeqBounded' /\ SentBelow'
  BY <1>2, SeqTopFacts DEF SeqInv, SeqBounded, SentBelow, TypeOK
<1>5. SeqAhead'
  BY <1>1, <1>2 DEF SeqInv, SeqAhead
<1> QED
  BY <1>1, <1>2, <1>3, <1>4, <1>5
  DEF SeqInv, SeqBeforeRole, Unprovisioned

LEMMA TickStartSeq ==
    ASSUME SeqInv, Tick \/ StartFlush
    PROVE  SeqInv'
<1>1. CASE Tick
  BY <1>1 DEF Tick, SeqInv, SeqBounded, SentBelow, SeqAhead, SeqBeforeRole,
              Unprovisioned
<1>2. CASE StartFlush
  BY <1>2 DEF StartFlush, SeqInv, SeqBounded, SentBelow, SeqAhead,
              SeqBeforeRole, Unprovisioned
<1> QED
  BY <1>1, <1>2

LEMMA ProvisionSeq ==
    ASSUME TypeOK, SeqInv, NoEarlyWalk, NEW v \in NetVals, Provision(v)
    PROVE  SeqInv'
<1> DEFINE s1 == ScheduleStore(Sched, "NET")
           s2 == ScheduleStore(s1, "KEYS")
           s3 == StoreIv(s2, FALSE)
           s4 == ScheduleStore(s3, "ROLE")
<1>a. "SEQ" \in s3.pending
  BY StoreIvPending
<1>b. "SEQ" \in s4.pending
  BY <1>a, SchedPending
<1>1. "SEQ" \in pending'
  BY <1>b DEF Provision, SetSched
<1>2. /\ seq' = 0 /\ lastSent' = -1 /\ valid' /\ role' = Node
      /\ UNCHANGED <<wpc, buf, flash>> /\ CallAllowed
  BY DEF Provision
\* The walk has not passed SEQ, or the RAM store already has a Seq record.
<1>3. buf.seq = Absent => wpc \in 0..5
  <2>1. CASE ~Preemptive
    BY <1>2, <2>1 DEF CallAllowed
  <2>2. CASE MarkCats = {} /\ role = Node
    BY <2>2 DEF SeqInv, SeqBeforeRole
  <2>3. CASE MarkCats = {} /\ role # Node
    BY <2>3 DEF SeqInv, Unprovisioned
  <2> QED
    BY <2>1, <2>2, <2>3 DEF NoEarlyWalk
<1>4. SeqBounded'
  BY <1>2, SeqTopFacts DEF SeqInv, SeqBounded
<1> QED
  BY <1>1, <1>2, <1>3, <1>4
  DEF SeqInv, SentBelow, SeqAhead, SeqBeforeRole, Unprovisioned

\* SEQ and ROLE are the fifth and tenth categories of store_pending.
LEMMA FlushOrderPlaces ==
    \A w \in 1..NCat : /\ FlushOrder[w] = "SEQ" <=> w = 5
                       /\ FlushOrder[w] = "ROLE" <=> w = 10
BY DEF FlushOrder, NCat

LEMMA FlushStepSeq ==
    ASSUME TypeOK, SeqInv, FlushStep
    PROVE  SeqInv'
<1> DEFINE c == FlushOrder[wpc]
<1>0. /\ wpc \in 1..NCat
      /\ pending' = pending \ {c}
      /\ buf' = IF c \in pending THEN Written(c, buf) ELSE buf
      /\ wpc' = IF wpc = NCat THEN 0 ELSE wpc + 1
      /\ UNCHANGED <<valid, seq, role, flash, lastSent>>
      /\ buf \in Records
  BY DEF FlushStep, TypeOK
<1>1. /\ buf'.seq = IF c = "SEQ" /\ c \in pending THEN seq ELSE buf.seq
      /\ buf'.role = IF c = "ROLE" /\ c \in pending /\ role = Node
                     THEN Node ELSE buf.role
  <2>1. SeqOfVal(SeqVal(seq)) = seq
    BY SeqRecordExact DEF TypeOK, SeqInv, SeqBounded
  <2> QED
    BY <1>0, <2>1, WrittenIs
<1>2. (c = "SEQ" <=> wpc = 5) /\ (c = "ROLE" <=> wpc = 10)
  BY <1>0, FlushOrderPlaces
<1>3. SeqBounded' /\ SentBelow'
  BY <1>0, <1>1 DEF SeqInv, SeqBounded, SentBelow
<1>4. SeqAhead'
  <2>1. CASE c = "SEQ" /\ c \in pending
    BY <1>0, <1>1, <2>1, RestoreNotBehind DEF SeqAhead, TypeOK
  <2>2. CASE ~(c = "SEQ" /\ c \in pending)
    BY <1>0, <1>1, <2>2 DEF SeqInv, SeqAhead
  <2> QED
    BY <2>1, <2>2
<1>5. SeqBeforeRole'
  <2>1. flash'.seq = Absent => flash'.role # Node
    BY <1>0 DEF SeqInv, SeqBeforeRole
  <2>2. SUFFICES ASSUME buf'.seq = Absent
                 PROVE  /\ buf'.role # Node
                        /\ role' = Node => "SEQ" \in pending' /\ wpc' \in 0..5
    BY <2>1 DEF SeqBeforeRole
  <2>3. buf.seq = Absent /\ ~(c = "SEQ" /\ c \in pending)
    BY <1>1, <2>2, AbsentAssumption DEF TypeOK
  <2>4. role = Node => "SEQ" \in pending /\ wpc \in 1..4
    BY <1>0, <1>2, <2>3 DEF SeqInv, SeqBeforeRole
  <2>5. buf'.role # Node
    BY <1>1, <1>2, <2>3, <2>4 DEF SeqInv, SeqBeforeRole
  <2> QED
    BY <1>0, <1>2, <2>4, <2>5 DEF NCat
<1>6. Unprovisioned'
  BY <1>0 DEF SeqInv, Unprovisioned
<1> QED
  BY <1>3, <1>4, <1>5, <1>6 DEF SeqInv

LEMMA SettingsFlushSeq ==
    ASSUME SeqInv, SettingsFlush
    PROVE  SeqInv'
BY DEF SettingsFlush, SeqInv, SeqBounded, SentBelow, SeqAhead,
       SeqBeforeRole, Unprovisioned

LEMMA RebootSeq ==
    ASSUME TypeOK, SeqInv, Reboot
    PROVE  SeqInv'
<1>0. /\ buf' = flash /\ flash' = flash /\ pending' = {} /\ wpc' = 0
      /\ ~queued' /\ timer' = 0 /\ lastSent' = -1
      /\ seq' = RestoreSeq(flash.seq)
      /\ valid' = (flash.role = Node /\ flash.net # Absent)
      /\ role' = IF flash.role = Node THEN Node ELSE NoRole
  BY DEF Reboot, Committed, RoleMatches, CommitValid
<1>1. Node # NoRole
  BY DEF Node, NoRole
<1>2. flash.seq \in Nat \cup {Absent}
  BY DEF TypeOK, Records
<1>3. seq' \in Nat /\ seq' <= SeqTop
  <2>1. CASE flash.seq = Absent
    BY <1>0, <2>1, SeqTopFacts DEF RestoreSeq
  <2>2. CASE flash.seq \in Nat
    BY <1>0, <2>2, RestoreWithinTop, RestoreSeqNat DEF SeqInv, SeqBounded
  <2> QED
    BY <1>2, <2>1, <2>2
<1>4. SeqAhead'
  <2>1. valid' => flash.seq \in Nat
    BY <1>0, <1>2 DEF SeqInv, SeqBeforeRole
  <2> QED
    BY <1>0, <2>1, RestoreSeqNat DEF SeqAhead
<1> QED
  BY <1>0, <1>1, <1>3, <1>4
  DEF SeqInv, SeqBounded, SentBelow, SeqBeforeRole, Unprovisioned

LEMMA InitSeq == Init => SeqInv
<1> SUFFICES ASSUME Init PROVE SeqInv
  OBVIOUS
<1>1. SeqBounded
  BY SeqTopFacts, SMT DEF Init, SeqBounded
<1>2. Node # NoRole
  BY DEF Node, NoRole
<1> QED
  BY <1>1, <1>2 DEF Init, SeqInv, SentBelow, SeqAhead, SeqBeforeRole,
                    Unprovisioned

LEMMA NextSeqInv ==
    ASSUME IInv, ProvInv, SeqInv, NoEarlyWalk, [Next]_vars
    PROVE  SeqInv'
<1>0. TypeOK
  BY DEF IInv, TypeInv
<1>1. CASE UNCHANGED vars
  BY <1>1 DEF vars, SeqInv, SeqBounded, SentBelow, SeqAhead, SeqBeforeRole,
              Unprovisioned
<1> QED
  BY <1>0, <1>1, StoreCategorySeq, NextSeqSeq, ProvisionSeq, ResetSeq,
     IvUpdateSeq, TickStartSeq, FlushStepSeq, SettingsFlushSeq, RebootSeq
  DEF Next

-----------------------------------------------------------------------------
(* Theorems.                                                                *)

\* For every choice of the constants, once no category is pending, no walk
\* runs and everything written is committed, a power cycle brings the node
\* back exactly as provisioned as it is now, with the same network
\* (store_pending_net / clear_net, store_pending_role,
\* bt_mesh_settings_flush, settings_load's role check, mesh_commit).
THEOREM ProvisioningDurableHolds == Spec => []ProvisioningDurable
<1>1. Init => IInv /\ ProvInv
  BY InitIInv, InitProv
<1>2. IInv /\ ProvInv /\ [Next]_vars => IInv' /\ ProvInv'
  BY NextIInv, NextProv
<1>3. IInv /\ ProvInv => ProvisioningDurable
  <2> SUFFICES ASSUME IInv, ProvInv, Quiescent
               PROVE  Committed(flash) = valid /\ (valid => flash.net = net)
    BY DEF ProvisioningDurable
  <2>1. flash = buf /\ pending = {}
    BY DEF Quiescent, ProvInv, Flushed
  <2>2. valid => net \in NetVals
    BY DEF IInv, TypeInv
  <2>3. Node # NoRole
    BY DEF Node, NoRole
  <2>4. valid \in BOOLEAN
    BY DEF IInv, TypeInv, TypeOK
  <2> QED
    BY <2>1, <2>2, <2>3, <2>4
    DEF ProvInv, RoleOfValid, NetStored, RoleStored, NetCleared,
        Committed, RoleMatches, CommitValid
<1> QED
  BY <1>1, <1>2, <1>3, PTL DEF Spec

\* A counter restored after a power cycle is never one this boot and IV
\* epoch already sent, once the Seq record the RAM store holds is the one
\* committed to flash (bt_mesh_store_seq marking SEQ at every multiple of
\* CONFIG_BT_MESH_SEQ_STORE_RATE, store_pending_seq, seq_set_bin rounding
\* up).  It holds when no store_pending walk can be past SEQ as
\* bt_mesh_provision marks NET, SEQ and ROLE: API calls do not preempt the
\* walk, or nothing else marks a category.  Without that, a walk resumed
\* after Provision writes ROLE but not SEQ, and a flush commits a Role
\* record with no Seq record (see the README).
THEOREM SeqDurableHolds == NoEarlyWalk => (Spec => []SeqDurable)
<1> SUFFICES ASSUME NoEarlyWalk PROVE Spec => []SeqDurable
  OBVIOUS
<1>1. Init => IInv /\ ProvInv /\ SeqInv
  BY InitIInv, InitProv, InitSeq
<1>2. IInv /\ ProvInv /\ SeqInv /\ [Next]_vars
          => IInv' /\ ProvInv' /\ SeqInv'
  BY NextIInv, NextProv, NextSeqInv
<1>3. SeqInv /\ IInv => SeqDurable
  <2> SUFFICES ASSUME SeqInv, IInv, valid, "SEQ" \notin pending,
                      flash.seq = buf.seq
               PROVE  RestoreSeq(flash.seq) > lastSent
    BY DEF SeqDurable
  <2>1. buf.seq \in Nat /\ seq <= RestoreSeq(buf.seq) /\ lastSent < seq
    BY DEF SeqInv, SeqAhead, SentBelow
  <2>2. RestoreSeq(buf.seq) \in Nat /\ seq \in Nat /\ lastSent \in Int
    BY <2>1, RestoreSeqNat DEF IInv, TypeInv, TypeOK
  <2> QED
    BY <2>1, <2>2, SMT
<1> QED
  BY <1>1, <1>2, <1>3, PTL DEF Spec

=============================================================================
