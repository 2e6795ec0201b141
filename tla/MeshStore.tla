----------------------------- MODULE MeshStore -----------------------------
(***************************************************************************)
(* The dirty tracker, the deferred flush and the buffered key-value store *)
(* of the mesh persistence layer (src/.../mesh/src/settings.c).            *)
(*                                                                         *)
(* Protocol code marks a category dirty (schedule_store), which arms the   *)
(* single delayed work item pending_store with a timeout chosen from the   *)
(* set of pending categories.  When it fires, store_pending walks the      *)
(* categories in a fixed order, test-and-clears each flag and writes that  *)
(* category's record through settings_save_one (conf_save_one), which only *)
(* updates the RAM view of the store; bt_mesh_settings_flush commits it to *)
(* flash.  A reboot reloads the RAM state from flash (conf_load) and       *)
(* re-activates it (bt_mesh_settings_load / mesh_commit).                  *)
(*                                                                         *)
(* Of the records, this module keeps the data of the network record (Net), *)
(* the sequence number (Seq) and the role (Role); the other categories are *)
(* kept as flags only and refined by later modules.                        *)
(***************************************************************************)
EXTENDS Naturals, Integers

CONSTANTS
    ShortT,     \* CONFIG_MESH_STORE_WORKAROUND_FLASH_FLUSH_TIMEOUT, in ticks
    RplT,       \* K_SECONDS(CONFIG_BT_MESH_RPL_STORE_TIMEOUT), in ticks
    StoreT,     \* K_SECONDS(CONFIG_BT_MESH_STORE_TIMEOUT), in ticks
    SeqRate,    \* CONFIG_BT_MESH_SEQ_STORE_RATE
    MaxSeq,     \* bound on the sequence counter explored
    NetVals,    \* primary address and device key given at provisioning
    MarkCats,   \* categories protocol code marks with no modelled data
    Preemptive, \* API calls may run while store_pending is mid-walk
    Absent      \* no record under a key (a zero-length value)

ASSUME TimeoutsAssumption == /\ ShortT \in Nat \ {0}
                             /\ RplT \in Nat \ {0}
                             /\ StoreT \in Nat \ {0}
ASSUME SeqAssumption == SeqRate \in Nat /\ MaxSeq \in Nat
\* The counter explored fits the 24 bits of the Seq record.
ASSUME SeqWidthAssumption == MaxSeq + SeqRate < 16777216

\* The pending bits of bt_mesh.flags, in the order store_pending tests them.
FlushOrder == <<"RPL", "KEYS", "NET", "IV", "SEQ", "HBPUB", "CFG", "MOD",
                "VA", "ROLE", "NODES">>
NCat == 11
Cats == {FlushOrder[i] : i \in 1..NCat}

ASSUME MarkCatsAssumption == MarkCats \subseteq Cats

\* NO_WAIT_PENDING_BITS and GENERIC_PENDING_BITS (RPL and VA are in neither).
NoWaitCats == {"NET", "IV", "ROLE"}
GenericCats == {"KEYS", "HBPUB", "CFG", "MOD", "SEQ", "NODES"}

NoNet == "nonet"            \* unprovisioned: no primary address, zeroed key
Node == "node"              \* the BT_MESH_NODE role bit
NoRole == "norole"          \* neither role bit set

ASSUME PreemptiveAssumption == Preemptive \in BOOLEAN

ASSUME AbsentAssumption == Absent \notin Nat \cup NetVals \cup {Node}

MaxT == IF RplT >= StoreT /\ RplT >= ShortT THEN RplT
        ELSE IF StoreT >= ShortT THEN StoreT ELSE ShortT

VARIABLES
    pending,    \* the *_PENDING bits set in bt_mesh.flags
    timer,      \* k_delayed_work_remaining_get(&pending_store); 0 = not armed
    queued,     \* the expired pending_store work waits for the worker
    wpc,        \* store_pending: index of the next category; 0 = not running
    valid,      \* the BT_MESH_VALID bit
    net,        \* bt_mesh primary address and dev_key
    seq,        \* bt_mesh.seq, the next sequence number to send
    role,       \* the BT_MESH_NODE bit
    buf,        \* the store as seen by writes and by conf_load (RAM view)
    flash,      \* the store as committed by tls_mesh_store_flush
    savePending,\* conf_save_pending
    due,        \* ghost: ticks left before a pending category must be written
    lastSent    \* ghost: last sequence number sent in this boot and epoch

vars == <<pending, timer, queued, wpc, valid, net, seq, role, buf, flash,
          savePending, due, lastSent>>

Records == [net : NetVals \cup {Absent}, seq : Nat \cup {Absent},
            role : {Node, Absent}]

TypeOK ==
    /\ pending \subseteq Cats
    /\ timer \in 0..MaxT
    /\ queued \in BOOLEAN
    /\ wpc \in 0..NCat
    /\ valid \in BOOLEAN
    /\ net \in NetVals \cup {NoNet}
    /\ seq \in Nat
    /\ role \in {Node, NoRole}
    /\ buf \in Records
    /\ flash \in Records
    /\ savePending \in BOOLEAN
    /\ due \in [Cats -> 0..MaxT]
    /\ lastSent \in Nat \cup {-1}

-----------------------------------------------------------------------------
(* schedule_store: the timeout policy and the earliest-deadline rule.      *)

\* The timeout schedule_store computes for the pending set p.
StoreTimeout(p) ==
    IF p \cap NoWaitCats # {} THEN ShortT
    ELSE IF "RPL" \in p /\ (p \cap GenericCats = {} \/ RplT < StoreT)
         THEN RplT
         ELSE StoreT

\* Ghost: the longest delay the policy can give category c when it is marked.
Bound(c) ==
    IF c \in NoWaitCats THEN ShortT
    ELSE IF c \in GenericCats THEN (IF ShortT >= StoreT THEN ShortT ELSE StoreT)
    ELSE MaxT

\* Variants of schedule_store with a plausible slip: the `remaining &&`
\* test dropped, so an idle timer reads as an earlier deadline and is left
\* unarmed; and the earliest-deadline test dropped, so every mark re-arms.
ScheduleStoreNoArm(s, c) ==
    LET p == s.pending \cup {c}
        t == StoreTimeout(p)
    IN  [pending |-> p,
         timer |-> IF s.timer < t THEN s.timer ELSE t,
         due |-> IF c \in s.pending THEN s.due
                 ELSE [s.due EXCEPT ![c] = Bound(c)]]

ScheduleStoreAlwaysRearm(s, c) ==
    LET p == s.pending \cup {c}
    IN  [pending |-> p,
         timer |-> StoreTimeout(p),
         due |-> IF c \in s.pending THEN s.due
                 ELSE [s.due EXCEPT ![c] = Bound(c)]]

\* schedule_store(flag) applied to the scheduler part s of the state.
ScheduleStore(s, c) ==
    LET p == s.pending \cup {c}
        t == StoreTimeout(p)
    IN  [pending |-> p,
         timer |-> IF s.timer # 0 /\ s.timer < t THEN s.timer ELSE t,
         due |-> IF c \in s.pending THEN s.due
                 ELSE [s.due EXCEPT ![c] = Bound(c)]]

Sched == [pending |-> pending, timer |-> timer, due |-> due]

\* Set the scheduler variables to the scheduler state s.
SetSched(s) == /\ pending' = s.pending
               /\ timer' = s.timer
               /\ due' = s.due

\* The API is called from the task that runs the pending_store work unless
\* Preemptive: then a call may land between two steps of store_pending.
CallAllowed == Preemptive \/ wpc = 0

\* Categories marked by the API functions whose only effect is
\* schedule_store: bt_mesh_store_rpl (the entry's store bit aside),
\* bt_mesh_store_hb_pub, bt_mesh_store_cfg(false), bt_mesh_store_mod_*,
\* bt_mesh_store_label.
StoreCategory(c) ==
    /\ CallAllowed
    /\ SetSched(ScheduleStore(Sched, c))
    /\ UNCHANGED <<queued, wpc, valid, net, seq, role, buf, flash,
                   savePending, lastSent>>

\* A variant of bt_mesh_store_seq that tests the counter before the
\* increment of bt_mesh_next_seq.
StoreSeqBeforeIncrement(sch, s) ==
    IF SeqRate # 0 /\ (s - 1) % SeqRate # 0 THEN sch
    ELSE ScheduleStore(sch, "SEQ")

\* bt_mesh_store_seq, after bt_mesh_next_seq has advanced the counter to s.
StoreSeq(sch, s) ==
    IF SeqRate # 0 /\ s % SeqRate # 0 THEN sch ELSE ScheduleStore(sch, "SEQ")

\* bt_mesh_store_iv(only_duration).
StoreIv(sch, onlyDuration) ==
    IF onlyDuration THEN ScheduleStore(sch, "IV")
    ELSE ScheduleStore(ScheduleStore(sch, "IV"), "SEQ")

-----------------------------------------------------------------------------
(* Protocol events that change the persisted data (outside settings.c).    *)

\* bt_mesh_next_seq: send one message with the next sequence number.
NextSeq ==
    /\ CallAllowed
    /\ valid
    /\ seq < MaxSeq
    /\ seq' = seq + 1
    /\ lastSent' = seq
    /\ SetSched(StoreSeq(Sched, seq + 1))
    /\ UNCHANGED <<queued, wpc, valid, net, role, buf, flash, savePending>>

\* bt_mesh_provision: become a provisioned node and store net, the primary
\* subnet, IV/Seq and the role.
Provision(v) ==
    /\ CallAllowed
    /\ ~valid
    /\ valid' = TRUE
    /\ net' = v
    /\ seq' = 0
    /\ role' = Node
    /\ lastSent' = -1
    /\ SetSched(ScheduleStore(StoreIv(ScheduleStore(ScheduleStore(
           Sched, "NET"), "KEYS"), FALSE), "ROLE"))
    /\ UNCHANGED <<queued, wpc, buf, flash, savePending>>

\* bt_mesh_reset: leave the network; bt_mesh_clear_net marks NET, IV, CFG.
Reset ==
    /\ CallAllowed
    /\ valid
    /\ valid' = FALSE
    /\ net' = NoNet
    /\ seq' = 0
    /\ SetSched(ScheduleStore(ScheduleStore(ScheduleStore(
           Sched, "NET"), "IV"), "CFG"))
    /\ UNCHANGED <<queued, wpc, role, buf, flash, savePending, lastSent>>

\* bt_mesh_net_iv_update: a completed IV Update restarts the sequence
\* numbers; the IV duration counter stores the IV record only.
IvUpdate(restart) ==
    /\ CallAllowed
    /\ valid
    /\ seq' = IF restart THEN 0 ELSE seq
    /\ lastSent' = IF restart THEN -1 ELSE lastSent
    /\ SetSched(StoreIv(Sched, ~restart))
    /\ UNCHANGED <<queued, wpc, valid, net, role, buf, flash, savePending>>

-----------------------------------------------------------------------------
(* The pending_store work item and store_pending.                          *)

\* One tick of the delayed work timer; at expiry the work is queued.  The
\* worker runs queued work before the next tick.
Tick ==
    /\ timer > 0
    /\ ~queued
    /\ wpc = 0
    /\ timer' = timer - 1
    /\ queued' = (timer = 1)
    /\ due' = [c \in Cats |-> IF c \in pending /\ due[c] > 0
                              THEN due[c] - 1 ELSE due[c]]
    /\ UNCHANGED <<pending, wpc, valid, net, seq, role, buf, flash,
                   savePending, lastSent>>

\* The worker takes the queued store_pending call.
StartFlush ==
    /\ queued
    /\ wpc = 0
    /\ queued' = FALSE
    /\ wpc' = 1
    /\ UNCHANGED <<pending, timer, valid, net, seq, role, buf, flash,
                   savePending, due, lastSent>>

\* A variant of store_pending_seq whose third byte repeats the shift of
\* the second.
SeqValNoHigh(s) == <<s % 256, (s \div 256) % 256, (s \div 256) % 256>>

\* store_pending_seq: struct seq_val, the three bytes of bt_mesh.seq, each
\* the counter shifted right by 0, 8 and 16 bits and truncated to a u8.
SeqVal(s) == <<s % 256, (s \div 256) % 256, (s \div 65536) % 256>>

\* seq_set_bin: the counter the three bytes of a full-length record give.
SeqOfVal(v) == v[1] + 256 * v[2] + 65536 * v[3]

\* A variant of the NET write that calls store_pending_net whether or not
\* BT_MESH_VALID is set: an unprovisioned node then stores a full-length
\* record of its zeroed address and key.
WrittenIgnoringValid(c, b) ==
    CASE c = "NET"  -> [b EXCEPT !.net = net]
      [] c = "SEQ"  -> [b EXCEPT !.seq = SeqOfVal(SeqVal(seq))]
      [] c = "ROLE" -> IF role = Node THEN [b EXCEPT !.role = Node] ELSE b
      [] OTHER      -> b

\* The record store_pending writes for category c (store_pending_net or
\* clear_net, store_pending_seq, store_pending_role), given the RAM store b.
Written(c, b) ==
    CASE c = "NET"  -> [b EXCEPT !.net = IF valid THEN net ELSE Absent]
      [] c = "SEQ"  -> [b EXCEPT !.seq = SeqOfVal(SeqVal(seq))]
      [] c = "ROLE" -> IF role = Node THEN [b EXCEPT !.role = Node] ELSE b
      [] OTHER      -> b

\* Whether writing category c goes through settings_save_one.
Writes(c) == c \in {"NET", "SEQ"} \/ (c = "ROLE" /\ role = Node)

\* A variant of the walk over the categories whose loop runs one past the
\* last category.
FlushStepNoWrap ==
    /\ wpc > 0
    /\ LET c == FlushOrder[wpc] IN
         /\ pending' = pending \ {c}
         /\ buf' = IF c \in pending THEN Written(c, buf) ELSE buf
         /\ savePending' = (savePending \/ (c \in pending /\ Writes(c)))
    /\ wpc' = wpc + 1
    /\ due' = [due EXCEPT ![FlushOrder[wpc]] = 0]
    /\ UNCHANGED <<timer, queued, valid, net, seq, role, flash, lastSent>>

\* One atomic_test_and_clear_bit of store_pending and the write it guards.
FlushStep ==
    /\ wpc > 0
    /\ LET c == FlushOrder[wpc] IN
         /\ pending' = pending \ {c}
         /\ buf' = IF c \in pending THEN Written(c, buf) ELSE buf
         /\ savePending' = (savePending \/ (c \in pending /\ Writes(c)))
    /\ wpc' = IF wpc = NCat THEN 0 ELSE wpc + 1
    /\ due' = [due EXCEPT ![FlushOrder[wpc]] = 0]
    /\ UNCHANGED <<timer, queued, valid, net, seq, role, flash, lastSent>>

\* bt_mesh_settings_flush: commit buffered writes if any were made.
SettingsFlush ==
    /\ CallAllowed
    /\ savePending
    /\ savePending' = FALSE
    /\ flash' = buf
    /\ UNCHANGED <<pending, timer, queued, wpc, valid, net, seq, role, buf,
                   due, lastSent>>

-----------------------------------------------------------------------------
(* Power cycle: conf_load replays flash, settings_load checks the role and *)
(* mesh_commit marks the state valid.                                      *)

\* seq_set_bin: the restored counter for a stored value s.
RestoreSeq(s) ==
    IF s = Absent THEN 0
    ELSE IF SeqRate > 0 THEN s + (SeqRate - (s % SeqRate)) - 1
    ELSE s

\* bt_mesh_settings_load(role_node = TRUE): the restored role must be the
\* node role, or mesh_commit is not called (-2).
RoleMatches(rec) == rec.role = Node

\* mesh_commit: a provisioned node is marked BT_MESH_VALID.  The primary
\* subnet is stored with the network record (KEYS is flushed before NET).
CommitValid(rec) == rec.net # Absent

Committed(rec) == RoleMatches(rec) /\ CommitValid(rec)

Reboot ==
    /\ buf' = flash
    /\ savePending' = FALSE
    /\ pending' = {}
    /\ timer' = 0
    /\ queued' = FALSE
    /\ wpc' = 0
    /\ due' = [c \in Cats |-> 0]
    /\ net' = IF flash.net = Absent THEN NoNet ELSE flash.net
    /\ seq' = RestoreSeq(flash.seq)
    /\ role' = IF flash.role = Node THEN Node ELSE NoRole
    /\ valid' = Committed(flash)
    /\ lastSent' = -1
    /\ UNCHANGED flash

-----------------------------------------------------------------------------

Init ==
    /\ pending = {}
    /\ timer = 0
    /\ queued = FALSE
    /\ wpc = 0
    /\ valid = FALSE
    /\ net = NoNet
    /\ seq = 0
    /\ role = NoRole
    /\ buf = [net |-> Absent, seq |-> Absent, role |-> Absent]
    /\ flash = buf
    /\ savePending = FALSE
    /\ due = [c \in Cats |-> 0]
    /\ lastSent = -1

Next ==
    \/ \E c \in MarkCats : StoreCategory(c)
    \/ NextSeq
    \/ \E v \in NetVals : Provision(v)
    \/ Reset
    \/ \E r \in BOOLEAN : IvUpdate(r)
    \/ Tick
    \/ StartFlush
    \/ FlushStep
    \/ SettingsFlush
    \/ Reboot

\* The worker and the timer are scheduled by the OS; protocol events,
\* flushes requested by the application and power cycles need not happen.
Fairness == WF_vars(Tick) /\ WF_vars(StartFlush) /\ WF_vars(FlushStep)

Spec == Init /\ [][Next]_vars

FairSpec == Spec /\ Fairness

-----------------------------------------------------------------------------
(* Properties.                                                             *)

\* Every dirty category will be written without anyone marking it again:
\* the running store_pending has still to reach it, the work is queued, or
\* the pending_store timer is armed and expires before the category's
\* deadline (ShortT for NET/IV/ROLE, the generic timeout for the generic
\* bits, the longest timeout for RPL and VA).  A mark that finds no armed
\* timer must arm one, and a later mark must never push the deadline back
\* (schedule_store, store_pending).
Covered(c) ==
    \/ wpc > 0 /\ \E j \in wpc..NCat : FlushOrder[j] = c
    \/ queued
    \/ timer > 0 /\ timer <= due[c]

FlushDeadline == \A c \in pending : Covered(c)

\* Every dirty category is eventually written (or lost in a power cycle),
\* however often protocol code marks categories again (schedule_store).
FlushProgress == \A c \in Cats : (c \in pending) ~> (c \notin pending)

\* Once everything is flushed and committed, a power cycle restores the
\* same provisioning: the node comes back valid exactly when it is valid
\* now, with the same primary address and device key (store_pending_net
\* and clear_net chosen by BT_MESH_VALID, store_pending_role,
\* settings_load's role check, mesh_commit).
Quiescent == pending = {} /\ wpc = 0 /\ ~queued /\ ~savePending

ProvisioningDurable ==
    Quiescent => /\ Committed(flash) = valid
                 /\ valid => flash.net = net

\* While the Seq record is neither dirty nor uncommitted, a power cycle
\* restores a sequence number above every number sent in this boot: the
\* store rate of bt_mesh_store_seq and the round-up of seq_set_bin leave
\* no gap.
SeqDurable ==
    (valid /\ "SEQ" \notin pending /\ flash.seq = buf.seq)
        => RestoreSeq(flash.seq) > lastSent

\* Spec section 3: the persisted sequence number is rounded so that the
\* restored value is never below the last one transmitted, whenever a power
\* cycle brings back the network the node is in (seq_set_bin,
\* bt_mesh_store_seq, the deferred store_pending_seq).
SeqRestoreNotBehind ==
    [][Reboot /\ Committed(flash) /\ flash.net = net => seq' >= lastSent]_vars

\* Counters around every carry between the bytes of the SEQ field: 0,
\* 2^8, 2^16 and the end of the 24-bit range.
SeqEdge == (UNION {b - 2 * SeqRate - 2 .. b + 2 * SeqRate + 1 :
                       b \in {0, 256, 65536, 16777216}}) \cap Nat

\* The counter c survives a write of the Seq record and a power cycle:
\* the three bytes give it back modulo 2^24 and, when it fits 24 bits, the
\* round-up is not behind it and still fits 24 bits.
SeqCodecAt(c) ==
    /\ SeqOfVal(SeqVal(c)) = c % 16777216
    /\ c < 16777216 =>
           /\ c <= RestoreSeq(SeqOfVal(SeqVal(c)))
           /\ RestoreSeq(SeqOfVal(SeqVal(c))) < 16777216

EdgeCodecOK == \A c \in SeqEdge : SeqCodecAt(c)

\* Spec section 2: the sequence counter is a 24-bit value.  For the counter
\* the node holds and for every counter around a byte carry, the record
\* store_pending_seq writes and seq_set_bin reads back keeps the counter
\* modulo 2^24, and seq_set_bin's round-up is not behind a counter that
\* fits 24 bits and still fits 24 bits.
SeqCodecSound == SeqCodecAt(seq) /\ EdgeCodecOK

\* Spec section 4.4: a category other than the replay list is written
\* within the short delay if it is NET, IV or ROLE, and otherwise within
\* the generic timeout unless the replay list alone is pending
\* (schedule_store).
SpecBound(c) ==
    IF c \in NoWaitCats THEN ShortT
    ELSE IF c = "RPL" THEN MaxT
    ELSE IF ShortT >= StoreT THEN ShortT ELSE StoreT

Age(c) == Bound(c) - due[c]

SpecDeadline ==
    \A c \in pending \ {"RPL"} :
        \/ wpc > 0 /\ \E j \in wpc..NCat : FlushOrder[j] = c
        \/ queued
        \/ timer > 0 /\ timer + Age(c) <= SpecBound(c)

=============================================================================
