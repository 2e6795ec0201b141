# TLA+ models of the mesh persistence layer (w801_i2c_scan)

The repository holds two programs: the W801 I2C address scan of
`src/app/main.c`, and the Bluetooth mesh persistence layer of
`src/src/bt/blehost/nimble/host/mesh/src/settings.c`. The persistence layer
decides what protocol state survives a power cycle. It has races between
protocol code, a delayed work item and power loss, so it is what these
modules model.

## The system

`settings.c` has these parts:

- **Dirty tracker and scheduler.**
  - `schedule_store` (l. 1591-1617) sets a `*_PENDING` bit in
    `bt_mesh.flags` and arms the single delayed work item `pending_store`.
  - The timeout comes from the set of pending bits:
    - `NO_WAIT_PENDING_BITS` (Net, IV, Role) get a 500 ms delay.
    - The replay-list timeout is used when RPL is pending and no
      `GENERIC_PENDING_BITS` bit is set, or when that timeout is shorter.
    - Otherwise the generic store timeout is used.
  - An armed timer with less time left is kept ("earliest deadline wins").
- **Flush.**
  - `store_pending` (l. 2545-2609) test-and-clears the eleven bits in a fixed
    order: RPL, KEYS, NET, IV, SEQ, HBPUB, CFG, MOD, VA, ROLE, NODES.
  - For each bit it calls the category's writer.
  - For Net, IV, CFG and RPL, `BT_MESH_VALID` chooses between store and clear.
- **Key-value interface.**
  - `conf_save_one` (l. 2884-2891) only buffers a write
    (`tls_mesh_store_update`) and sets `conf_save_pending`.
  - `bt_mesh_settings_flush` (l. 2964-2970) commits the buffer to flash.
- **Pending tables.**
  - `key_updates` holds net and app key store/clear intents
    (l. 2140-2183, 2617-2762).
  - The provisioner's node table has its own pending table (l. 2185-2266,
    2798-2838).
  - Each virtual-address label has a changed flag (l. 2486-2543).
  - Each replay-list (RPL) entry has a store bit (l. 1782-1864, 2611-2615).
- **Codecs and loader.**
  - There is one `*_set_bin` decoder per record (l. 849-1456).
  - `conf_load` (l. 2893-2919) replays the whole store through them.
- **Commit.**
  - `bt_mesh_settings_load` (l. 2942-2956) checks the restored role.
  - It then calls `mesh_commit` (l. 1511-1571), which sets `BT_MESH_VALID`.
- The base64 variant of every function (l. 143-846) is compiled out, because
  `BASE64_ENCODE_VALUE` is 0.

The callers are the protocol engine: provisioning, reset, sequence numbers
and IV updates. They are not in the repository, so their effect on the
stored data is taken from `spec.md`. These definitions are marked
`spec_modelled` in `PROJECT.json`.

## Modules

| Module | Models |
|---|---|
| `MeshStore` | The scheduler, the flush walk, the buffered store and its commit, power cycles, and the Net, Seq and Role records with their data. |
| `MCMeshStore` | The model values used by the runs. |
| `MeshStoreProofs` | TLAPS proofs of type correctness, of the flush deadline and of the 24-bit Seq codec. |
| `UpdateTable` | The pending-update tables `key_updates` and `node_updates`: coalescing, slot reuse, the table-full synchronous write and the flush walk. |
| `MCUpdateTable` | The key and node names used by its runs. |
| `VaLabels`, `MCVaLabels` | The virtual-address labels: CHANGED flags, `store_pending_va` and the `va_set_bin` restore. |
| `RplStore`, `MCRplStore` | The replay-protection list: store bits, `store_pending_rpl`, `clear_rpl` and the boot replay through `rpl_set_bin`. |
| `RplList` | What the replay-protection list promises: a map from sources to their highest sequence number, with at most `NEntries` sources, dirty sources saved one by one, and a boot that replays every record. It models no code of its own. |
| `MeshStoreDurableProofs` | TLAPS proofs that a power cycle after a flush restores the provisioning, and that a committed Seq record is never behind the last counter sent. |
| `RplStoreProofs` | TLAPS proofs of type correctness, and that the RPL records match the list once nothing waits to be saved. |
| `RplListProofs` | TLAPS proof that `RplStore` implements `RplList`. |
| `I2cScan`, `MCI2cScan` | The address scan of `src/app/main.c`. |
| `UpdateTableProofs` | TLAPS proofs that the key table keeps the store in line with memory, and of type correctness for both tables. |
| `VaLabelsProofs` | TLAPS proofs of type correctness, and that every label in use is restorable once the walk is done. |
| `I2cScanProofs` | TLAPS proof that the scan reports every device at 0x08 or above. |

### MeshStore: state

| Variable | Code |
|---|---|
| `pending` | The `*_PENDING` bits of `bt_mesh.flags`. |
| `timer` | `k_delayed_work_remaining_get(&pending_store)` in ticks; 0 means not armed. |
| `queued` | The expired work waits for the worker. |
| `wpc` | The position of the running `store_pending` in its walk; 0 means it is not running. |
| `valid`, `net`, `seq`, `role` | `BT_MESH_VALID`, the primary address and device key, `bt_mesh.seq`, and `BT_MESH_NODE`. |
| `buf` | The store as written by `conf_save_one` and read back by `conf_load`. |
| `flash` | The store as committed by `tls_mesh_store_flush`. |
| `savePending` | `conf_save_pending`. |
| `due` | Ghost: the ticks left before each pending category must be written. |
| `lastSent` | Ghost: the last sequence number sent in this boot and IV epoch. |

### MeshStore: actions

- `StoreCategory(c)`: the API calls whose only effect is `schedule_store`.
- `NextSeq`: `bt_mesh_next_seq` followed by `bt_mesh_store_seq`. A number
  is stored only when `seq % SEQ_STORE_RATE == 0`.
- `Provision`: marks NET, KEYS, IV, SEQ and ROLE.
- `Reset`: `bt_mesh_clear_net`, which marks NET, IV and CFG.
- `IvUpdate(restart)`: `bt_mesh_store_iv`.
- `Tick`: one tick of the timer. When it expires, the work is queued.
- `StartFlush`: the worker starts `store_pending`.
- `FlushStep`: one test-and-clear of `store_pending`, with the write it
  guards.
- The constant `Preemptive` says whether API calls may land between two
  steps of the walk. That depends on which task the port runs the delayed
  work on, and that code is not in the repository. The passing runs set it
  to TRUE, a superset of both cases. The violation runs set it to FALSE, so
  what they find does not depend on preemption.
- `SettingsFlush`: `bt_mesh_settings_flush`.
- `Reboot`: a power cycle. `conf_load` replays the flash, the Seq record is
  rounded up as `seq_set_bin` does, and `valid` is set when the role matches
  and the network record is present.
- The Seq record is the counter its three bytes stand for. `SeqVal(s)` is
  `struct seq_val` as `store_pending_seq` fills it (l. 1745-1749): the counter
  shifted right by 0, 8 and 16 bits, each cut to a `u8`. `SeqOfVal(v)` is the
  decoding of `seq_set_bin` (l. 926-928). `Written` stores
  `SeqOfVal(SeqVal(seq))`.

### UpdateTable

The two tables share their control flow. They differ in how a free slot is
taken, and the constant `Table` selects which one a run models.

- `live` holds the keys or nodes in memory. `stored` holds their records.
- `table` holds the slots: valid, index or address, and clear. `pending` is
  the KEYS or NODES bit. `pos` is the slot the flush walk is at.
- `StoreOrClear(id, clr, val)` is the shared body of `bt_mesh_store_subnet`,
  `bt_mesh_clear_subnet`, `bt_mesh_store_app_key`, `bt_mesh_clear_app_key`,
  `bt_mesh_store_node` and `bt_mesh_clear_node`. Its three disjuncts are the
  code's three paths:
  - a matching slot has its clear flag overwritten (`MatchMark`);
  - a full table writes the record at once;
  - otherwise the last free slot is taken (`Reuse`).
- `KeyReuse` sets the slot's valid bit, index and clear flag.
  `NodeReuse` sets only the address (l. 2815, 2836), so the slot keeps the
  clear flag its previous entry left.
- `Add`, `Change` and `Delete` are the callers, which are not in the
  repository: a key or node is created, changed (key refresh) or deleted in
  memory, then stored or cleared.
- `StartWalk` and `WalkStep` are the bit's test-and-clear in
  `store_pending` and one slot of `store_pending_keys` /
  `store_pending_nodes`. A store of an entry no longer in memory only logs a
  warning.
- The pending_store timer is abstracted: the walk may start whenever the bit
  is set. `MeshStore` checks when it actually starts.

### VaLabels

- `ref`, `uuid` and `changed` are the label table and its
  `BT_MESH_VA_CHANGED` flags. `stored` holds the `Va/<index>` records.
  `pending` is the VA bit, and `pos` is the label the walk is at.
- `VaAdd` and `VaDel` stand for the transport layer's label add and
  delete, which are not in the repository. They change a reference, set
  CHANGED, and call `bt_mesh_store_label`.
- `VaStep` is one label of `store_pending_va` (l. 2486-2543). A changed
  label is saved unless `IS_VA_DEL`; a deleted label writes nothing.
- `Restored(l)` is what `va_set_bin` (l. 1323-1361) rebuilds from the
  record at the next boot.

### RplStore

- `src`, `seq` and `store` are the entries of `bt_mesh.rpl`; a zero `src` is
  a free entry. `stored` holds the `RPL/<src>` records, `pending` is the RPL
  bit, and `valid` is `BT_MESH_VALID`.
- `Accept(s, q)` stands for the transport's replay check, which is not in the
  repository. It updates the entry of `s` when `q` is above its sequence
  number, or else takes the first free entry, and calls `bt_mesh_store_rpl`
  (`StoreRpl`, l. 2611-2615). A full list rejects the message.
- `StartRpl` is the RPL branch of `store_pending` (l. 2549-2555). A valid node
  starts the walk. Any other node runs `clear_rpl` (`ClearRpl`,
  l. 1821-1849): it deletes the record of every used entry and zeroes the
  entry.
- `RplStep` is one entry of `store_pending_rpl` (l. 1851-1864). It clears
  the store bit and saves the entry through `store_rpl` (`SaveRpl`).
- `Reset` is a node reset. It clears `valid` and calls `bt_mesh_clear_rpl`
  (l. 2764-2768), which in this code runs `clear_rpl` at once instead of
  scheduling it.
- `Reboot` zeroes RAM and starts `conf_load`. `loading` holds the records
  still to replay. `RestoreRpl(s)` is `rpl_set_bin` (l. 971-1011): it takes
  the first free entry from `rpl_alloc`, or fails with `-ENOMEM`, an error
  that `conf_load` ignores.
- Messages may be accepted between two steps of the walk when `Preemptive` is
  TRUE. The old-IV flag and the IV-update reset of the list are left out.

### RplList: the abstract list and the refinement

`RplList` says what the entry array, its store bits and the walk stand for.

- `list` maps every source to its highest accepted sequence number, or
  `Absent`. `dirty` holds the sources whose record is older than the list.
- `Accept(s, q)` raises the number of a held source, or adds a new source
  while fewer than `NEntries` are held.
- `Save(s)` saves one dirty source with the list's current number, in any
  order.
- `Reset` and `Discard` empty the list and delete the records of the
  sources it held.
- `Reboot` empties the list. `Restore(s)` then replays each record. It is
  never refused for want of room.

`RplStore` maps onto it as follows (`RplStore!Abs`):

- `AbsList == ListOf(src, seq)`: each source gets the number of the entry
  that holds it.
- `AbsDirty` is the set of sources whose entry has its store bit set.
- `valid`, `loading` and `stored` map to themselves.

`RplRefinesList == Abs!Spec` is checked by the `rpl` run. Under this
mapping:

- `Accept` is `Accept`.
- A walk step that saves an entry is `Save`. One that skips an entry is a
  stutter.
- `StartRpl` on a valid node is a stutter. On another node it is `Discard`.
- `RestoreRpl` is `Restore`. This holds only because a free entry is always
  found.

The refinement rules out, for example, a replay check that gives a second
entry to a source already held. Two entries for one source would break the
mapping. The mutant `AcceptNoFind` does exactly that, and the run catches it.

### I2cScan

- `UserMain`'s loop counter `addr` is a `u8` running from 0x08 while
  `addr < 0xf0`.
- `AddressByte(a) == (a * 2) % 256` is the `u8` argument `addr << 1`.
- A device answers the byte whose upper seven bits are its address. The
  general call (byte 0) is answered when some device supports it.
- Which devices are present is chosen in the initial state.
- `Blink` is the endless LED loop after the scan.

## Runs

| Run | Checks | Shows |
|---|---|---|
| `schedule` | `TypeOK`, `FlushDeadline` | Every dirty category is always covered by a flush before its deadline: the walk still has to reach it, the work is queued, or the armed timer expires in time. |
| `progress` | `FlushProgress` | Under fairness, every dirty category is eventually written, whatever is marked meanwhile. |
| `durable` | `ProvisioningDurable`, `SeqDurable`, `SeqCodecSound` | After a full flush and commit, a power cycle restores the same provisioning. A committed Seq record restores a counter above every number sent. The three-byte record and the round-up of `seq_set_bin` give back every counter: the node's own, and every counter within a few store blocks of 0, 2^8, 2^16 and 2^24 (`SeqEdge`). |
| `keys` | `TypeOK`, `StoreMatchesMemory` | The key table with three keys and two slots: whenever no update is pending, the store holds exactly the keys in memory. This covers coalescing, reuse, the table-full write and marks landing mid-walk. |
| `node_lost` (violation) | `StoreMatchesMemory` | This run finds a violation. A node is stored and flushed, then deleted through a fresh slot. The slot's clear flag is FALSE, so the flush looks for the node, logs a warning, and leaves its record in the store. |
| `node_spurious_delete` (violation) | `NoLiveDelete` | This run finds a violation. A slot whose last entry was a deletion keeps clear set, so a later store through that slot erases a live node's record. |
| `va_labels` | `TypeOK`, `LiveLabelsStored` | Labels are added and dropped while the walk runs. Once nothing is pending, every label in use is restored with its count and UUID. |
| `va_deleted` (violation) | `DeletedLabelsGone` | This run finds a violation. A label whose last reference is dropped keeps its old record, so it comes back after a power cycle. |
| `i2c_scan` | `AllDevicesFound`, `ScanTerminates` | For every set of devices among 0x08, 0x48 and 0x77, the loop ends and reports every device. |
| `i2c_phantom` (violation) | `OnlyDevicesFound` | This run finds a violation. From 0x80 up the shifted address wraps, so 0x80 (general call) and 0xc8 (the device at 0x48) are reported with no device there. |
| `seq_crash` (violation) | `SeqRestoreNotBehind` | This run finds a violation. Two messages are sent while a SEQ mark waits for its deferred write, then a power cycle restores a number below one already sent. No call preempts the walk. Spec section 3 says this never happens. |
| `rpl` | `TypeOK`, `RplStored`, `RplWritten`, `RplRefinesList` | Three sources share two entries. Messages are accepted during the walk, and resets and power cycles happen, including power cycles in the middle of `conf_load`. Whenever no entry waits to be saved, the records are exactly the list. Under fairness, every entry marked for storing is saved, cleared or lost in a power cycle. Every step is a step of `RplList` or a stutter. |

`MeshStore` also defines `SpecDeadline`, the deadline of spec section 4.4.
`MCMeshStoreVaDeadline.cfg` checks it and finds a counterexample: a VA label
marked while only RPL is pending waits the RPL timeout, because VA is in
neither `NO_WAIT_PENDING_BITS` nor `GENERIC_PENDING_BITS`. Spec section 9
already leaves this tie-break open as a question, so the run is not kept.

`MCMeshStoreSeqEarlyWalk.cfg` checks `SeqDurable` with a CFG mark and
preemptive API calls, and finds a counterexample (24 states):

1. A walk started for CFG is at the seventh category when
   `bt_mesh_provision` marks NET, KEYS, IV, SEQ and ROLE.
2. The resumed walk writes the Role record (tenth) and wraps without
   writing Seq (fifth).
3. The next walk writes Net. An application `bt_mesh_settings_flush`
   before the walk reaches SEQ commits a network and a role with no Seq
   record.
4. After a power cycle the node is valid and restarts at counter 0, which
   it has already sent.

The `durable` run marks no other category, so it never reaches this. The
hazard is listed in `PROJECT.json`. `SeqDurableHolds` (below) proves
`SeqDurable` exactly when this cannot happen.

### Bounds

Timeouts are scaled to 1, 2 and 3 ticks: short, generic and RPL, so that RPL
is the longest. The progress run uses 1/2/2 to stay within its time budget.
These values separate the three branches of the policy and both outcomes of
the earliest-deadline test.

The store rate is 2, with up to 4 messages, so a stored value, a skipped
value and the round-up all occur. The runs' counters stay far below 2^24.
`SeqCodecSound` therefore also checks the codec on the fixed set `SeqEdge`:
each byte carry, and each end of the 24-bit range, with two store blocks on
either side. A wrong shift or a dropped byte shows at the first carry it
affects. With a store rate that does not divide 2^24, the property fails at
the top of the range. For example, with a rate of 3, 2^24 - 1 is restored as
2^24 + 1, and the next store of that counter wraps it to 1. The rate is a
Kconfig value that the repository does not define. The Zephyr default, 128,
divides 2^24. There are one or two networks, so
re-provisioning a different network is reachable.

The update tables use three keys or nodes and two slots, so the table fills
and the synchronous write happens, and a slot is reused for another entry.
There are two values per entry, so a key change is a different write.

There are two labels, three UUIDs and at most two references, so a label
is shared, dropped, and reused for another UUID. The I2C bus candidates
0x08, 0x48 and 0x77 are the loop's first address, an address whose wrapped
image (0xc8) is scanned, and the last 7-bit address below the reserved block.

The RPL run has two entries, three sources and sequence numbers up to 2. So
the list fills and rejects a source, a reset frees it for another, an entry
is updated after it is saved, and a reboot replays a full list.

### Fairness

The progress run assumes weak fairness of `Tick`, `StartFlush` and
`FlushStep`:

- the OS timer keeps running;
- the worker runs queued work;
- `store_pending` runs to its end.

Marks, application flushes and power cycles get no fairness.

The `rpl` run assumes weak fairness of `StartRpl`, `RplStep` and the
replay of a record. `store_pending` runs once the timer expires (MeshStore's
`FlushProgress`), the walk is a loop inside it, and `conf_load` reads the
store to its end.

The `i2c_scan` run assumes weak fairness of the scan's next-state relation.
`UserMain` is a single sequential task with nothing else to wait for.

## Proofs

`MeshStoreProofs` proves two theorems for every value of the constants:

- `TypeCorrect`: `Spec => []TypeOK`.
- `FlushDeadlineHolds`: `Spec => []FlushDeadline`.

It also proves `SeqCodecHolds`:
`SeqRateDividesField => (Spec => []SeqCodecSound)`. Its hypothesis is that
the store rate is 0 or divides 2^24. It rests on three lemmas about the
codec:

- `SeqValRoundTrip`: the three bytes give back `c % 2^24`, for every natural
  `c`.
- `RestoreNotBehind`: the round-up never lowers a counter.
- `RestoreFits`: with such a rate, the round-up of a 24-bit counter ends the
  block of `SeqRate` counters it lies in. 2^24 is a block end, so the result
  stays below 2^24.

With these lemmas the property holds in every state in which `seq` is a
natural number, so it follows from `TypeCorrect`.

The inductive invariant is
`IInv == TypeOK /\ (valid => net \in NetVals) /\ FlushDeadline`.

- The middle conjunct is needed because a write of the Net record must find
  the address of a valid node.
- The deadline rests on two lemmas:
  - `TimeoutWithinBound`: the timeout `schedule_store` picks never exceeds
    the deadline of any pending category.
  - `ScheduleStoreCov`: a mark keeps every pending category covered,
    because it either keeps an earlier armed deadline or arms one no later
    than the new category's deadline.
- Each action has a lemma of its own. `NextIInv` combines them.

`MeshStoreDurableProofs` extends `MeshStoreProofs` and proves two more
theorems about power cycles. Both reuse `IInv` and add a second invariant.

`ProvisioningDurableHolds`: `Spec => []ProvisioningDurable`, for every value
of the constants. The strengthening `ProvInv` has five conjuncts:

- `RoleOfValid`: a valid node has the node role.
- `NetStored`: once NET is not pending, a valid node's Net record in the
  RAM store is its own address and key.
- `RoleStored`: the same holds for the Role record.
- `NetCleared`: once NET is not pending, an invalid node either has no Net
  record, or neither the store nor RAM holds the node role.
- `Flushed`: with no save pending, flash equals the RAM store.

A walk step that writes NET or ROLE brings the record in line, and it sets
`savePending`. A reset marks NET, and `Reboot` reloads RAM from flash.
`NetCleared` is what shows that after a reset and a full flush, `mesh_commit`
does not bring the old network back.

`SeqDurableHolds`: `NoEarlyWalk => (Spec => []SeqDurable)`, where
`NoEarlyWalk == ~Preemptive \/ MarkCats = {}`. The counterexample above
needs both a preemptive call and a mark from outside provisioning, so the
hypothesis is needed. It drops either one, not the whole theorem: with
non-preemptive calls it holds for every set of marked categories. The
`durable` run satisfies it. The strengthening `SeqInv` has five
conjuncts:

- `SeqBounded`: every counter stays at or below `SeqTop`, the round-up of
  `MaxSeq`. That is below 2^24, so the three-byte record is exact
  (`SeqRecordExact`).
- `SentBelow`: a valid node has not sent `seq` yet.
- `SeqAhead`: once SEQ is not pending, the RAM store has a Seq record whose
  round-up is at least `seq`. `NextSeq` keeps it without marking SEQ only
  when `seq + 1` is not a multiple of the rate. The round-up ends a block
  (`RestoreBlockEnd`), so `seq + 1` is still at most the round-up.
- `SeqBeforeRole`: no store holds a Role record without a Seq record. While
  the RAM store has none, a node with the role has SEQ pending, and the walk
  has not passed it (`wpc <= 5`). The walk therefore writes Seq before
  Role, which is why `Reboot` can only make the node valid with a Seq
  record in flash.
- `Unprovisioned`: with no other category marked, a node without the role
  has nothing pending and no walk running. This is where `NoEarlyWalk`
  enters: `Provision` then always finds the walk at SEQ or earlier.

TLC checked `SeqInv` as an invariant before the proof, on the durable
instance and on a non-preemptive one with four marked categories.

`UpdateTableProofs` proves two theorems about the key table
(`Table = Keys`), for every table size and key set:

- `KeysStoreMatchesMemory`: `Spec => []StoreMatchesMemory`.
- `KeysNoLiveDelete`: `Spec => NoLiveDelete`. No run checks this for the
  key table; the `node_spurious_delete` run shows that the node table
  breaks it.

Both rest on the inductive invariant
`IInv == TypeOK /\ SlotIntent /\ Unsynced /\ OneSlot`:

- `SlotIntent`: a valid slot's clear flag is set exactly when its key is gone
  from memory.
- `Unsynced`: a key with no valid slot is stored as it is in memory.
- `OneSlot`: a key has at most one valid slot.

A flush step writes from memory, so with `SlotIntent` it brings the slot's
key in line. `OneSlot` shows the key then has no valid slot left. Quiescence
(no valid slot) turns `Unsynced` into `stored = live`. The lemma `LastSlotIn`
shows that the scan's "last free slot" is a free slot, using the
well-foundedness of `<` on the naturals. For the node table `SlotIntent`
fails, which is what the two violation runs show. `TypeCorrect`
(`Spec => []TypeOK`) holds for both tables and needs no invariant beyond
`TypeOK`. Its proof shows that every reuse of a slot, by key or by node,
leaves a well-formed slot.

`VaLabelsProofs` proves `LiveLabelsStoredHolds`: `Spec => []LiveLabelsStored`,
for every number of labels and every bound on the reference count. The
inductive invariant is `TypeOK /\ LiveHasUuid /\ LiveStored`:

- `LiveStored`: a label in use whose CHANGED flag is clear is stored with its
  count and UUID.
- `LiveHasUuid`: a label in use has a UUID. A walk step needs this to show
  that the record it writes is well formed.

An add or a delete sets the label's flag, so `LiveStored` says nothing about
that label until the walk saves it. The walk clears the flag of a label in use
only after it saves the label. The proof assumes `Absent \notin Uuids \cup
VaVal`: an empty record is never a Va record. The companion property
`DeletedLabelsGone` is false (the `va_deleted` run), so nothing is proved
about it. `TypeCorrect` (`Spec => []TypeOK`) follows from the same
invariant.

`I2cScanProofs` proves `AllDevicesFoundHolds`: `Spec => []AllDevicesFound`,
for every set of devices within `0..127`. The invariant says:

- the counter stays in `8..240`;
- every device from 8 up to the counter has been reported;
- the loop ends only at 240.

The lemma `DeviceAcked` shows that a device acknowledges the probe of its own
address, because `addr << 1` does not wrap for `addr <= 127`. The wrap for
higher addresses only adds false reports (the `i2c_phantom` run). It never
hides a device. Termination (`ScanTerminates`) is left to TLC.

`RplStoreProofs` proves `RplStoredHolds`: `Spec => []RplStored`, for every
number of entries and every finite set of sources. The inductive invariant
adds:

- `Unique`: no source holds two entries.
- `StoreUsed`: only a used entry has its store bit set.
- `Synced`: a used entry with a clear store bit is stored as it is.
- `WalkRunning`: the walk runs only after `conf_load`.
- `Recorded`: every record is held by an entry or is still to be replayed.
  While `conf_load` runs, the entries hold only replayed records.
- `Fits`: there are no more records than entries.

`Fits` carries the argument across a power cycle. The lemma
`ReplayFindsEntry` uses it: if no entry were free, every entry would hold a
different record other than the one being replayed, which is more records
than entries. That is the pigeonhole theorem of `FiniteSetTheorems`. So a
boot never drops a record. `RplStep` keeps `Fits`, because it only writes
sources that hold an entry (`MemSrcsBound`). `RplWritten` is liveness and is
left to TLC. `TypeCorrect` (`Spec => []TypeOK`) follows from the same
invariant.

`RplListProofs` proves `RplRefinesListHolds`: `Spec => RplRefinesList`, for
every number of entries and every finite set of sources. It follows the
usual three steps:

- `Spec` implies the inductive invariant of `RplStoreProofs`.
- `Init` maps to `Abs!Init`.
- Every step of `Next` under the invariant maps to a step of `Abs!Next` or
  to a stutter of the abstract variables. There is one lemma per action.

`Unique` makes `ListOf` well defined. An entry's update changes exactly one
source's number (`ListSet`). A new entry adds exactly one source
(`ListAlloc`). `HeldIsMemSrcs` and `HeldRoom` turn "a free entry exists"
into the abstract guard: fewer than `NEntries` sources are held. For
`RestoreRpl`, `ReplayFindsEntry` supplies the free entry, which is what makes
the replay a `Restore` and not a dropped record.

What stays with TLC:

- The liveness properties `FlushProgress`, `RplWritten` and
  `ScanTerminates`, because TLAPS does not handle ENABLED or fairness.
- `SeqDurable` outside `NoEarlyWalk`, where it is false.
- The properties of the violation runs, which the code breaks.

Every safety invariant of a passing run has a theorem.

## Not modelled yet (plan)

- **RPL details:** the old-IV flag and a malformed record, which
  `rpl_set_bin` would give an entry before its length check fails. Every
  record in the model is written by `store_rpl` with the right length.
- **The other codecs:** field packing and length checks, to be checked as
  operators against a reference decoder.
- **Out of reach:** the one-byte overrun of `mod_data` (l. 1303) is a
  memory-layout fault and stays out of the model.
