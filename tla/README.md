# RePendant: a TLA+ verification project

RePendant is firmware for a small wearable audio recorder (C, Zephyr, one
core) and the Android application that configures it, downloads its encrypted
recordings and deletes them. This directory holds TLA+ models of the firmware
and of the phone's synchronisation, the TLC runs that check them on small
instances and the proofs TLAPS checks for every instance. `PROJECT.json` maps every definition to the lines it
models.

Paths below are relative to `src/usb_firmware/src/` unless they say otherwise.

## 1. Inventory

### The firmware

A recording passes through these parts, from the microphone to flash:

| Part | State it keeps | Operations | Talks to |
|---|---|---|---|
| Capture (`recording_capture.c`) | its thread's stage, power, clock, scrubbed and joined flags, the session number | start, read a frame, fail, finish, stop and join | submits frames to the worker, wakes it, is started and joined by the codec thread |
| Frame queue (`recording_frame_queue.c`) | two tickets, two guards, a state, the first stop reason, counters | init, push, pop, request stop, confirm the producer stopped, close, rearm, summary | the capture thread pushes, the codec thread does the rest; no lock |
| Worker (`recording_worker.c`) | session token with its fault bit, producer gate, state, first stop reason, frame credits, guards | start, submit, request stop, step, shutdown | owns the queue and the pipeline, calls the runtime's hooks |
| Pipeline (`recording_pipeline.c`) | open segment, segment handed over, totals, the manifest | start, push, poll, seal, end, fault | submits to and polls the store bridge |
| Store bridge (`recording_store_bridge.c`) | one job and its deadline | capacity, reserve, submit, advance, poll, finalize | codec thread submits, storage thread advances |
| Object store (`recording_object_store.c`) | roots and slots, the job's stage | recover, reserve, prepare, finalize, step, load | reads, writes and syncs map sectors |
| Sync metadata (`recording_sync_metadata.c`, `recording_sync_paged.inc`) | receipts and tombstones in map sectors | open, extend, record receipt, delete, replay | called by the catalog |
| Native volume (`recording_native_volume.c`, `recording_native_store.c`), linked instead of the next three in the full-chip build | life-cycle state, the Dhara map, the two above | provision, complete, mount, grant, suspend, reopen | the runtime's sessions |
| Volume and provider (`recording_volume.c`, `recording_storage_provider.c`) | life-cycle phase, lease of the hardware | provision, mount, grant, suspend, reopen, close, recover | joins every storage layer |
| Control journal (`owned_control_journal.c`) | two flash banks of snapshots, the current root, the volatile page history | boot, reconcile, activate, acquire, resolve, sync, retire | the provider and the Dhara adapter |
| Dhara adapter (`owned_dhara.c`) | leases, ranges consumed, retired blocks | erase, program, mark bad, sync, format | below the (vendored) Dhara map |
| Runtime (`recording_runtime.c`) | command owner, two supervised deadlines, flags shared between threads | codec thread, storage thread, supervisor timer, fatal reset | everything |
| Recording control (`recording_control.c`, `recording_control_ble.c`, `recording_control_worker.c`, `recording_long_runtime.inc`) | tickets and their states, the connection, one pending request, the button gesture, stop latches | command, reply, disconnect, sample, publish, maintenance claim | the phone, the button and the codec thread meet here |
| Configuration (`recording_configuration.c`) | one durable record: phase, generation of the recipient key | load, advance, prepare the full chip, key reset | the volumes |
| Physical service (`nand_owned_phy.c`, `nand_owned_phy_nrf.c`) | the profile, a refusal latch, the bus | open, read, program, erase, close | drives the flash chip for the volume |
| Sync transport (`recording_ble.c`, `durable_ble_codec.c`) | connection epoch, nonce, one request, one staged frame, credit | request, deliver, cancel, retire | Bluetooth, the codec thread, the runtime's sync session |
| Catalog (`recording_catalog.c`) | a snapshot of the store | open, manifest, segment, receipts, deletion, retirement | the transport and the object store |
| Enrollment (`ble_security.c`, commands of `main.c`) | the window, its deadline, the owner in RAM, the bond | open, close, expire, replace the owner, pair, restart | Bluetooth stack, the shell, the button |
| Microphone clips (`mic_commands.c`, `mic_diagnostics.c`, `mic_pcm_store.c`, `ble_audio.c`) | who holds the device, rail and clock, an expiring PCM store, a BLE session | arm, capture, stream, cancel, reserve | enrollment, the restart, the diagnostics |
| NAND diagnostics (`nand_id.c`, `nand_qualify.inc`, `nand_*commands.c`, `nand_*wire.c`), a build of its own | one admission per boot, a job, the registers to restore, a binary protocol | id, features, page0, marker, backup, qualify | the flash chip, a host program over USB |
| Permits and recovery (`host_permit.c`, `recovery_authorizer.c`) | one-use permits | verify, consume | the shell |

The threads are the codec thread (worker, pipeline, control publications), the
capture thread, the storage thread, the main thread (button), the system work
queue (phone requests), the Bluetooth callbacks and a timer interrupt that
supervises two absolute deadlines and resets the device when one passes.

### The phone

`src/android_app` holds the synchronisation engine (catalog, manifest,
segments, receipts, deletion), the segment store with its checkpointed files,
the radio-ownership and transport classes, the journal of recording-control
intents, key vaults, playback and transcription, and the user interface.

### What is hard here

* Code without locks or with gates nobody waits for: the queue, the producer
  gate, the coordinator's gate. A caller that finds a gate taken does not
  wait, it takes another path, and that path is rarely exercised.
* Calls that outlive their session: a capture thread finishing late, a request
  of a connection that is gone, a job in flight at shutdown.
* Deadlines everywhere: a late result still counts, but nothing may follow it.
* Power loss at every flash access, and several layers that must agree
  afterwards on what is durable.
* Lost replies: starts and deletions are repeated under the same identity.

`PROJECT.json` lists each of these at the line where it bites ("hazards"),
with the properties that catch it.

### What makes each part correct

* Queue: frames come out contiguous and once, never more than the capacity,
  guards are exact, the first stop reason and the fenced audio are final.
* Recorder: every accepted frame is accounted for, a clean end has saved
  everything, a manifest names exactly the durable prefix, nothing in flight is
  let go, a released microphone is off, a stop ends.
* Volume: no interruption loses the root, a synced page or a retirement, or
  programs a page twice; an active volume can always be mounted.
* Control: an operation runs once, what the phone was told stays true, a reply
  reaches the asker, nobody is stranded, one owner at a time.
* Object store and sync metadata: every crash state mounts, a receipted segment
  survives, RAM and flash agree on who owns a slot, a receipt never vouches for
  another segment, and a deletion is answered the same way for good.
* Flash chip: whoever used it leaves it locked and its registers as found, or
  keeps it until a reset; an answer is the truth about the array; nothing is
  erased without an acknowledged copy.
* Microphone and enrollment: one holder at a time whatever the order of claims
  and checks; no clip without a tap; owner and bond agree; everything claimed is
  given back.
* Synchronisation: an answer reaches only who asked, whole or not at all; a
  revoked session ends; what the phone wrote down is so; the pendant gives up its
  copy only when asked to.

## 2. Plan

Done: the modules of section 3, in this order: the queue and its proofs, the
owned volume, the recorder, control, the native volume with the key reset, the
physical service and the diagnostics, enrollment and microphone, the broker, the
link to the phone and the abstract `Transfer` it implements.

Proved (section 6): the frame queue with its stream; the link to the phone and its
refinement of `Transfer`; enrollment; the exclusion around the microphone; recording
control; the broker of the durable transport; the deletions, promises and receipts of
the native volume; the owned volume.

Next, proofs:

1. `NativeVolume`: that a recovery accepts every image and finds what RAM says
   (`Mountable`, `RamAgrees`).
2. `NandDiagnostics`: the registers restored or the job held (`RestoredOrHeld`).
3. `Recorder`: `SessionsApart`, then conservation of frames (`FramesCovered`).

Next, models: the phone's journal of recording intents composed with
`RecordingControl`; the permits and the recovery authorizer; bad blocks in the
native store; standby and the shell commands of the runtime.

## 3. The modules

### FrameQueue (`recording_frame_queue.c`)

One step is one access to a shared atomic, with the plain fields the guard taken
before it protects; a thread inside a call is its label `pc[t]` and its locals
`reg[t]`. Tickets count modulo `TicketMod` (2^32 in the code), so that the wrap
happens in the model. A PCM frame is its first sample, counted in frames.
`delivered` and `late` are history variables. Every call of the header is there;
calls that return before their first write are stuttering steps.

### ControlSnapshot and OwnedVolume (`owned_control_journal.c`, `owned_dhara.c`, `recording_storage_provider.c`, `recording_volume.c`)

`ControlSnapshot` has the pure part: what a snapshot may look like, which may
follow which, and which root `ocj_boot` selects from two banks. A snapshot's
digest is an identity, a torn or foreign page is `Torn`.

`OwnedVolume` has the durable state (`phase`, `latched`, `banks`, `map`), the
RAM of the journal `j` and of the adapter `d`, and one call in progress `op`.
A step is one physical access or the code between two. `Fence` is any fault of
any layer (a deadline, a refused admission, a read error), which ends all
service until a reset; `EraseBankFails`, `ProgramBankFails` and `MutateFails`
leave flash in any state an interrupted operation can leave it; `Reset` loses
the RAM at any step. Dhara is external and chooses any order of calls that its
interface allows, with one obligation taken from how it is built: it recycles a
block only when its last checkpoint is elsewhere. The application layers above
are the sync they end with. `used`, `acked` and `kept` are history.

### Recorder (`recording_worker.c`, `recording_pipeline.c`, `recording_capture.c`, hooks of `recording_runtime.c` and `recording_store_bridge.c`)

The linked variant: a capacity query, deferred storage, manual mode. The worker
`w` steps from one access to a shared atomic to the next; `c` is the capture
thread, `s` the storage thread and what is durable, `p` the pipeline, `q` the
queue as the sequence FrameQueue shows it to be, `sub` and `ask` the calls of
`rw_submit` and `rw_request_stop` in progress in other threads.

* All deadlines are one boolean, `late`: the deadlines in use are nested
  (a job's is not after the call's, which is not after the drain's), and
  `Expire` may let the earliest pass at any step. A clock that runs backwards
  and overflow of the 64-bit time are not modelled.
* A segment is its number of frames; encoding and sealing succeed or fail.
* `fatal()` is a reset; the property of a reset is that nothing here survives,
  so `up` becomes FALSE for good. A FAULT always leads there.
* `rw_get_status` and `rw_select_mode` change nothing the properties see;
  `rw_new_job` only renews a deadline inside its envelope.
* Requests made by the codec thread itself (low power, the control latch) are
  among those of `Users`. All interleavings are allowed, though priorities on
  one core exclude some.

### RecordingControl (`recording_control.c`, `recording_control_ble.c`, `recording_control_worker.c`, `recording_long_runtime.inc`, parts of `recording_runtime.c`)

The portable, standalone build. A step is one section under the coordinator's
gate or the interrupt lock, or one access to an atomic; holding the gate is a
state of its own because others that meet it give up. `lrc` is the coordinator,
`ble` the broker, `work` the work item, `btn` the button sampler, `cod` the
codec thread, `rt` the runtime's exclusion, `maint` a preference write or a
pairing. `ran` and `last` are history.

* Requests, replies and operation states are records; the wire encoding is left
  out, but `lc_validate_state` and `lc_same_operation_progress` are operators,
  because a state they refuse latches a fault.
* The button decoder is reduced to: a gesture is in progress, which ticket was
  current when it began, and how it ends.
* Readiness (power, standby, USB, the shell and sync owners of `command_busy`)
  is a nondeterministic refusal on top of the conditions modelled.
* `MaxTries` stands for the 32 attempts of `lcw_start` and
  `long_terminal_publish`.
* Frame counts are Recorder's subject, and so are the supervisor's resets. The
  claim standby makes under the interrupt lock is left out.
* After a reset everything begins again as at `Init`, so the bounds spent before
  it stay spent.

### LogicalMap, ObjectStore, SyncMetadata, RecordingConfiguration and NativeVolume (`recording_native_store.c`, `recording_object_store.c`, `recording_sync_paged.inc`, `recording_configuration.c`, `recording_native_volume.c`, `recording_catalog_full.inc`, sessions of `recording_runtime.c`)

The full-chip build. `LogicalMap` is the map both tenants write: `versions` holds
its content after the last sync and after each write since, and a cut keeps any
of them (Dhara may take a checkpoint by itself at any write). `promised` is
history: every segment receipt, final receipt, phone receipt and deletion a
caller was told of. `ObjectStore` has `ros_context` and one action per stage of
a job; a page is what it names (recording, sequence, kind), so samples, gaps,
modes and digests are left out. `SyncMetadata` has the cached part of
`recording_sync_metadata`; a call leaves the pages it has to publish in
`rsm.todo`, and a step writes or syncs one. `NativeVolume` composes them under
the volume's states and the sessions the runtime opens, one at a time, and adds
the catalog of a sync session.

* Recovery and `rcat_open` only read, so each is one step; so is the load of a
  segment, during which nobody else has the store.
* `Fence` is any fault at any step: deadlines, refused admission, I/O, a read-back
  that differs, a conflict the catalog finds, its expiry.
* A manifest digest stands for the recording, its segments and its state. Ids are
  random, so a reserved id was never used before: `ros_reserve` checks it.
* The revision of a receipt page only counts its changes and is left out.
* Formatting, provisioning and the scan for bad blocks are one step each; a cut in
  between leaves a volume without a native root, which is never formatted again.
* `RecordingConfiguration` is the configuration record: a phase and the
  generation of the volume. A key reset prepares the next generation, erases the
  chip and provisions it; the erase takes the native root with its first block.
  A promise ends with the erase the user consented to. A save that fails is the
  save and then `Fence`, or `Fence` alone. The generation-1 pool of the test
  firmware is only a starting point; its latched bank fault is in OwnedVolume.

### OwnedPhy (`nand_owned_phy.c`, `nand_owned_phy_nrf.c`)

A call is a fixed program of SPI transfers, each followed by its check; the first
that fails makes the service refuse everything until a reset. `chip` is external:
its registers read back true, but it may ignore a command, read a page wrongly,
fail with or without saying so, leave the write latch set, or act or not act when
a transfer breaks off; each costs one of `MaxFaults`. Three rows stand for all:
below block 1536, and above it in or out of the sample of the capacity probe. A
close that fails or is late may have given the bus back already: it then answers
a fault.

### NandProbe and NandDiagnostics (`nand_id.c`, `nand_qualify.inc`, `nand_commands.c`, `nand_backup_*.c`, `nand_qualification_*.c`)

`NandProbe` is the driver: one admission, the program of a job as a sequence of
operations with the answer each must have, restoration of the chip's registers,
cleanup. `NandDiagnostics` adds the commands, the binary protocol with the host
and the USB link; the host and the stack are external and lose, refuse, repeat or
break off anything.

* A scan reads one row of interest per block; `PROGRESS` events carry nothing and
  are left out; the id job's chip-select lines are two, the second being the
  chip's. The chip becomes busy by itself only once a job works on it.
* The driver's answer to a second admission is not reached: the reservation of
  `mic_commands.c` that every command takes first excludes it.

### Enrollment and Microphone (`ble_security.c`, `main.c`, `mic_commands.c`, `mic_diagnostics.c`, `mic_pcm_store.c`, `ble_audio.c`)

`Enrollment` has the window for pairing a phone, the replacement of the owner, the
connection object and the restart command; `Microphone` extends it with the
capture of short clips and the session that streams one. A step is one section
under a lock or one access to an atomic: the holders (microphone worker, external
reservation, enrollment, restart) each claim their own flag and then look at the
others', on four threads (`Claimants`):

* the shell queues the local microphone tests (`queue_test`, `command_arm`), opens
  windows, asks for restarts and takes the external reservation for its commands;
* the codec and storage actor of the recorder takes the external reservation in
  `acquire` (`recording_runtime.c`), in the middle of anything else;
* the loop of `main()` takes it to save a setting
  (`recording_runtime_preferences_claim`), and replaces the owner;
* the Bluetooth thread queues clips (`mic_commands_queue_ble`).

A restart that found everyone idle only schedules the reset: for half a second the
shell and everyone else go on with `recovery` raised (`Committed`), and it is their
second look at it that refuses them. `command_open` looks at the owner before it
takes the lock (`open_look`). Who holds the external reservation gives it back at
any later time (`release_external`); what the recorder does with it is in
`Recorder` and `RecordingControl`.

There is one connection object (`CONFIG_BT_MAX_CONN` is 1), so a stale
pointer to it equals a fresh one: a pointer is the number of its connection, and
the comparison of the code is `SameObject`.

* Every thread has labels of its own, except where two threads run the same code
  (an expiry, `expire` and `finish`, runs on the shell and on the work queue).
  `TypeOK` names them per thread. The proof depends on it: a step is a
  thread's by its label, and an earlier version of the model called a label of
  the worker `finish` as well, so that `expire_finish` had a step for the worker
  which the code has not; the proof of `ClosingExact` found it.
* `ModesAssumption` lists the modes of `mic_commands.c`; an instance may leave some out.
* The stack's storing of a bond and its call of `pairing_complete` are one step, on
  the stack's thread. That the peer bonded and that there is exactly one bond is not
  tested: `CONFIG_BT_BONDING_REQUIRED` and `CONFIG_BT_MAX_PAIRED=1` give it.
* The statistics modes (`STATS`, `ARM_STATS`) are defined but not in the runs'
  instances: they are a capture that keeps nothing.
* `restart_advertising` does nothing while a restart is pending. If that restart is
  then abandoned, the radio is silent until something else starts it; the model
  has this behaviour and no property excludes it.

### SyncBroker (`recording_ble.c`, sync part of `recording_runtime.c`)

The Bluetooth receive thread, the work queue that notifies and the codec thread
that executes, with the hooks between their sections under the interrupt lock:
authorization, notification, admission, retirement. `heard` is what the phone was
sent.

* The handler's lock and the first lock of `deliver()` are one step: nothing
  preempts the cooperative work queue in between. `leave()` and the `kick()` after
  it are one step, the retire hook `kick()` calls is another.
* A failing `k_work_submit` and a clock that runs backwards are not modelled; a
  supervised deadline that passes is a reset. A completion that is refused while a
  frame is staged occurs only for a job that has already failed.

### SyncLink and Transfer (`recording_catalog.c`; `DurableRecordingSync.kt`, `RecordingSyncContract.kt`, `PendingPhoneDeletion.kt` of the app)

`SyncLink` follows one recording between the pendant and the phone: catalog,
manifest, segments, publication on the phone's disk, receipts, deletion on either
side, with the link breaking, the pendant resetting and the phone dying between
any two steps. `Transfer` is the same promise without messages, sessions or
failures, and `Transfers` (an `INSTANCE ... WITH` mapping) says that every
behaviour of `SyncLink` is one of `Transfer`. The abstract state is read off the
two stores alone: `sealed`, `final` and `there` are the pendant's records, `held`,
`wish` and `known` the phone's; a message on its way is in none of them.

* A deletion is confirmed only by the reply that carries its tombstone; finding
  the recording absent confirms nothing.
* The phone runs one library job at a time. `allowDownloadAgain` has no caller. The
  refusal of a selector is in `Serve` but not reached, since the phone only asks
  for what the snapshot showed it.
* Not modelled: fragments of a segment, the inventory and selection modes, yielding
  between batches, the size of a batch of receipts, and a volume that was
  provisioned anew under the phone (`staleVolume`).

### The MC modules

`MCFrames`, `MCNand` and `MCSync` put two components on one instance that share
no state: a variable `layer`, chosen at the start, says which of them moves, and
the other rests in an initial state. `MCFrames` and `MCSync` extend the component
the theorems are about (`FrameQueue`, `SyncLink`), so that a run evaluates the
assumptions of the proofs, and take the other one by `INSTANCE`. The queue in `Recorder` is the sequence that
`FrameQueue` shows it to be; the two users of the chip belong to two builds
(`OPENPENDANT_RECORDING_PROFILE` in `CMakeLists.txt`); the link rests on what
`BrokerSound` and `SessionRetires` say. `MCControl` starts `RecordingControl` with
some of its bounded inputs already used, `MCNativeVolume` adds a symmetry.
`MCMicrophone` chooses a scene at the start, which limits the requests, connections,
windows and restarts that are begun and never a call under way.

## 4. Runs

| Run | Instance | Shows |
|---|---|---|
| `frames` | queue: 2 producers, 1 worker, capacity 2, 4 tickets, 7 sample values, sessions starting at 0 and at 5; recorder: segments of 2 frames, queue of 1, 2 slots, 1 stop request, 1 late submission, 1 failure | `QueueSafe`, `StreamExact`, `StopAdmitsAtMostOne`, `FenceIsFinal` through wrap, overflow of the sample counter, re-entry, fencing, discarding and rearming; `FramesCovered` and `SavedExactly` of one recording |
| `recorder` | as above with 1 slot and 2 sessions, fairness | `SessionsApart` (ownership, quiet when released, stale calls), `UnsafeFreezes`, and a stop completes (`StopCompletes`) |
| `stop_race` | no failure, no stray | violation: see Findings |
| `control` | 2 requests of the phone and nothing else, or 1 request, 1 gesture and 1 maintenance claim; up to 2 tickets, reconnection, the store running full | `StartedOnce`, `ToldIsKept`, `RepliesToAsker`, `DeviceOwned`, `TapActsOnPress` |
| `control_stop` | 1 request, 1 gesture, fairness | a stop ends (`StopEnds`) |
| `control_overflow` | 1 gesture, a queue overflow | violation: see Findings |
| `owned_volume` | 2 map blocks of 2 pages, 2 banks of 2 slots, 9 snapshots, 9 leases, 1 reset | `DurableAcrossResets`, `LayersHonest`, `LeaseFresh`, `RetirementIsFinal` from provisioning to recycling, with a fault at every access |
| `native_volume` | 2 recordings, 2 roots, 3 slots, 1 payload page, 2 receipt pages, 2 tombstone pages of 1, 2 delete operations, 1 reset, 1 key reset | `PromisesKept`, `Mountable`, `RamAgrees`, `DeleteOnce`, `ReceiptsHonest` from provisioning to the reuse of slots |
| `nand` | diagnostics: six jobs, blocks of 2 rows, 2 polls, 2 faults, 1 reset; service: 3 profiles, 3 rows, 2 faults, 1 reset | `RestoredOrHeld`, `ErasedWithConsent`, `ReleasedOnCleanEnd`; `PhyAtRest`, `PhyHonest` |
| `microphone` | 1 phone, 1 fault, 1 capture, in five scenes. `admission`: the external reservation from shell, recorder and main loop, the power check, 1 window, 1 connection, restarts; `shell`: the same with arming and capture and no connection; `clip`: a clip over BLE, 2 connections, 1 window; `restart`: a clip over BLE, 1 connection, restarts; `windows`: 2 windows, 2 connections | `Exclusive`, `ClipsAreConsented` (with `NoDangling`), `OwnerIsBond`, `WindowLastsItsMinute` |
| `release` | two scenes: `clip` as above, and `capture`: power check, arming and capture of the shell and the external reservation, alone; 1 fault, fairness | `DeviceReleased`, `NothingLeaks` |
| `sync` | broker: 2 sessions, 2 connections, 2 requests, 1 fault, fairness; link: 2 segments, 3 connections, 2 deletions, 1 crash | `BrokerSound`, `AnsweredInFull`, `SessionRetires`; `PhoneTruth` and the refinement `Transfers` |

A property that is a conjunction names its parts in the module: `QueueSafe`, for
instance, is the type invariant, exact guards and bounded occupancy.

Why the bounds are enough:

* the queue's tickets wrap several times, and both a full and an empty queue meet
  every other call;
* a volume with two blocks and two slots per bank recycles banks and blocks, and
  every fault can follow every other step; the second boot mounts, grants and may
  be cut short by a fence;
* a recording spans two full segments with a third being captured, so that a job
  is in flight while another is built, and the slots run out;
* two requests cover the repetition of one operation and its stop, over one or two
  connections;
* in the native volume a recording is deleted and another takes its root and
  slots, a batch of receipts spans two pages, the list of tombstones runs full, and
  because the invariants speak of every image a cut could leave, the one reset is
  followed by one more cut at every later write;
* two faults of a chip let its recovery fail too; the service was also checked once
  with three faults and two resets (4.6 million states);
* two connections and two windows are what a stale pointer or a stale deadline
  needs; one clip, because the worker takes one job at a time;
* the scenes of `microphone` (1.1 million states in all) are there because their
  product is too large: every claimant meets the window, the replacement and the
  restart in one of them, and the theorem `ExclusiveHolds` has no such split. Larger
  ones were checked once by themselves: the admission with arming, capture and a
  connection (2.1 million states), a clip with two connections, a window and restarts
  (1.1 million), two windows and two connections around a clip (2.6 million);
* `control_stop` allows one attempt to start and to publish an end, so that only the
  giving up is in it; the repetition is in `control`;
* one request of a session can be revoked while another session opens; three
  connections let a download, its receipts and its deletion each be cut once.

Deadlock is checked in `frames` for the queue, in `control`, `control_stop`,
`microphone` and `release`. `CHECK_DEADLOCK FALSE` is used where the system may
stop: a fenced volume with no reset left, a reset device, a recorder whose
sessions are used up, a chip kept until a reset, a link with no connection left.

Every property has a mutant in `PROJECT.json`: a plausible slip in the code,
defined next to the definition it replaces, that makes TLC find the property
violated.

## 5. Fairness

* `Recorder`: the codec, capture and storage threads, the timer interrupt and
  a caller inside the gate run when they can (weak fairness). Nothing is assumed
  of users, failures or deadlines.
* `RecordingControl`: weak fairness of the work queue, the codec thread, and of
  a button sample or a claim that has begun. Strong fairness of the two steps in
  which the worker obeys a stop and ends its drain: its producer gate is only
  ever held for a few instructions, and a drain has a supervised deadline;
  `recorder` is the check of that assumption. No fairness for the phone, the
  button or the events that end a recording.
* `Microphone` (run `release`): weak fairness of the worker, of the shell, the main
  loop and the recorder's actor once their call has begun, and of the background (timers, Bluetooth
  callbacks that are due). None for phones, users, or the first step of a command.
* `SyncBroker` (run `sync`): weak fairness of the three threads and of the retire
  hook; time passes, and another owner of the runtime ends its command, which has
  a supervised deadline. None for the phone. `SyncLink` has only safety properties.

## 6. Proofs

Every theorem holds for all values of the constants that satisfy the named
assumptions; each module with an assumption is extended by the module of a run, so
that TLC evaluates it. The bounds (connections, windows, crashes, samples) are
arbitrary naturals in the proofs.

| Module | Theorem | Property of a run |
|---|---|---|
| `FrameQueueProofs` | `QueueInvariant`; `QueueTypeCorrect`, `QueueGuardsExact`, `QueueOccupancyBounded`; `QueueIsSafe` | `QueueSafe` |
| | `QueueFenceIsFinal` | `FenceIsFinal` |
| | `QueueStream`; `QueueDeliversTheStream`; `QueueStreamExact` | `StreamExact` |
| | `QueueStopAdmitsAtMostOne` | `StopAdmitsAtMostOne` |
| `SyncLinkProofs` | `LinkInvariant`; `PhoneTruthHolds` | `PhoneTruth` |
| | `LinkImplementsTransfer` | `Transfers` |
| | `BrokerSoundHolds` (from `BrokerIsSound`) | `BrokerSound` |
| | `AnsweredInFullHolds` (from `AnswersAreFull`) | `AnsweredInFull` |
| `EnrollmentProofs` | `EnrollmentInvariant`; `OwnerIsBondHolds` | `OwnerIsBond` |
| | `WindowLasts` | `WindowLastsItsMinute` |
| `MicrophoneProofs` | `MicrophoneInvariant`; `ExclusiveHolds` | `Exclusive` |
| | `NoDanglingHolds` | (a part of `ClipsAreConsented`) |
| | `ClipsAreConsentedHolds` | `ClipsAreConsented` |
| `ControlProofs` | `ControlInvariant`; `DeviceOwnedHolds` | `DeviceOwned` |
| | `StartedOnceHolds` | `StartedOnce` |
| | `ToldIsKeptHolds` | `ToldIsKept` |
| | `TapActsOnPressHolds` | `TapActsOnPress` |
| | `RepliesToAskerHolds` | `RepliesToAsker` |
| `BrokerProofs` | `BrokerInvariant`; `BrokerIsSound`, `AnswersAreFull` | (of `SyncBroker`) |
| `NativeVolumeProofs` | `DeleteInvariant`; `DeleteOnceHolds` | `DeleteOnce` |
| | `VolumeInvariant`; `PromisesKeptHolds` | `PromisesKept` |
| | `ReceiptsHonestHolds` | `ReceiptsHonest` |
| `OwnedVolumeProofs` | `OwnedInvariant`; `DurableAcrossResetsHolds` | `DurableAcrossResets` |
| | `LayersHonestHolds` | `LayersHonest` |
| | `LeaseFreshHolds` | `LeaseFresh` |
| | `RetirementIsFinalHolds` | `RetirementIsFinal` |

### The queue: IInv

The bound on the occupancy is not inductive, because a push decides on tickets it
loaded earlier; so `Windows` adds what a thread at each label still knows of the
tickets and the state, which holds because the guards are exclusive
(`GuardsExact`) and nobody leaves RUNNING without the producer guard. `Boot` says
that until `rfq_init` has ended only its caller is in a call. One lemma per
conjunct (`TypeStep`, `GuardStep`, `OccupancyStep`, `WindowStep`, `BootStep`) has
one step per action.

Assumptions: `ThreadsAssumption` (producers and workers are different threads),
`CapacityAssumption`, `TicketModAssumption` (the width is a multiple of the
capacity, as 2^32 and a power of two are) and `SampleAssumption`.

### The stream: StreamInv

The tickets wrap and the counters do not, so the argument is about the counters.
`Ring` ties each ticket to its counter modulo the capacity and says that frame j,
accepted and not yet delivered, lies in slot j modulo the capacity. A push counts
its frame before it publishes the ticket, a pop likewise, and a close wipes before
it moves the tail: `Balanced` has the three corrections. `Admitted` is what makes
the next push the next frame. `Latecomer` gives `StopAdmitsAtMostOne`.

`QueueDeliversTheStream` (delivery, and that a push never writes the slot a pop
reads) and the bound on a late push hold for any number of threads.
`QueueStreamExact` adds the summary, and has the hypothesis `OneWorker`:
`rfq_get_summary` checks the state before it takes the consumer guard and not
after, so that a second worker could rearm the queue in between. The firmware has
one recording worker, as has the run.

### The link: LinkInv

`PhoneTruth` and the refinement are not inductive: an answer is acted upon long
after the pendant gave it, a request performed long after the phone made it, and
either side may have begun anew in between. The invariant says what a message is
worth whatever has happened since (`ReceiptPledge`: its segments were published;
`DeletePledge`: its operation was asked for; `Pasts`: a catalog entry is a past state of the
recording, wherever it is), to which job it can belong (`Numbers`, `AnswerTurn`,
`RequestTurn`: a connection serves one job, and what is on its way over it is the
request that job waits for or the answer to it), and what a job at each place has
already checked (`Places`, `OnDisk`). `LinkImplementsTransfer` maps every action of `SyncLink` to a step of `Transfer`
or to a stutter. Assumption: `LinkBounds`.

### Enrollment: EnrollInv

`OwnerIsBond` and `WindowLastsItsMinute` rest on `closing` being a lock though the
code only sets and clears a flag: it is set exactly while one thread is between
`detach_enrollment_locked`, or the beginning of `replace_local`, and its release
(`ClosingExact`). `Deadlines` says that whoever goes to close a window brings the
deadline it read; `Ownership` that once the old bond is gone no peer is connected
until the new window. The theorem is about the specification of `Microphone`, so
everything the clips and the sessions do happens in between. Assumptions:
`PeersAssumption`, `EnrollmentBounds`.

### The microphone: MicInv

`busy` is a lock, held by exactly one of seven parties: one of the four threads in the
admission (shell, Bluetooth, recorder, main loop), the semaphore, the worker, the
external holder (`BusyExact`). The window of an enrollment and a restart are not: each
raises its flag and looks at `busy`, as the admission takes `busy` and looks at their
flags, and whoever comes second sees the first (`Exclusion`). For the restart this is
in two steps: once it has seen `busy` clear (`SawIdle`) there is no job, and no request
is past its own look at the restart; once it has also seen the window closed
(`SawClosed`) there is none. Both last until the reset, though the shell goes on and
requests keep taking and freeing `busy` in the meantime. `Connected` says that whoever
points to the connection has its reference, which is why it is not recycled.
`Peripheral` and `Tapped` give `ClipsAreConsented`: the debouncing gate is never
ahead of the edges the button has made. Assumptions: those of
enrollment, `MicrophoneBounds`, `ModesAssumption`.

### Recording control: ControlInv

Five threads (the broker's work item, the button, the codec thread, maintenance,
the Bluetooth callbacks) share the coordinator, the broker and the runtime, and
the gate covers single calls of the coordinator only. None of the five properties is
inductive; what is added says what remains true across the calls.

- `Waits`: an operation waits while it is armed, or while a thread has left
  the gate to queue it, or has been refused. Then it is the current one, it has not
  begun (`Unbegun`), it has never run, and neither the message nor the codec thread
  is anybody's. `submitting` is raised exactly while a thread is in that passage, and
  only one is.
- `Owned`: the current operation, if active, waits, or has the runtime, or the
  coordinator is in fault. `Runtime` says who has the runtime: the message together with
  the codec thread, the preferences claim or the pairing claim.
- `Codecs`: the codec thread may run ahead of the call that queued its
  operation, and it may still be ending one when the next begins. While it works, its
  ticket is the current one and that one is active; once it is ending, either its
  end was published or its ticket is an old one.
- `Ledger`, `Runs`: a ticket has one operation and an operation one ticket, tickets
  are never reused, and what has run is in the ledger. With `Waits` this is
  `StartedOnce`.
- `Told`: what the phone was told, or the reply on its way tells it, is a past state
  of the operation (`Progress`, which is proved transitive), and an answered STOP is
  remembered until the operation has left RUNNING.
- `Fresh`: what was idle at the press is idle while nothing has begun since. This
  and `Ledger` give `TapActsOnPress`.
- `Off`, `Gates`, `Numbers`: what a reset leaves, who has the gate, which request
  numbers exist.

One lemma per action shows that it preserves the parts it can disturb; an action
that only moves a thread's label is covered by lemmas on what the parts depend on.
Assumptions: `OpsAssumption` (identities of operations are numbers below the local
ones), `BoundsAssumption`, `EventsAssumption`, and `ConnsAssumption` (a connection
is neither "none" nor "off"). The bounds on requests, taps, claims and retries are
arbitrary.

### The broker: BrokerInv

What a thread saw under the lock it uses after the others have been there: the
receive thread asks for a permit between two sections, the work item
notifies between two, the codec thread performs the request between two, and the
link may break at any moment.

- `Counted`, `Sessions`: an actor is a thread between `enter()` and `leave()`, and
  while there is one the session is neither cleared nor replaced, so that the epoch
  the actor brought is the current one.
- `Flags`: `submitting`, `delivering` and `completing` are raised exactly while
  one thread, a different one for each, is in the passage they stand for.
- `Submits`, `Claims`, `Serves`: a request belongs to the receive thread, then to
  the message, then to the codec thread, and `command_busy` to whoever has it. The
  frame that is served is the one after the frames that were sent.
- `Retires`: from the last `kick()` of a session over the hook and the runtime's
  latch to the retirement and the end of the latch. Two sessions meet here: the
  broker forgets the old one before the codec thread has unlatched it.
- `Faults`: a broker that has recorded a fault implies a runtime that has failed, or a
  codec thread about to say so.
- `Delivers`: what was notified so far and what is staged make a prefix of the
  answer to the pending request. It gives `AnsweredInFull`.

The parts are predicates of the broker and of the threads, not of the variables,
since a section makes several changes: a lemma follows each of them
(`expire_locked`, the change of the operation itself, `clear`, `kick()`,
`schedule`), and an action's lemma chains those it makes. The end of
`SyncLinkProofs`, which extends `MCSync`, then shows
that the broker inside `MCSync`, the specification of the run, takes its own steps
only. Assumption: `BrokerBounds`; the number of connections, nonces, sequence
numbers, writes and failures is arbitrary.

### The native volume: DeleteInv

A cut leaves any one of the images written since the last sync, so `DeleteOnce` has
to hold of all of them, while `rsm_delete` decides on what RAM says.

- `WellKept`: on every image a tombstone page is missing or a list, no two tombstones
  share operation, recording or revision, and the revisions are bounded.
- `Answered`: a promised deletion is a tombstone of every image.
- `Cached`, `Same`: the deleted ids and the revision in RAM cover the map, and the
  images agree on their tombstones, except while a tombstone is written and not yet
  synced (`Deleting`), when nothing is decided.
- `Pending`: the pages on their way are pages of receipts, or the empty pages of a
  creation on a map without tombstones, or one tombstone page that is the one on the map
  with a new tombstone at its end.
- `AtRest`: a volume that is not mounted has no metadata in RAM, and nothing is promised
  of one that is being formatted.

The pages of a creation, the newest revision and the pages of a receipt are recursive
functions in the model, as they are loops in the code. What they yield is argued from
the least page or number for which it fails (`LeastNumber`), which the provers can do
where an induction theorem with an operator as parameter is out of reach. Assumption:
`LayoutAssumption`.

### The native volume: VolumeInv

`PromisesKept` and `ReceiptsHonest` speak of every image, but the store decides where to
write by its own RAM, which a recovery built and every job since has changed. `VolumeInv`
is `DeleteInv` with what makes those decisions safe.

- `Durable`: what the two properties say, of each image, with the kinds of its pages.
- `Backed`, `Single`: what RAM says is deleted has its tombstone on every image; a cut has
  a choice of images only in a recording or while a metadata page is not synced.
- `StoreSound`: a slot or root RAM counts as free is empty or of a deleted recording,
  unless the job at work has just written it (`Slotted`, `Rooted`); how far a job is on the
  map for each of its stages, and that there is one image only when it is `ready`, which is
  when its promise is made (`SegmentJob`, `RootJob`). A write is then always to a place of
  which nothing is promised (`Unpromised`, `Carried`).
- `Catalog`: every segment an item of the open catalog counts is committed in a slot, which
  is why a receipt filed by `SlotOf` lands beside it.
- `Receiving`: an entry of a receipt page on its way is the one on the map, or takes the
  place of none or of a deleted recording's and names the segment of its slot; every
  receipt of the reply is on the map or on a page still to come. While a new metadata is
  being created no image has a receipt.
- `Modes`: which of store, metadata and catalog are open in which state of the volume.

The mount is where the scan of roots and slots enters: `RootsScanned` and `SlotsScanned`
show, page by page, that what a recovery leaves in RAM satisfies `Slotted` and `Rooted`.

### The owned volume: OwnedInv

`DurableAcrossResets` speaks of the root the next boot would select, from banks of which
an interrupted publish may have left any slot torn, and the calls that write them decide
by what a boot put in RAM. `OwnedInv` says how the two fit.

- `RootIs`: the snapshots on flash are one chain. The bank of the root holds a run of
  slots up to the root, each following the one before; whatever is sealed in the other
  bank is older than the run, and its last snapshot, if the epochs meet, is the
  predecessor of the first. A root with this property is the one `ocj_boot` selects, and
  a torn slot after it or an erase of the other bank does not change which one that is.
- `DurableInv`: either nothing is sealed and nothing was promised, or the boot root is
  `Sound`: it is the acknowledged one or may follow it, its valid pages hold their
  leases, it has every page that was kept, and no lease in use is above its high water.
- `ModeInv`: which of journal, adapter and call in progress exist in which state of the
  volume.
- `RootInv`, `HistoryInv`: the root in RAM is the boot root, except between the program and
  the verification; where `tail_fresh` holds, the slots after it are erased. The
  page history in RAM extends the root's, and the pages it counts as unused of a fresh
  block are blank and their leases unused.
- `LeaseInv`: from the acquisition to the resolution of a lease: an erase is of a block
  with no valid page and takes a base above every lease in use, a program is of the last
  page consumed and its lease is unused until it mutates.
- `AdapterInv`: the adapter's copy of sequence, high water and retired blocks follows
  the journal's root, which is what its checks before a mutation compare.
- `PublishInv`: the candidate has the form the operation wants (`IntentInv`) and may follow
  the root, and its slot is erased by the time it is programmed.

There is one lemma per action, with one step per part it can disturb; what a publish has in
common for all operations (a new candidate, the bank's erase, the program, the failure of
either) is proved once. Leases stay fresh because the ranges of two blocks are disjoint in
every snapshot that passes `Syntax`, so that a block's next page cannot carry a lease of
another. `RetirementIsFinal` follows from `Transition` between one acknowledged root and the
next. Assumptions: `GeometryAssumption` (the blocks are finitely many numbers, there is at least
one page and one slot) and `LimitAssumption` (there is at least one epoch).

Before they were proved, the invariants of the link, enrollment, the microphone,
recording control, the broker and the two volumes were checked by TLC on instances of
the size of the runs' (`ControlInv`: 3,014,233 states; `BrokerInv`: 905,523; `DeleteInv`
and `VolumeInv`: 190,660; `OwnedInv`: 554,663).

### Only model-checked

The liveness properties and everything about fairness are out of the prover's reach, as
are the library's induction theorems; of `RecordingControl` this leaves `StopEnds` to
TLC, of `SyncBroker` `SessionRetires`. Not proved are the properties of `Recorder`,
`OwnedPhy` and `NandDiagnostics`, `Mountable` and `RamAgrees` of
`NativeVolume`, and what `MCFrames` states about the recorder it takes by `INSTANCE`
(`FramesCovered`, `SavedExactly`).

## 7. Findings

* `stop_race`: a comment in `recorder_release` says a stop that races a frame is
  answered STOPPED_INPUT and ends cleanly. When the frame arrives while
  `rw_request_stop` is inside the producer gate, `rw_submit` answers BUSY and
  marks the session with a producer fault; the recording ends with a reset.
* `control_overflow`: `recording_pipeline.h` and a comment of the worker say
  that an overflow seals its prefix. Under recording control, the loop publishes
  DRAINING with the reason OVERFLOW, the codec's state check refuses that
  combination, and the loop resets the device before the drain has ended.

## 8. Not modelled

* The legacy profiles of the object store, the sync metadata (and its migration)
  and the catalog; bad blocks and the page cache of the native store; standby and
  the shell commands of the runtime; the admission thresholds of the battery.
* `host_permit.c` and the recovery authorizer: what they decide is the
  verification of signed bytes.
* On the phone: Bluetooth callbacks and stream assembly, the journal of recording
  intents (`RecordingControl` lets the phone ask anything, in any order), key
  vaults, playback, transcription, the workspace, the user interface.
* Of the diagnostics: the public object, the read and write rates, the preservation
  of a pool, the Dhara trial, the capacity probe, the Opus benchmark; the one-shot
  probes; IMU and LEDs.
* Cryptography, audio coding and signal processing: their results are modelled
  (success, failure, pending), not their computation.
* Steps taken together: a submission's failed claim of the gate and the mark it leaves
  in the session's token (`SubmitTake`), a push and the latch that follows
  (`SubmitPush`). Checks left out: the flags and counts of `lc_validate_state`
  (`RecordingControl.Valid`), the largest batch of receipts and its early flush on the
  phone (`SyncLink.NextReceipts`), a chip select that cannot be raised (`NandProbe`).
  The 64 pages read after an erase are one row (`OwnedPhy.verify_erase`).
* Bit layouts of pages, settings and messages: what a page may hold after success,
  failure or a cut is modelled, its bytes are not.
* Telemetry, preference records, host tools: no protocol of their own.
* Vendored libraries (Zephyr, Dhara, Opus, PSA), the flash chip and the host
  program: external; modelled only through what this code asks of them.
