------------------------------ MODULE NativeVolume -----------------------------
(***************************************************************************)
(* The native volume (recording_native_volume.c) with its two tenants, the *)
(* object store and the sync metadata, and the catalog that serves them to *)
(* the phone (recording_catalog.c, recording_catalog_full.inc).  The       *)
(* runtime opens the volume for one session at a time, a recording or a    *)
(* sync, and suspends it after each (mount_writable, recorder_release,     *)
(* retire_perform in recording_runtime.c); in a session one thread at a    *)
(* time works on the store.                                                *)
(*                                                                         *)
(* A fault anywhere (a deadline, an I/O error, a refused admission, a      *)
(* conflict the catalog finds) fences the volume until the next reset.     *)
(***************************************************************************)
EXTENDS ObjectStore, SyncMetadata, RecordingConfiguration

CONSTANT MaxBoots   \* bound: resets considered

ASSUME BootsAssumption == MaxBoots \in Nat

VARIABLES
  native,  \* durable: the generation of the native root on the chip, or none
  vol,     \* RV_ state of the volume, RV_WRITABLE by its session
  cat,     \* the catalog of the sync session, as it was opened
  boots    \* resets so far

vars == <<versions, promised, ros, rsm, cfg, native, vol, cat, boots>>
durable == <<cfg, native, boots>>

NoCatalog == [opened |-> FALSE, items |-> {}]

NoNativeRoot == 0

(* A pendant with the test pool, which neither recording nor sync opens    *)
(* here: rv_init of a record that is not ACTIVE awaits provisioning.       *)
Configured(record) ==
  IF record.generation < FullStorage THEN "LEGACY"
  ELSE IF record.phase = "ACTIVE" THEN "CONFIGURED" ELSE "PREPARED"

Init ==
  /\ versions = <<Formatted>> /\ promised = {} /\ ros = NoStore /\ rsm = NoMetadata
  /\ cfg = [phase |-> "ACTIVE", generation |-> Legacy] /\ native = NoNativeRoot
  /\ vol = Configured(cfg) /\ cat = NoCatalog
  /\ boots = 0

Forget == ros' = NoStore /\ rsm' = NoMetadata /\ cat' = NoCatalog

(* fence: any layer failed, at any point.                                  *)
Fence ==
  /\ vol # "FENCED" /\ vol' = "FENCED" /\ Forget
  /\ UNCHANGED <<versions, promised, durable>>

ActiveVolume == cfg.phase = "ACTIVE" /\ rcfg_is_full

(* A reset, at any point; rv_init.  The bound is on the resets of an       *)
(* active volume: those of one that is not keep nothing in RAM.            *)
Reset ==
  /\ IF ActiveVolume THEN boots < MaxBoots /\ boots' = boots + 1 ELSE UNCHANGED boots
  /\ Cut /\ Forget
  /\ vol' = Configured(cfg)
  /\ UNCHANGED <<promised, cfg, native>>

-----------------------------------------------------------------------------
(* Provisioning, commanded over USB: the words of each command name what   *)
(* it destroys.                                                            *)

(* TASK_FULL_PREPARE and TASK_KEY_PREPARE, before the volume is opened:    *)
(* `ready' is cleared, and nothing more runs before the next reset.        *)
PrepareFull ==
  /\ vol = "LEGACY" /\ rcfg_prepare_full /\ vol' = "RETIRED"
  /\ UNCHANGED <<versions, promised, ros, rsm, native, cat, boots>>

PrepareKeyReset ==
  /\ vol = "CONFIGURED" /\ rcfg_prepare_key_reset /\ vol' = "RETIRED"
  /\ UNCHANGED <<versions, promised, ros, rsm, native, cat, boots>>

(* provision_full: once for a first volume, a cut before ACTIVE is never   *)
(* formatted again; a key reset may be repeated until it is through.  What *)
(* was promised of the old volume ends here, by the owner's command.       *)
rv_provision_full ==
  /\ vol = "PREPARED" /\ rcfg_advance("PREPARED", "PROVISIONING")
  /\ vol' = "FORMATTING" /\ promised' = {}
  /\ UNCHANGED <<versions, ros, rsm, native, cat, boots>>

rv_erase_key_reset ==
  /\ vol = "PREPARED" /\ rcfg_is_key_reset
  /\ \/ rcfg_advance("PREPARED", "PROVISIONING")
     \/ cfg.phase = "PROVISIONING" /\ UNCHANGED cfg
  /\ vol' = "ERASING" /\ promised' = {}
  /\ UNCHANGED <<versions, ros, rsm, native, cat, boots>>

(* rns_format_begin and the first rns_format_step: from the first block    *)
(* on, and a native root on the chip is gone.                              *)
EraseRoot ==
  /\ vol \in {"FORMATTING", "ERASING"} /\ native # NoNativeRoot /\ native' = NoNativeRoot
  /\ UNCHANGED <<versions, promised, ros, rsm, cfg, vol, cat, boots>>

(* The remaining rns_format_steps, and publish_root under the generation.  *)
Format ==
  /\ vol \in {"FORMATTING", "ERASING"} /\ native = NoNativeRoot
  /\ rns_format /\ native' = cfg.generation
  /\ vol' = IF vol = "ERASING" THEN "RESETTING" ELSE "PROVISIONING"
  /\ UNCHANGED <<promised, ros, rsm, cfg, cat, boots>>

(* decode: every page names the digest of the descriptor it was written    *)
(* under.                                                                  *)
decode_written(root) == root # NoNativeRoot
decode(root) == root = cfg.generation

(* dhara_map_resume, and the native root decodes.                          *)
rns_mount == decode(native)

(* rv_complete_full: the native root is there, what came after it may not. *)
Complete ==
  /\ vol = "PREPARED" /\ cfg.phase = "PROVISIONING" /\ rns_mount /\ vol' = "PROVISIONING"
  /\ UNCHANGED <<versions, promised, ros, rsm, durable, cat>>

Creating == vol \in {"PROVISIONING", "RESETTING"}

(* applications(creating): the metadata is created when no page of it is   *)
(* there, read when all are, and refused otherwise.                        *)
CreateMetadata ==
  /\ Creating /\ ~rsm.mounted /\ Idle /\ AllMissing(Image)
  /\ rsm' = [rsm EXCEPT !.todo = CreatePages]
  /\ UNCHANGED <<versions, promised, ros, durable, vol, cat>>

OpenMetadata ==
  /\ Creating /\ ~rsm.mounted /\ Idle /\ MetadataValid(Image)
  /\ rsm' = Opened
  /\ UNCHANGED <<versions, promised, ros, durable, vol, cat>>

(* rns_suspend: what was written is synced, and the bus is closed.         *)
rv_suspend == rns_sync /\ vol' = "SUSPENDED"

(* recover_recordings, rns_sync, rcfg_advance, and the runtime's suspend;  *)
(* after TASK_KEY_ERASE `ready' is cleared too.                            *)
Activate ==
  /\ Creating /\ rsm.mounted
  /\ ros_recover_retired(rsm.deleted) /\ rcfg_advance("PROVISIONING", "ACTIVE")
  /\ \/ vol = "PROVISIONING" /\ rv_suspend
     \/ vol = "RESETTING" /\ rns_sync /\ vol' = "RETIRED"
  /\ UNCHANGED <<promised, rsm, native, cat, boots>>

-----------------------------------------------------------------------------
(* Sessions.                                                               *)

(* mount_writable, the first time after a reset: rv_mount and rv_grant.    *)
(* The object store is rebuilt with every tombstone on the map.            *)
Mount(session) ==
  /\ vol = "CONFIGURED" /\ rns_mount /\ MetadataValid(Image)
  /\ rsm' = Opened /\ ros_recover_retired(Opened.deleted)
  /\ vol' = session
  /\ UNCHANGED <<versions, promised, durable, cat>>

(* mount_writable later: rv_reopen, with the tombstones since.             *)
Reopen(session) ==
  /\ vol = "SUSPENDED" /\ ros_recover_retired(rsm.deleted)
  /\ vol' = session
  /\ UNCHANGED <<versions, promised, rsm, durable, cat>>

(* A recording: the jobs of the object store, as the recorder submits and  *)
(* steps them.                                                             *)
StoreStep ==
  \/ \E id \in Recs : ros_reserve(id)
  \/ ros_prepare \/ ros_prepare_deferred \/ ros_finalize
  \/ WriteRoot \/ SyncRoot \/ VerifyRoot
  \/ Seal \/ WriteIntent \/ SyncIntent \/ VerifyIntent \/ WritePayload
  \/ WriteCommit \/ SyncCommit \/ VerifyPayload \/ VerifyCommit
  \/ ros_take_segment_receipt \/ ros_take_final_receipt \/ ros_finish

Recording ==
  /\ vol = "RECORDING" /\ StoreStep
  /\ UNCHANGED <<rsm, durable, vol, cat>>

(* recorder_release: nothing is active and no job is left.                 *)
EndRecording ==
  /\ vol = "RECORDING" /\ ros.job = "NONE" /\ ros.active = NoRoot
  /\ rv_suspend
  /\ UNCHANGED <<promised, ros, rsm, durable, cat>>

(* Pages of the metadata on their way.                                     *)
Publish ==
  /\ WritePage \/ SyncPage
  /\ UNCHANGED <<ros, durable, vol, cat>>

-----------------------------------------------------------------------------
(* The catalog of a sync session.                                          *)

(* full_open: the live recordings, each with all its committed slots.      *)
Items == {[id |-> ros.records[r].id, segments |-> ros.records[r].segments,
           state |-> (IF ros.records[r].finalized THEN 1 ELSE 0)
                     + (IF ros.records[r].interrupted THEN 2 ELSE 0)] :
            r \in {x \in RootNo : /\ ros.records[x].present
                                  /\ ros.records[x].id \notin rsm.deleted}}
AllSegmentsHeld(item) ==
  \A q \in 0..item.segments-1 : \E s \in SlotNo : Holds(s, item.id, q)

NoStranger(s) == ros.used[s] = "COMMIT" =>
  \/ Image[Slot(s)].id \in rsm.deleted
  \/ \E item \in Items : /\ item.id = Image[Slot(s)].id
                         /\ Image[Slot(s)].seq < item.segments
IndexComplete == /\ \A item \in Items : AllSegmentsHeld(item)
                 /\ \A s \in SlotNo : NoStranger(s)

rcat_open ==
  /\ vol = "SYNCING" /\ ~cat.opened /\ ros.job = "NONE" /\ IndexComplete
  /\ cat' = [opened |-> TRUE, items |-> Items]
  /\ UNCHANGED <<versions, promised, ros, rsm, durable, vol>>

(* rsm_record_deleted: a tombstone revokes an item of the open catalog.    *)
Serving == vol = "SYNCING" /\ cat.opened /\ Idle
Available(item) == item \in cat.items /\ item.id \notin rsm.deleted

(* full_cache for the segments first..last of an item: a description read  *)
(* from the store releases a loaded segment, unless it is that one.        *)
Loaded(item, q) == ros.job = "LOAD" /\ ros.seg.id = item.id /\ ros.seg.seq = q
full_cache(item, first, last) ==
  IF ros.job = "LOAD" /\ ~(first = last /\ Loaded(item, first)) THEN FinishJob ELSE ros

(* DB_FULL_MANIFEST, a part that holds the entry of a segment.             *)
ReadManifest(item, q) ==
  /\ Serving /\ Available(item) /\ q < item.segments
  /\ ros' = full_cache(item, q, q)
  /\ UNCHANGED <<versions, promised, rsm, durable, vol, cat>>

(* DB_FULL_SEGMENT, and the parts of a DB_FULL_STREAM.                     *)
ReadSegment(item, q) ==
  /\ Serving /\ Available(item) /\ q < item.segments
  /\ IF Loaded(item, q) THEN UNCHANGED ros ELSE ros_load(SlotOf(item.id, q))
  /\ UNCHANGED <<versions, promised, rsm, durable, vol, cat>>

(* DB_FULL_RECEIVE_ACK for one segment; DB_FULL_RECEIVE_RANGE for several  *)
(* of a recording that has ended.                                          *)
ReceiptsBySequence(item, first, last) ==
  [s \in first..last |-> [id |-> item.id, seq |-> s]]
ReceiptsOf(item, first, last) ==
  [s \in {SlotOf(item.id, q) : q \in first..last} |->
     [id |-> item.id, seq |-> Image[Slot(s)].seq]]
Receive(item, first, last) ==
  /\ Serving /\ Available(item) /\ first <= last /\ last < item.segments
  /\ first < last => item.state # 0
  /\ rsm_receive_slots(ReceiptsOf(item, first, last))
  /\ ros' = full_cache(item, first, last)
  /\ UNCHANGED <<durable, vol, cat>>

(* DB_FULL_DELETE: the exact repetition of an earlier one is answered from *)
(* its tombstone, with or without a catalog item.                          *)
Replay(op, man) ==
  /\ Serving /\ rsm_replay_delete(op, man)
  /\ UNCHANGED <<ros, durable, vol, cat>>

Delete(op, man) ==
  /\ Serving /\ man \in cat.items /\ man.state # 0
  /\ rsm_delete(op, man)
  /\ UNCHANGED <<ros, durable, vol, cat>>

(* retire_perform: rcat_retire releases a loaded segment, rv_suspend.      *)
EndSync ==
  /\ vol = "SYNCING" /\ Idle /\ ros.job \in {"NONE", "LOAD"}
  /\ ros' = FinishJob /\ cat' = NoCatalog /\ rv_suspend
  /\ UNCHANGED <<promised, rsm, durable>>

-----------------------------------------------------------------------------
Provisioning == PrepareFull \/ PrepareKeyReset \/ rv_provision_full \/ rv_erase_key_reset \/ EraseRoot
                \/ Format \/ Complete \/ CreateMetadata \/ OpenMetadata
                \/ Activate

Session == \E s \in {"RECORDING", "SYNCING"} : Mount(s) \/ Reopen(s)

Syncing ==
  \/ rcat_open \/ EndSync
  \/ \E item \in cat.items, q \in SlotNo : ReadManifest(item, q) \/ ReadSegment(item, q)
  \/ \E item \in cat.items, a, b \in SlotNo : Receive(item, a, b)
  \/ \E op \in Ops, man \in Manifests : Replay(op, man) \/ Delete(op, man)

Next == Provisioning \/ Session \/ Recording \/ EndRecording \/ Publish \/ Syncing
        \/ Fence \/ Reset

Spec == Init /\ [][Next]_vars

-----------------------------------------------------------------------------
(* Properties.                                                             *)

Images == Range(versions)

RecordType ==
  {NoRecord} \cup
  [present : {TRUE}, id : Recs, segments : 0..Slots, finalized : BOOLEAN,
   interrupted : BOOLEAN, blocked : BOOLEAN, completion : 0..Slots]

(* Types of the RAM of ros_context and recording_sync_metadata; every      *)
(* image of the map holds a page of its own kind in each sector.           *)
TypeOK ==
  /\ cfg \in [phase : {"PREPARED", "PROVISIONING", "ACTIVE"},
              generation : Legacy..FullStorage+MaxKeyResets]
  /\ native \in {NoNativeRoot} \cup FullStorage..FullStorage+MaxKeyResets
  /\ vol \in {"LEGACY", "RETIRED", "PREPARED", "FORMATTING", "ERASING", "PROVISIONING",
              "RESETTING", "CONFIGURED", "SUSPENDED", "RECORDING", "SYNCING", "FENCED"}
  /\ boots \in 0..MaxBoots
  /\ ros.active \in 0..Roots /\ ros.records \in [RootNo -> RecordType]
  /\ ros.used \in [SlotNo -> {"FREE", "INTENT", "COMMIT"}]
  /\ ros.job \in {"NONE", "RESERVE", "SEGMENT", "FINALIZE", "LOAD"}
  /\ ros.index \in 0..DataPages /\ ros.retired \subseteq Recs
  /\ rsm.deleted \subseteq Recs /\ rsm.revision \in Nat
  /\ cat.items \subseteq [id : Recs, segments : 0..Slots, state : 0..2]
  /\ \A m \in Images : \A r \in RootNo, s \in SlotNo :
       /\ m[Root(r)].kind \in {"missing", "ACTIVE", "FINAL"}
       /\ m[Slot(s)].kind \in {"missing", "INTENT", "COMMIT"}

(* A volume that was activated can be mounted after a cut at any point:    *)
(* the native root is of the generation of the record, and rsmx_open and   *)
(* the recovery of the object store accept every image of the map a cut    *)
(* can leave, whatever was being written; and every image is well-formed.  *)
Mountable ==
  /\ TypeOK
  /\ ActiveVolume =>
       native = cfg.generation /\ \A m \in Images : MetadataValid(m) /\ Recovery(m, Deleted(m)).ok

(* What an image still has of a promise.                                   *)
Committed(m, id, seq) ==
  \E s \in SlotNo :
    LET page == m[Slot(s)]
    IN /\ page.kind = "COMMIT" /\ page.id = id /\ page.seq = seq
       /\ \A i \in 1..DataPages : m[Data(s, i)] = DataPage(page, i)
Kept(m, p) ==
  CASE p.kind = "segment" -> Committed(m, p.id, p.seq)
    [] p.kind = "final" -> \E r \in RootNo :
         m[Root(r)] = [kind |-> "FINAL", id |-> p.id, segments |-> p.segments]
    [] p.kind = "receipt" -> \E s \in SlotNo :
         ReceiptAt(m, s) = [id |-> p.id, seq |-> p.seq]

(* Whatever a caller was told is durable outlives a cut at any later       *)
(* point: a segment and all of its payload, the end of a recording, a      *)
(* receipt of the phone.  Only a deletion ends it, and then the tombstone  *)
(* is on the map wherever the slot, the root or the receipt is not; or the *)
(* owner's command to erase the volume for a new key.                      *)
PromisesKept ==
  \A m \in Images : \A p \in promised :
    p.kind # "delete" => p.id \in Deleted(m) \/ Kept(m, p)

(* The store's RAM, kept up to date job by job, is what a recovery of the  *)
(* map would find: the same recordings with the same segments, the same    *)
(* slots in use, the same ids deleted.  So a reset neither finds a slot    *)
(* the running store would give away nor loses one it counts as taken, and *)
(* full_open finds every segment of every recording in some slot.          *)
RamAgrees ==
  vol \in {"RECORDING", "SYNCING", "SUSPENDED"} /\ ros.job \in {"NONE", "LOAD"} /\ Idle =>
    LET found == Recovery(Image, ros.retired)
        live(r) == IF r = ros.active THEN [found.records[r] EXCEPT !.interrupted = FALSE]
                   ELSE found.records[r]
    IN /\ found.ok
       /\ ros.used = found.used
       /\ ros.records = [r \in RootNo |-> live(r)]
       /\ rsm.deleted = Deleted(Image) /\ rsm.revision = Newest(Image)
       /\ ros.retired \subseteq rsm.deleted
       /\ IndexComplete

(* A delete is answered the same way for good: however often the phone     *)
(* repeats it, before or after a reset, the operation has one revision,    *)
(* a recording is deleted by one operation, no two deletions share a       *)
(* revision, and every image keeps the tombstone.                          *)
DeleteOnce ==
  LET deletes == {p \in promised : p.kind = "delete"}
  IN /\ \A p, q \in deletes :
          p.op = q.op \/ p.man.id = q.man.id \/ p.rev = q.rev => p = q
     /\ \A p \in deletes, m \in Images :
          [op |-> p.op, man |-> p.man, rev |-> p.rev] \in Tombstones(m)

(* A receipt of a recording that is not deleted is next to the segment it  *)
(* is for: no reuse of a slot leaves a receipt that would vouch for        *)
(* another segment.                                                        *)
ReceiptsHonest ==
  \A m \in Images : \A s \in SlotNo :
    LET r == ReceiptAt(m, s)
    IN r # NoReceipt /\ r.id \notin Deleted(m) =>
         m[Slot(s)].kind = "COMMIT" /\ m[Slot(s)].id = r.id /\ m[Slot(s)].seq = r.seq
================================================================================
