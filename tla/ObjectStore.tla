------------------------------ MODULE ObjectStore ------------------------------
(***************************************************************************)
(* The object store (recording_object_store.c): recordings as a root       *)
(* sector and the slots of their segments, in the full-chip profile.  One  *)
(* job at a time; a step of a job is one ros_step, which makes at most one *)
(* access to the map.  A job that fails, runs late or is cancelled faults  *)
(* the store for good; the volume around it is then fenced until a reset,  *)
(* and its Fence action stands for all of these.                           *)
(*                                                                         *)
(* Samples, modes and digests are left out: a segment is known by its      *)
(* recording and its sequence number.                                      *)
(***************************************************************************)
EXTENDS LogicalMap

VARIABLE ros    \* RAM of the store: ros_context

NoRecord == [present |-> FALSE]
NoRoot == Roots
NoSeg == [id |-> "none"]

(* A context after ros_init_full.                                          *)
NoStore ==
  [mounted |-> FALSE, job |-> "NONE", stage |-> 0, ready |-> FALSE, index |-> 0,
   active |-> NoRoot, root |-> NoRoot, slot |-> 0, seg |-> NoSeg,
   pending |-> NoRecord, retired |-> {},
   records |-> [r \in RootNo |-> NoRecord], used |-> [s \in SlotNo |-> "FREE"]]

Record(id) == [present |-> TRUE, id |-> id, segments |-> 0, finalized |-> FALSE,
               interrupted |-> FALSE, blocked |-> FALSE, completion |-> 0]

(* catalog_root and catalog_segment: what a catalog sector says.           *)
RootPage(kind, r) == [kind |-> kind, id |-> r.id,
                      segments |-> IF kind = "FINAL" THEN r.completion ELSE 0]
SlotPage(kind, seg) ==
  [kind |-> kind, id |-> seg.id, root |-> seg.root, seq |-> seg.seq]
DataPage(seg, i) == [kind |-> "data", id |-> seg.id, seq |-> seg.seq, index |-> i]

-----------------------------------------------------------------------------
(* Recovery: recover_step until the store is ready.  It only reads.        *)

(* parse_root, for one root after the other.                               *)
ScanRoots(m, retired) ==
  LET scan[n \in 0..Roots] ==
        IF n = 0 THEN [ok |-> TRUE, records |-> NoStore.records]
        ELSE LET r == n - 1
                 before == scan[r]
                 page == m[Root(r)]
             IN IF page = Missing THEN before
                ELSE IF \E i \in 0..r-1 : /\ before.records[i].present
                                          /\ before.records[i].id = page.id
                THEN [before EXCEPT !.ok = FALSE]
                ELSE IF page.id \in retired THEN before
                ELSE [before EXCEPT !.records[r] =
                        [Record(page.id) EXCEPT
                           !.finalized = page.kind = "FINAL",
                           !.interrupted = page.kind = "ACTIVE",
                           !.completion = page.segments]]
  IN scan[Roots]

(* parse_segment and sequence_valid: a slot belongs to a live recording,   *)
(* and carries its next segment.                                           *)
SegmentValid(page, records) ==
  /\ page.seq < Slots
  /\ records[page.root].present
  /\ records[page.root].id = page.id
  /\ ~records[page.root].blocked
  /\ page.seq = records[page.root].segments

(* A slot is free for the taking only when nobody owns what is in it.      *)
ScanSlots(m, retired, found) ==
  LET scan[n \in 0..Slots] ==
        IF n = 0 THEN [ok |-> found.ok, records |-> found.records,
                       used |-> NoStore.used]
        ELSE LET s == n - 1
                 before == scan[s]
                 page == m[Slot(s)]
                 r == before.records[page.root]
             IN IF page = Missing \/ page.id \in retired THEN before
                ELSE IF ~SegmentValid(page, before.records)
                THEN [before EXCEPT !.ok = FALSE]
                ELSE [before EXCEPT
                        !.used[s] = page.kind,
                        !.records[page.root] =
                          IF page.kind = "INTENT"
                          THEN [r EXCEPT !.blocked = TRUE, !.interrupted = TRUE]
                          ELSE [r EXCEPT !.segments = r.segments + 1]]
  IN scan[Slots]

(* complete_valid, for every finalized recording.                          *)
CompletionsHold(records) ==
  \A r \in RootNo : records[r].present /\ records[r].finalized =>
    ~records[r].blocked /\ records[r].completion = records[r].segments

Recovery(m, retired) ==
  LET all == ScanSlots(m, retired, ScanRoots(m, retired))
  IN [all EXCEPT !.ok = @ /\ CompletionsHold(all.records)]

(* ros_recover_retired on a mounted or a fresh context, and its job: the   *)
(* list of retired ids only grows, and an unchanged list needs no rebuild. *)
ros_recover_retired(ids) ==
  /\ ros.active = NoRoot /\ ros.job = "NONE" /\ ros.retired \subseteq ids
  /\ IF ros.mounted /\ ids = ros.retired THEN UNCHANGED ros
     ELSE LET found == Recovery(Image, ids)
          IN /\ found.ok
             /\ ros' = [NoStore EXCEPT !.mounted = TRUE, !.retired = ids,
                          !.records = found.records, !.used = found.used]

-----------------------------------------------------------------------------
(* Jobs.                                                                   *)

Begin(job) == [ros EXCEPT !.job = job, !.stage = 0, !.ready = FALSE, !.index = 0]
FinishJob == [ros EXCEPT !.job = "NONE", !.stage = 0, !.ready = FALSE, !.index = 0,
                         !.root = NoRoot, !.slot = 0, !.seg = NoSeg,
                         !.pending = NoRecord]
Running(job, stage) == ros.job = job /\ ros.stage = stage /\ ~ros.ready
NextStage == [ros EXCEPT !.stage = @ + 1]

First(S) == CHOOSE x \in S : \A y \in S : x <= y
FreeRoots == {r \in RootNo : ~ros.records[r].present}
FreeSlots == {s \in SlotNo : ros.used[s] = "FREE"}
FirstFreeSlot == First(FreeSlots)

(* ros_reserve: an id is used once, whether its recording is here or gone. *)
ros_reserve(id) ==
  /\ ros.mounted /\ ros.job = "NONE" /\ ros.active = NoRoot
  /\ id \notin ros.retired
  /\ \A r \in RootNo : ros.records[r].present => ros.records[r].id # id
  /\ FreeRoots # {} /\ FreeSlots # {}
  /\ ros' = [Begin("RESERVE") EXCEPT !.root = First(FreeRoots),
                                     !.pending = Record(id)]
  /\ UNCHANGED <<versions, promised>>

(* ros_finalize: the completion the pipeline reports counts the segments   *)
(* that were committed.                                                    *)
ros_finalize ==
  /\ ros.mounted /\ ros.job = "NONE" /\ ros.active # NoRoot
  /\ ros' = [Begin("FINALIZE") EXCEPT
               !.root = ros.active,
               !.pending = [ros.records[ros.active] EXCEPT
                              !.finalized = TRUE,
                              !.completion = ros.records[ros.active].segments]]
  /\ UNCHANGED <<versions, promised>>

(* root_step, for both jobs.                                               *)
PendingRoot ==
  RootPage(IF ros.job = "FINALIZE" THEN "FINAL" ELSE "ACTIVE", ros.pending)

WriteRoot ==
  /\ ros.job \in {"RESERVE", "FINALIZE"} /\ Running(ros.job, 0)
  /\ rns_write(Root(ros.root), PendingRoot)
  /\ ros' = NextStage /\ UNCHANGED promised

SyncRoot ==
  /\ ros.job \in {"RESERVE", "FINALIZE"} /\ Running(ros.job, 1)
  /\ rns_sync /\ ros' = NextStage /\ UNCHANGED promised

VerifyRoot ==
  /\ ros.job \in {"RESERVE", "FINALIZE"} /\ Running(ros.job, 2)
  /\ Image[Root(ros.root)] = PendingRoot
  /\ ros' = [ros EXCEPT !.ready = TRUE, !.records[ros.root] = ros.pending,
                        !.active = IF ros.job = "RESERVE" THEN ros.root ELSE NoRoot]
  /\ UNCHANGED <<versions, promised>>

(* ros_prepare (stage 0) and ros_prepare_deferred (stage 9, sealed by the  *)
(* first step): the next segment of the active recording, for the first    *)
(* slot nobody owns.                                                       *)
Prepare(stage) ==
  /\ ros.mounted /\ ros.job = "NONE" /\ ros.active # NoRoot
  /\ LET r == ros.records[ros.active]
     IN /\ ~r.blocked /\ ~r.finalized /\ ~r.interrupted /\ r.segments < Slots
        /\ FreeSlots # {}
        /\ ros' = [Begin("SEGMENT") EXCEPT
                     !.stage = stage, !.slot = FirstFreeSlot,
                     !.seg = [id |-> r.id, root |-> ros.active, seq |-> r.segments]]
  /\ UNCHANGED <<versions, promised>>

ros_prepare == Prepare(0)
ros_prepare_deferred == Prepare(9)

(* segment_step, one action for each stage.                                *)
Seal ==
  /\ Running("SEGMENT", 9) /\ ros' = [ros EXCEPT !.stage = 0]
  /\ UNCHANGED <<versions, promised>>

WriteIntent ==
  /\ Running("SEGMENT", 0) /\ rns_write(Slot(ros.slot), SlotPage("INTENT", ros.seg))
  /\ ros' = NextStage /\ UNCHANGED promised

SyncIntent ==
  /\ Running("SEGMENT", 1) /\ rns_sync /\ ros' = NextStage /\ UNCHANGED promised

VerifyIntent ==
  /\ Running("SEGMENT", 2) /\ Image[Slot(ros.slot)] = SlotPage("INTENT", ros.seg)
  /\ ros' = [NextStage EXCEPT !.used[ros.slot] = "INTENT", !.index = 0]
  /\ UNCHANGED <<versions, promised>>

WritePayload ==
  /\ Running("SEGMENT", 3)
  /\ IF ros.index = DataPages
     THEN ros' = [ros EXCEPT !.stage = 6] /\ UNCHANGED versions
     ELSE /\ rns_write(Data(ros.slot, ros.index + 1), DataPage(ros.seg, ros.index + 1))
          /\ ros' = [ros EXCEPT !.index = @ + 1]
  /\ UNCHANGED promised

WriteCommit ==
  /\ Running("SEGMENT", 6) /\ rns_write(Slot(ros.slot), SlotPage("COMMIT", ros.seg))
  /\ ros' = NextStage /\ UNCHANGED promised

SyncCommitLate ==
  /\ Running("SEGMENT", 7)
  /\ ros' = [ros EXCEPT !.index = 0, !.stage = 5]
  /\ UNCHANGED <<versions, promised>>
SyncCommit ==
  /\ Running("SEGMENT", 7) /\ rns_sync
  /\ ros' = [ros EXCEPT !.index = 0, !.stage = 5] /\ UNCHANGED promised

VerifyPayload ==
  /\ Running("SEGMENT", 5)
  /\ IF ros.index = DataPages THEN ros' = [ros EXCEPT !.stage = 8]
     ELSE /\ Image[Data(ros.slot, ros.index + 1)] = DataPage(ros.seg, ros.index + 1)
          /\ ros' = [ros EXCEPT !.index = @ + 1]
  /\ UNCHANGED <<versions, promised>>

VerifyCommitUncounted ==
  /\ Running("SEGMENT", 8) /\ Image[Slot(ros.slot)] = SlotPage("COMMIT", ros.seg)
  /\ ros' = [ros EXCEPT !.ready = TRUE, !.records[ros.active].segments = @ + 1]
  /\ UNCHANGED <<versions, promised>>
VerifyCommit ==
  /\ Running("SEGMENT", 8) /\ Image[Slot(ros.slot)] = SlotPage("COMMIT", ros.seg)
  /\ ros' = [ros EXCEPT !.ready = TRUE, !.used[ros.slot] = "COMMIT",
                        !.records[ros.active].segments = @ + 1]
  /\ UNCHANGED <<versions, promised>>

(* ros_take_segment_receipt and ros_take_final_receipt hand out what the   *)
(* recorder counts as saved; ros_finish ends the reservation.              *)
ros_take_segment_receipt ==
  /\ ros.job = "SEGMENT" /\ ros.ready
  /\ promised' = promised \cup
       {[kind |-> "segment", id |-> ros.seg.id, seq |-> ros.seg.seq]}
  /\ ros' = FinishJob /\ UNCHANGED versions

ros_take_final_receipt ==
  /\ ros.job = "FINALIZE" /\ ros.ready
  /\ promised' = promised \cup
       {[kind |-> "final", id |-> ros.pending.id, segments |-> ros.pending.completion]}
  /\ ros' = FinishJob /\ UNCHANGED versions

ros_finish ==
  /\ ros.job = "RESERVE" /\ ros.ready
  /\ ros' = FinishJob /\ UNCHANGED <<versions, promised>>

(* Where a committed segment is: the index the catalog builds with         *)
(* ros_describe_committed for every committed slot.                        *)
Holds(s, id, seq) == /\ ros.used[s] = "COMMIT"
                     /\ Image[Slot(s)].id = id /\ Image[Slot(s)].seq = seq
SlotOf(id, seq) == CHOOSE s \in SlotNo : Holds(s, id, seq)

(* ros_load until ready: the catalog sector and every payload sector are   *)
(* read and checked before a byte is handed out.  The caller has released  *)
(* what it loaded before.                                                  *)
ros_load(s) ==
  /\ ros.mounted /\ ros.used[s] = "COMMIT"
  /\ LET page == Image[Slot(s)]
         seg == [id |-> page.id, root |-> page.root, seq |-> page.seq]
     IN /\ page.kind = "COMMIT"
        /\ \A i \in 1..DataPages : Image[Data(s, i)] = DataPage(seg, i)
        /\ ros' = [Begin("LOAD") EXCEPT !.ready = TRUE, !.slot = s, !.seg = seg]
================================================================================
