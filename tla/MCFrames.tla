----------------------------- MODULE MCFrames -------------------------------
(***************************************************************************)
(* The path of a frame, checked on one instance: the lock-free queue, one  *)
(* atomic access at a time (FrameQueue), and the worker, the capture       *)
(* thread and the store around it (Recorder, in which a call of the queue  *)
(* is one step).  A behaviour explores one of them, chosen at the start,   *)
(* and the other stays where it began.  Only the queue must never stop:    *)
(* the recorder ends with the device off or its sessions used up.          *)
(***************************************************************************)
EXTENDS FrameQueue, TLC

CONSTANTS
  SegmentFrames, QueueCapacity, FreeSlots, Users, Strays, MaxEpoch,
  MaxFaults, MaxCalls                \* of Recorder

VARIABLES
  layer,                             \* the layer explored
  up, expired, guards, token, gate, phase, stop, external, credits, q, w, p, c,
  s, sub, ask, env, blame

recVars == <<up, expired, guards, token, gate, phase, stop, external, credits,
             q, w, p, c, s, sub, ask, env, blame>>
R == INSTANCE Recorder WITH Slots <- FreeSlots, state <- phase, late <- expired

ProducerSymmetry == Permutations(Producers)

MCInit == layer \in {"queue", "worker"} /\ Init /\ R!Init

MCNext == \/ layer = "queue" /\ Next /\ UNCHANGED <<layer, recVars>>
          \/ layer = "worker" /\ R!Next /\ UNCHANGED <<layer, vars>>
          \/ layer = "worker" /\ UNCHANGED <<layer, vars, recVars>>

MCSpec == MCInit /\ [][MCNext]_<<layer, vars, recVars>>

-----------------------------------------------------------------------------
(* Every accepted frame is accounted for and has a slot (rw_submit,        *)
(* rw_feed, rw_close_queue): Recorder's invariant.                         *)
FramesCovered == R!FramesCovered

(* The manifest names the durable prefix, all of it after a clean end      *)
(* (rw_finalize, lcw_publish): Recorder's invariant.                       *)
SavedExactly == R!SavedExactly
=============================================================================
