------------------------------- MODULE Recorder -------------------------------
(***************************************************************************)
(* One recording from rw_start to its end: the worker                      *)
(* (recording_worker.c) with the segment pipeline it drives                *)
(* (recording_pipeline.c) on the codec thread, the microphone capture      *)
(* thread (recording_capture.c), the storage thread and the hooks that     *)
(* join them (recording_runtime.c, recording_store_bridge.c).              *)
(*                                                                         *)
(* The worker is linked with a capacity query and deferred storage         *)
(* (rw_init_capacity_async), in manual mode.  A step of the worker runs    *)
(* from one access to an atomic that another thread also uses to the next. *)
(* The frame queue is the sequence FrameQueue shows it to be.  A frame is  *)
(* the session it belongs to and its number in it.                         *)
(*                                                                         *)
(* A deadline is passed or not: the environment may let the earliest armed *)
(* deadline pass at any step (Expire).  Failures of hardware, crypto and   *)
(* store are injected, at most MaxFaults in a behaviour.  fatal() resets   *)
(* the device and nothing here survives it: up becomes FALSE for good.     *)
(***************************************************************************)
EXTENDS Integers, Sequences, FiniteSets

CONSTANTS
  SegmentFrames,  \* RP_SEGMENT_FRAMES
  QueueCapacity,  \* RFQ_CAPACITY
  Slots,          \* segment slots free in the store at the start
  Users,          \* other threads that call rw_request_stop
  Strays,         \* producers that may call rw_submit late
  MaxEpoch,       \* RW_EPOCH_MAX
  MaxFaults,      \* bound: injected failures
  MaxCalls        \* bound: stop requests, and late submissions, made

ASSUME SizesAssumption == /\ SegmentFrames \in Nat \ {0}
                          /\ QueueCapacity \in Nat \ {0}
                          /\ Slots \in Nat
ASSUME BoundsAssumption == /\ MaxEpoch \in Nat
                           /\ MaxFaults \in Nat /\ MaxCalls \in Nat
ASSUME ActorsAssumption == /\ "capture" \notin Users \cup Strays
                           /\ "codec" \notin Users \cup Strays

VARIABLES
  up,       \* FALSE once the device has been reset by fatal()
  late,     \* a deadline that is still set has passed
  guards,   \* runtime guards[0] and guards[1], when armed
  token,    \* rw_epoch: the session and its producer-fault bit
  gate,     \* rw_producer: who holds it
  state,    \* rw_state_atomic
  stop,     \* rw_stop: the first reason
  external, \* rw_external
  credits,  \* remaining_frames
  q,        \* the frame queue
  w,        \* the worker's own state and its report
  p,        \* the pipeline's status
  c,        \* the capture thread
  s,        \* the store: the job in flight and what is durable
  sub,      \* rw_submit calls in progress
  ask,      \* rw_request_stop calls in progress
  env,      \* free slots, injected failures and calls so far
  blame     \* history: sessions whose callers stopped the current one

gates == <<token, gate, state, stop, external, credits>>
calls == <<sub, ask>>
vars == <<up, late, guards, gates, q, w, p, c, s, calls, env, blame>>

Nobody == "nobody"
Submitters == {"capture"} \cup Strays
Askers == {"capture"} \cup Users
Orderly == {"USER", "LOW_POWER", "OVERFLOW", "FULL"}
Reasons == Orderly \cup {"NONE", "CONTINUITY", "EXTERNAL", "TIMEOUT", "CORE",
                         "STOP_FAILED", "ADMISSION", "RELEASE_FAILED"}
Complete == {"STOPPED", "FULL", "OVERFLOW", "LOW_POWER"}
NoFrame == [e |-> 0, n |-> -1]
NoManifest == -1
NoCall == [pc |-> "idle", e |-> 0, n |-> 0, rc |-> "OK", why |-> "NONE"]

NoWorker ==
  [pc |-> "idle", phase |-> "live", back |-> "drain", to |-> "fed",
   why |-> "NONE", rc |-> "OK", hand |-> NoFrame, finalizable |-> FALSE,
   clean |-> FALSE, unsafe |-> FALSE, attempted |-> FALSE,
   possible |-> FALSE, armed |-> FALSE, confirmed |-> FALSE,
   fenced |-> FALSE, closed |-> FALSE, lease |-> FALSE, fault |-> FALSE,
   discarded |-> 0, pend |-> FALSE, drain |-> FALSE]

NoSession ==
  [state |-> "IDLE", reason |-> "NONE", drain_reason |-> "NONE",
   session |-> 0, reserved |-> FALSE, seg |-> 0, pending |-> 0,
   committed |-> 0, discarded |-> 0, final |-> FALSE, uncertain |-> FALSE,
   wiped |-> TRUE]

NoQueue == [frames |-> << >>, mode |-> "FRESH", why |-> "NONE",
            accepted |-> 0, discarded |-> 0, session |-> 0]

Joined == [pc |-> "idle", epoch |-> 0, n |-> 0, rc |-> "OK", stop |-> FALSE,
           joined |-> TRUE, stopped |-> TRUE, scrubbed |-> TRUE,
           powered |-> FALSE, fault |-> FALSE]

Booted ==
  [token |-> [n |-> 0, fault |-> FALSE],
   s |-> [job |-> "none", running |-> FALSE, frames |-> 0, disk |-> 0,
          final |-> NoManifest, starved |-> FALSE],
   sub |-> [t \in Submitters |-> NoCall], ask |-> [t \in Askers |-> NoCall],
   env |-> [free |-> Slots, faults |-> 0, calls |-> 0]]

Init ==
  /\ up = TRUE /\ late = FALSE /\ guards = {}
  /\ token = Booted.token /\ gate = Nobody
  /\ state = "IDLE" /\ stop = "NONE" /\ external = FALSE /\ credits = 0
  /\ q = NoQueue /\ w = NoWorker /\ p = NoSession /\ c = Joined
  /\ s = Booted.s /\ sub = Booted.sub /\ ask = Booted.ask
  /\ env = Booted.env /\ blame = {}

-----------------------------------------------------------------------------
(* Mutated forms of definitions below: each is a plausible slip in the     *)
(* code, and the properties at the end must notice it.                     *)
TagIgnored(e) == TRUE
SealBufferKept(b) == [b EXCEPT !.pending = b.seg, !.wiped = TRUE]
LastFrameLeft == Len(q.frames) > 1
PollAwaitsFree == IF p.pending = 0 THEN "OK"
                  ELSE IF s.job # "none" THEN "PENDING" ELSE "DONE"
SoundIgnoresClock == ~external /\ ~token.fault

(* The first reason stays.                                                 *)
First(a, b) == IF a # "NONE" THEN a ELSE b

(* rw_clock and rw_guard: what they answer, and what they latch.           *)
Timely == ~(late /\ (w.armed \/ w.pend \/ w.drain))
Unsafe == w.unsafe \/ ~Timely
Sound == Timely /\ ~w.unsafe /\ ~external /\ ~token.fault
Expired == IF Timely THEN "NONE" ELSE "TIMEOUT"
Faulted == IF token.fault THEN "EXTERNAL" ELSE "NONE"

(* rw_collect_fault and rw_clock, then rw_latch(why).                      *)
Latched(why) == First(First(First(stop, Faulted), Expired), why)
Latch(why) == /\ stop' = Latched(why)
              /\ external' = (external \/ token.fault \/ why = "EXTERNAL")

(* rw_clock, then rw_latch(why).                                           *)
ClockLatched(why) == First(First(stop, Expired), why)
ClockLatch(why) == /\ stop' = ClockLatched(why)
                   /\ external' = (external \/ why = "EXTERNAL")

(* fatal(), rc_die: a cold reset.  All of this is RAM and is lost.         *)
Die ==
  /\ up' = FALSE /\ late' = FALSE /\ guards' = {}
  /\ token' = Booted.token /\ gate' = Nobody
  /\ state' = "IDLE" /\ stop' = "NONE" /\ external' = FALSE /\ credits' = 0
  /\ q' = NoQueue /\ w' = NoWorker /\ p' = NoSession /\ c' = Joined
  /\ s' = Booted.s /\ sub' = Booted.sub /\ ask' = Booted.ask
  /\ env' = Booted.env /\ blame' = {}

(* A hook that may fail, within the bound.                                 *)
Outcome(ok) ==
  \/ ok /\ env' = env
  \/ ~ok /\ env.faults < MaxFaults /\ env' = [env EXCEPT !.faults = @ + 1]
Inject == Outcome(FALSE)

(* rw_fault, and the fatal() the runtime answers RW_ERROR with.            *)
FaultOf(x) == [x EXCEPT !.pc = "fatal", !.fault = TRUE, !.unsafe = Unsafe]
Fail(why) == /\ w' = FaultOf(w) /\ state' = "FAULT" /\ ClockLatch(why)

(* recording_capture's own proof that the microphone is off.               *)
CaptureQuiet == c.joined /\ c.stopped /\ c.scrubbed /\ ~c.powered

(* recorder_release: what the runtime demands before it lets go.           *)
Releasable == /\ ~s.running /\ CaptureQuiet /\ ~c.fault
              /\ c.rc \in {"OK", "STOPPED_INPUT"}

-----------------------------------------------------------------------------
(* rw_start_inner.  Arming is part of the call.                            *)
Start ==
  /\ w.pc = "idle" /\ state \in {"IDLE", "STOPPED"}
  /\ ~w.fault /\ ~w.lease /\ token.n < MaxEpoch
  /\ IF token.fault \/ "codec" \in guards
     THEN Die
     ELSE /\ w' = [NoWorker EXCEPT !.pc = "acquire", !.armed = TRUE,
                                   !.confirmed = TRUE]
          /\ guards' = guards \cup {"codec"}
          /\ state' = "STARTING" /\ stop' = "NONE" /\ external' = FALSE
          /\ UNCHANGED <<up, late, token, gate, credits, q, p, c, s, calls,
                         env, blame>>

(* The admission was refused or came late: release, disarm and fault.      *)
Abandon(held, why) ==
  /\ w' = [FaultOf(w) EXCEPT !.lease = held /\ ~(Sound /\ Releasable),
                             !.armed = ~Timely, !.confirmed = ~Timely]
  /\ guards' = IF Timely THEN guards \ {"codec"} ELSE guards
  /\ state' = "FAULT" /\ Latch(why)

(* No session was made: release and disarm, ready for another start.       *)
Refuse(why) ==
  \E ok \in BOOLEAN :
    /\ Outcome(ok)
    /\ IF ok /\ Releasable
       THEN /\ w' = [w EXCEPT !.pc = "idle", !.lease = FALSE,
                              !.armed = FALSE, !.confirmed = FALSE]
            /\ guards' = guards \ {"codec"}
            /\ state' = "IDLE" /\ Latch(why)
       ELSE Fail(why) /\ UNCHANGED guards

Acquire ==
  /\ w.pc = "acquire"
  /\ \E granted \in BOOLEAN :
       /\ Outcome(granted)
       /\ IF granted /\ Timely
          THEN /\ w' = [w EXCEPT !.pc = "consent", !.lease = TRUE]
               /\ UNCHANGED <<guards, state, stop, external>>
          ELSE Abandon(granted, "ADMISSION")
  /\ UNCHANGED <<up, late, token, gate, credits, q, p, c, s, calls, blame>>

(* The two consent checks before a session exists.                         *)
Consent(at, next) ==
  /\ w.pc = at
  /\ \/ /\ Sound /\ w' = [w EXCEPT !.pc = next]
        /\ UNCHANGED <<guards, state, stop, external, env>>
     \/ Sound /\ Refuse("USER")
     \/ ~Sound /\ Abandon(w.lease, "ADMISSION") /\ UNCHANGED env
  /\ UNCHANGED <<up, late, token, gate, credits, q, p, c, s, calls, blame>>

(* recorder_capacity: whole segments the store can still take.             *)
QueryCapacity ==
  /\ w.pc = "capacity"
  /\ \E ok \in BOOLEAN :
       IF ~Sound \/ ~ok
       THEN /\ Outcome(~Sound) /\ Abandon(w.lease, "ADMISSION")
            /\ UNCHANGED credits
       ELSE IF env.free = 0
       THEN Refuse("FULL") /\ UNCHANGED credits
       ELSE /\ w' = [w EXCEPT !.pc = "consent_again"]
            /\ credits' = env.free * SegmentFrames
            /\ UNCHANGED <<guards, state, stop, external, env>>
  /\ UNCHANGED <<up, late, token, gate, q, p, c, s, calls, blame>>

Rearm ==
  /\ w.pc = "rearm"
  /\ IF gate # Nobody
     THEN Fail("STOP_FAILED") /\ UNCHANGED <<gate, q>>
     ELSE /\ gate' = "codec" /\ w' = [w EXCEPT !.pc = "bump"]
          /\ q' = [NoQueue EXCEPT !.mode = "RUNNING",
                                  !.session = token.n + 1]
          /\ UNCHANGED <<state, stop, external>>
  /\ UNCHANGED <<up, late, guards, token, credits, p, c, s, calls, env,
                 blame>>

(* The compare-and-swap on rw_epoch: a producer fault is never cleared.    *)
Bump ==
  /\ w.pc = "bump" /\ gate' = Nobody
  /\ IF token.fault
     THEN /\ w' = [w EXCEPT !.pc = "shutdown"] /\ Latch("NONE")
          /\ UNCHANGED <<token, blame>>
     ELSE /\ token' = [n |-> token.n + 1, fault |-> FALSE] /\ blame' = {}
          /\ w' = [w EXCEPT !.pc = "begin"] /\ UNCHANGED <<stop, external>>
  /\ UNCHANGED <<up, late, guards, state, credits, q, p, c, s, calls, env>>

(* rp_start                                                                *)
CanStart == /\ p.pending = 0
            /\ \/ p.state = "IDLE"
               \/ p.state \in Complete /\ (p.final \/ ~p.reserved)

Reserved(rc) ==
  LET fresh == [NoSession EXCEPT !.session = token.n]
  IN CASE rc = "OK" -> [fresh EXCEPT !.state = "RECORDING",
                                     !.reserved = TRUE, !.wiped = FALSE]
       [] rc = "FULL" -> [fresh EXCEPT !.state = "FULL", !.reason = "FULL"]
       [] rc = "UNCERTAIN" -> [fresh EXCEPT !.state = "FAULT",
                                            !.uncertain = TRUE]
       [] rc = "CODEC" -> [fresh EXCEPT !.state = "FAULT",
                                        !.reserved = TRUE]

Begin ==
  /\ w.pc = "begin"
  /\ IF ~Sound \/ ~CanStart
     THEN /\ w' = [w EXCEPT !.pc = "shutdown", !.unsafe = Unsafe]
          /\ Latch(IF Sound THEN "CORE" ELSE "EXTERNAL")
          /\ UNCHANGED <<p, s, env>>
     ELSE \E rc \in {"OK", "FULL", "UNCERTAIN", "CODEC"} :
       /\ Outcome(rc = "OK")
       /\ p' = Reserved(rc)
       /\ s' = [s EXCEPT !.disk = 0, !.final = NoManifest]
       /\ w' = [w EXCEPT !.pc = IF rc = "OK" THEN "consent_session"
                                             ELSE "shutdown"]
       /\ Latch(IF rc = "OK" THEN "NONE"
                ELSE IF rc = "FULL" THEN "FULL" ELSE "CORE")
  /\ UNCHANGED <<up, late, guards, token, gate, state, credits, q, c, calls,
                 blame>>

(* The last consent check.  Cancelling now finalizes an empty session.     *)
ConsentSession ==
  /\ w.pc = "consent_session"
  /\ \/ /\ Sound /\ state' = "RUNNING"
        /\ w' = [w EXCEPT !.pc = "capture", !.possible = TRUE]
        /\ UNCHANGED <<stop, external>>
     \/ /\ w' = [w EXCEPT !.pc = "shutdown", !.unsafe = Unsafe]
        /\ Latch(IF Sound THEN "USER" ELSE "EXTERNAL")
        /\ UNCHANGED state
  /\ UNCHANGED <<up, late, guards, token, gate, credits, q, p, c, s, calls,
                 env, blame>>

(* capture_start and recording_capture_start: the microphone runs, or was  *)
(* refused before the capture thread took the session, or failed and was   *)
(* finished in place.                                                      *)
CaptureStarted(how) ==
  CASE how = "started" -> [Joined EXCEPT !.pc = "read", !.epoch = token.n,
                             !.joined = FALSE, !.stopped = FALSE,
                             !.scrubbed = FALSE, !.powered = TRUE]
    [] how = "failed" -> [Joined EXCEPT !.epoch = token.n, !.fault = TRUE]
    [] how = "refused" -> c

Capturable == CaptureQuiet /\ ~c.fault /\ token.n > c.epoch

StartCapture ==
  /\ w.pc = "capture"
  /\ \E how \in IF Capturable THEN {"started", "failed", "refused"}
                                ELSE {"refused"} :
       /\ Outcome(how = "started" \/ ~Capturable)
       /\ c' = CaptureStarted(how)
       /\ Latch(IF how = "started" /\ Sound THEN "NONE" ELSE "EXTERNAL")
  /\ w' = [w EXCEPT !.pc = "started", !.unsafe = Unsafe]
  /\ UNCHANGED <<up, late, guards, token, gate, state, credits, q, p, s,
                 calls, blame>>

(* rw_disarm at the end of a call that leaves the worker running.          *)
Pause(polled) ==
  IF Unsafe
  THEN /\ w' = [w EXCEPT !.pc = "shutdown", !.unsafe = TRUE,
                         !.pend = @ /\ ~polled]
       /\ ClockLatch("NONE")
       /\ guards' = IF polled THEN guards \ {"storage"} ELSE guards
  ELSE /\ w' = [w EXCEPT !.pc = "loop", !.armed = FALSE,
                         !.confirmed = FALSE, !.pend = @ /\ ~polled]
       /\ guards' = (IF polled THEN guards \ {"storage"} ELSE guards)
                      \ {"codec"}
       /\ UNCHANGED <<stop, external>>

Started ==
  /\ w.pc = "started"
  /\ IF stop # "NONE"
     THEN /\ w' = [w EXCEPT !.pc = "shutdown"]
          /\ UNCHANGED <<guards, stop, external>>
     ELSE Pause(FALSE)
  /\ UNCHANGED <<up, late, token, gate, state, credits, q, p, c, s, calls,
                 env, blame>>

-----------------------------------------------------------------------------
(* The pipeline's calls into the store.                                    *)

(* rw_poll and poll_store: the receipt of the job in flight.  It is taken  *)
(* only once the storage thread has let go of the job.                     *)
PollResult == IF p.pending = 0 THEN "OK"
              ELSE IF ~Sound \/ ~w.pend THEN "FAILED"
              ELSE IF s.running THEN "PENDING" ELSE "DONE"
Polled == PollResult = "DONE"

(* fault(): what was captured and not handed over is lost.                 *)
PipelineFault(b) == [b EXCEPT !.state = "FAULT", !.wiped = TRUE, !.seg = 0,
                              !.discarded = @ + b.seg,
                              !.uncertain = @ \/ b.pending > 0]

(* poll_pending                                                            *)
AfterPoll == CASE Polled -> [p EXCEPT !.committed = @ + p.pending,
                                      !.pending = 0]
               [] PollResult = "FAILED" -> PipelineFault(p)
               [] OTHER -> p
StoreAfterPoll == IF Polled THEN [s EXCEPT !.job = "none", !.frames = 0]
                  ELSE s
GuardsAfterPoll == IF Polled THEN guards \ {"storage"} ELSE guards

(* A segment handed to the store: the pipeline's own copy is gone.         *)
HandedOver(b) == [b EXCEPT !.pending = b.seg, !.seg = 0, !.wiped = TRUE]

Captured(b) == b.seg + b.pending + b.committed + b.discarded

-----------------------------------------------------------------------------
(* record_loop: a capture fault is a stop request, then one rw_step.       *)
Loop ==
  /\ w.pc = "loop"
  /\ w' = [w EXCEPT !.pc = "step", !.rc = "OK", !.why = "NONE", !.to = "fed",
                    !.back = "drain", !.finalizable = FALSE]
  /\ IF c.fault /\ gate = Nobody
     THEN /\ stop' = First(stop, "EXTERNAL") /\ external' = TRUE
     ELSE UNCHANGED <<stop, external>>
  /\ UNCHANGED <<up, late, guards, token, gate, state, credits, q, p, c, s,
                 calls, env, blame>>

(* rw_step while RUNNING: arm, then look for a stop.                       *)
StepRunning ==
  /\ w.pc = "step" /\ state = "RUNNING"
  /\ IF ~Timely \/ "codec" \in guards
     THEN /\ w' = [w EXCEPT !.pc = "shutdown", !.unsafe = TRUE]
          /\ ClockLatch(IF Timely THEN "EXTERNAL" ELSE "NONE")
          /\ UNCHANGED guards
     ELSE /\ w' = [w EXCEPT !.armed = TRUE, !.confirmed = TRUE,
                !.pc = IF First(stop, Faulted) = "NONE" THEN "pop"
                                                        ELSE "shutdown"]
          /\ guards' = guards \cup {"codec"} /\ Latch("NONE")
  /\ UNCHANGED <<up, late, token, gate, state, credits, q, p, c, s, calls,
                 env, blame>>

PopRunning ==
  /\ w.pc = "pop"
  /\ IF q.why # "NONE"
     THEN /\ w' = [w EXCEPT !.pc = "shutdown"]
          /\ stop' = First(stop, "CORE")
          /\ UNCHANGED <<external, guards, q, p, s>>
     ELSE IF q.frames = << >>
     THEN /\ p' = AfterPoll /\ s' = StoreAfterPoll /\ UNCHANGED q
          /\ IF Sound
             THEN Pause(Polled)
             ELSE /\ w' = [w EXCEPT !.pc = "shutdown", !.unsafe = Unsafe]
                  /\ Latch("CORE") /\ UNCHANGED guards
     ELSE /\ w' = [w EXCEPT !.pc = "feed", !.hand = Head(q.frames),
                            !.phase = "live"]
          /\ q' = [q EXCEPT !.frames = Tail(@)]
          /\ UNCHANGED <<guards, stop, external, p, s>>
  /\ UNCHANGED <<up, late, token, gate, state, credits, c, calls, env,
                 blame>>

(* rw_feed and rp_push_frame, up to the seal of a full segment.            *)
Feed ==
  /\ w.pc = "feed"
  /\ \E ok \in BOOLEAN :
       IF ~Sound \/ p.state # "RECORDING" \/ PollResult = "FAILED"
       THEN /\ ok
            /\ p' = IF Sound /\ p.state = "RECORDING" THEN AfterPoll ELSE p
            /\ w' = [w EXCEPT !.pc = "fed", !.hand = NoFrame,
                       !.rc = "ERROR", !.discarded = @ + 1,
                       !.unsafe = Unsafe]
            /\ Latch("NONE") /\ UNCHANGED <<guards, s, env>>
       ELSE
         /\ s' = StoreAfterPoll /\ guards' = GuardsAfterPoll
         /\ UNCHANGED <<stop, external>>
         /\ IF w.hand.n # Captured(p) \/ ~ok
            THEN /\ Outcome(w.hand.n # Captured(p))
                 /\ p' = PipelineFault(AfterPoll)
                 /\ w' = [w EXCEPT !.pc = "fed", !.hand = NoFrame,
                            !.rc = "ERROR", !.discarded = @ + 1,
                            !.pend = @ /\ ~Polled]
            ELSE /\ UNCHANGED env
                 /\ p' = [AfterPoll EXCEPT !.seg = @ + 1]
                 /\ w' = [w EXCEPT !.hand = NoFrame, !.rc = "OK",
                       !.pend = @ /\ ~Polled, !.to = "fed", !.why = "NONE",
                       !.pc = IF p.seg + 1 = SegmentFrames THEN "seal"
                                                           ELSE "fed"]
  /\ UNCHANGED <<up, late, token, gate, state, credits, q, c, calls, blame>>

(* seal, with rw_commit and submit.  w.why is the reason finish() was      *)
(* called with, NONE for a seal that a full segment made necessary.        *)
SealFailed(b) ==
  /\ p' = PipelineFault(b) /\ s' = StoreAfterPoll
  /\ guards' = GuardsAfterPoll
  /\ w' = [w EXCEPT !.pc = w.to, !.rc = "ERROR", !.unsafe = Unsafe,
                    !.pend = @ /\ ~Polled]
  /\ Latch("NONE")

(* The job is the store's.  After a full segment the encoder starts again, *)
(* and that may fail with the job in flight.                               *)
SealPending(b, ok) ==
  LET after == IF w.why # "NONE"
               THEN [HandedOver(b) EXCEPT !.state = "DRAINING",
                                          !.drain_reason = w.why]
               ELSE IF ok
               THEN [HandedOver(b) EXCEPT !.state = "RECORDING",
                                          !.wiped = FALSE]
               ELSE PipelineFault(HandedOver(b))
  IN /\ s' = [StoreAfterPoll EXCEPT !.job = "storing", !.running = TRUE,
                                    !.frames = b.seg]
     /\ guards' = guards \cup {"storage"} /\ p' = after
     /\ w' = [w EXCEPT !.pc = w.to, !.pend = TRUE,
                       !.rc = CASE after.state = "DRAINING" -> "PENDING"
                                [] after.state = "RECORDING" -> "OK"
                                [] OTHER -> "ERROR"]
     /\ env' = [env EXCEPT !.free = @ - 1,
                           !.faults = IF ok THEN @ ELSE @ + 1]
     /\ UNCHANGED <<stop, external>>

(* The store has no slot: the segment is lost, the recording ends FULL.    *)
SealFull(b) ==
  /\ p' = [b EXCEPT !.discarded = @ + b.seg, !.seg = 0, !.wiped = TRUE,
                    !.state = "FINALIZING"]
  /\ s' = [StoreAfterPoll EXCEPT !.starved = @ \/ env.free = 0]
  /\ guards' = GuardsAfterPoll
  /\ w' = [w EXCEPT !.pc = "publish", !.why = "FULL", !.fault = TRUE,
                    !.pend = FALSE]
  /\ UNCHANGED <<stop, external>>

Seal ==
  /\ w.pc = "seal"
  /\ IF PollResult \in {"PENDING", "FAILED"} \/ ~Sound
     THEN SealFailed(AfterPoll) /\ UNCHANGED env
     ELSE \/ env.free > 0 /\ SealPending(AfterPoll, TRUE)
          \/ /\ env.free > 0 /\ w.why = "NONE" /\ env.faults < MaxFaults
             /\ SealPending(AfterPoll, FALSE)
          \/ Outcome(env.free = 0) /\ SealFull(AfterPoll)
          \/ Inject /\ SealFailed(AfterPoll)
  /\ UNCHANGED <<up, late, token, gate, state, credits, q, c, calls, blame>>

(* submit: any other answer of the bridge is fatal.                        *)
SubmitFatal ==
  /\ w.pc = "seal" /\ Sound /\ PollResult \notin {"PENDING", "FAILED"}
  /\ env.faults < MaxFaults /\ Die

(* rw_finalize and rsb_finalize.  A store that runs full inside a push     *)
(* fences and closes the queue first.                                      *)
PublishFailed ==
  /\ p' = PipelineFault(p)
  /\ w' = [w EXCEPT !.pc = w.to, !.rc = "ERROR", !.unsafe = Unsafe]

Published ==
  /\ p' = [p EXCEPT !.final = TRUE, !.wiped = TRUE, !.reason = w.why,
                    !.state = IF w.why = "USER" THEN "STOPPED" ELSE w.why]
  /\ s' = [s EXCEPT !.final = p.committed]
  /\ w' = [w EXCEPT !.pc = w.to, !.drain = TRUE,
                    !.rc = IF w.why = "FULL" THEN "FULL" ELSE "OK"]

Publish ==
  /\ w.pc = "publish"
  /\ IF ~Sound
     THEN PublishFailed /\ Latch("NONE") /\ UNCHANGED <<s, env>>
     ELSE IF ~w.fenced \/ ~w.closed
     THEN IF w.why = "FULL"
          THEN /\ w' = [w EXCEPT !.pc = "fence", !.back = "publish"]
               /\ Latch("FULL") /\ UNCHANGED <<p, s, env>>
          ELSE PublishFailed /\ Latch("CORE") /\ UNCHANGED <<s, env>>
     ELSE IF w.possible \/ w.pend
     THEN PublishFailed /\ UNCHANGED <<stop, external, s, env>>
     ELSE /\ UNCHANGED <<stop, external>>
          /\ \/ Published /\ UNCHANGED env
             \/ \E m \in {s.final, p.committed} :
                  /\ Inject /\ s' = [s EXCEPT !.final = m]
                  /\ p' = [PipelineFault(p) EXCEPT !.uncertain = TRUE]
                  /\ w' = [w EXCEPT !.pc = w.to, !.rc = "ERROR",
                                    !.drain = TRUE]
  /\ UNCHANGED <<up, late, guards, token, gate, state, credits, q, c, calls,
                 blame>>

(* The rest of rw_step, or of the drain loop, after a frame was pushed.    *)
Fed ==
  /\ w.pc = "fed"
  /\ IF w.phase = "drain"
     THEN /\ w' = [w EXCEPT !.unsafe = Unsafe,
              !.pc = IF w.rc # "OK" \/ Unsafe THEN "close" ELSE "drain"]
          /\ ClockLatch("NONE") /\ UNCHANGED guards
     ELSE LET why == IF w.rc = "FULL" THEN "FULL"
                     ELSE IF w.rc # "OK" \/ Unsafe THEN "CORE" ELSE "NONE"
          IN IF Latched(why) # "NONE"
             THEN /\ w' = [w EXCEPT !.pc = "shutdown", !.unsafe = Unsafe]
                  /\ Latch(why) /\ UNCHANGED guards
             ELSE Pause(FALSE)
  /\ UNCHANGED <<up, late, token, gate, state, credits, q, p, c, s, calls,
                 env, blame>>

-----------------------------------------------------------------------------
(* rw_shutdown, from the fence to the release.                             *)
Shutdown ==
  /\ w.pc = "shutdown"
  /\ IF w.confirmed
     THEN /\ w' = [w EXCEPT !.pc = "fence", !.back = "drain"]
          /\ UNCHANGED <<state, stop, external>>
     ELSE Fail("NONE")
  /\ UNCHANGED <<up, late, guards, token, gate, credits, q, p, c, s, calls,
                 env, blame>>

(* rw_fence: announce, stop and join the capture once, then take the gate. *)
Fence ==
  /\ w.pc = "fence"
  /\ q' = IF q.mode \in {"RUNNING", "FENCED"}
          THEN [q EXCEPT !.why = First(@, "USER")] ELSE q
  /\ IF w.possible /\ w.attempted
     THEN Fail("STOP_FAILED")
     ELSE /\ state' = "STOPPING" /\ UNCHANGED <<stop, external>>
          /\ w' = [w EXCEPT !.attempted = @ \/ w.possible,
                       !.pc = IF w.possible THEN "stop" ELSE "gate"]
  /\ UNCHANGED <<up, late, guards, token, gate, credits, p, c, s, calls, env,
                 blame>>

(* recording_capture_stop_and_join, up to the wait on rc_done.             *)
StopCapture ==
  /\ w.pc = "stop"
  /\ IF c.epoch # token.n \/ (c.joined /\ ~CaptureQuiet)
     THEN Fail("STOP_FAILED") /\ UNCHANGED c
     ELSE IF c.joined
     THEN /\ w' = [w EXCEPT !.pc = "gate", !.possible = FALSE,
                            !.unsafe = Unsafe]
          /\ ClockLatch("NONE") /\ UNCHANGED <<state, c>>
     ELSE /\ c' = [c EXCEPT !.stop = TRUE]
          /\ w' = [w EXCEPT !.pc = "join"]
          /\ UNCHANGED <<state, stop, external>>
  /\ UNCHANGED <<up, late, guards, token, gate, credits, q, p, s, calls, env,
                 blame>>

(* The wait ends when capture joined, or with its deadline.                *)
HasJoined == c.joined

Join ==
  /\ w.pc = "join" /\ (HasJoined \/ late)
  /\ IF late \/ (c.joined /\ ~CaptureQuiet)
     THEN Die
     ELSE /\ w' = [w EXCEPT !.pc = "gate", !.possible = FALSE]
          /\ UNCHANGED <<up, late, guards, gates, q, p, c, s, calls, env,
                         blame>>

TakeGate ==
  /\ w.pc = "gate"
  /\ IF gate # Nobody
     THEN Fail("STOP_FAILED") /\ UNCHANGED <<gate, q>>
     ELSE /\ gate' = "codec"
          /\ w' = [w EXCEPT !.pc = "drop", !.fenced = TRUE]
          /\ q' = IF q.mode = "RUNNING" THEN [q EXCEPT !.mode = "FENCED"]
                  ELSE q
          /\ UNCHANGED <<state, stop, external>>
  /\ UNCHANGED <<up, late, guards, token, credits, p, c, s, calls, env,
                 blame>>

DropGate ==
  /\ w.pc = "drop" /\ gate' = Nobody
  /\ w' = [w EXCEPT !.pc = IF w.back = "publish" THEN "close"
                                                 ELSE "drain_begin"]
  /\ UNCHANGED <<up, late, guards, token, state, stop, external, credits, q,
                 p, c, s, calls, env, blame>>

(* Which stops may still save what the queue holds.                        *)
DrainBegin ==
  /\ w.pc = "drain_begin"
  /\ IF /\ Sound /\ stop \in Orderly
        /\ p.state = "RECORDING" /\ ~w.closed
     THEN /\ w' = [w EXCEPT !.pc = "drain", !.drain = TRUE]
          /\ UNCHANGED <<stop, external>>
     ELSE /\ w' = [w EXCEPT !.pc = "close", !.unsafe = Unsafe]
          /\ Latch("NONE")
  /\ UNCHANGED <<up, late, guards, token, gate, state, credits, q, p, c, s,
                 calls, env, blame>>

MoreToDrain == q.frames # << >>

Drain ==
  /\ w.pc = "drain"
  /\ IF Sound /\ MoreToDrain
     THEN /\ w' = [w EXCEPT !.pc = "feed", !.phase = "drain",
                            !.hand = Head(q.frames)]
          /\ q' = [q EXCEPT !.frames = Tail(@)]
          /\ UNCHANGED <<stop, external>>
     ELSE /\ w' = [w EXCEPT !.pc = "close", !.unsafe = Unsafe]
          /\ Latch("NONE") /\ UNCHANGED q
  /\ UNCHANGED <<up, late, guards, token, gate, state, credits, p, c, s,
                 calls, env, blame>>

(* rw_close_queue                                                          *)
Close ==
  /\ w.pc = "close"
  /\ w' = [w EXCEPT !.closed = TRUE, !.back = "drain",
                    !.pc = IF w.back = "publish" THEN "publish" ELSE "end"]
  /\ q' = IF w.closed THEN q
          ELSE [q EXCEPT !.mode = "CLOSED", !.frames = << >>,
                         !.discarded = @ + Len(q.frames)]
  /\ UNCHANGED <<up, late, guards, gates, p, c, s, calls, env, blame>>

(* rp_end or rp_external_fault.                                            *)
End ==
  /\ w.pc = "end"
  /\ LET finalizable == Sound /\ ~w.fault /\ stop \in Orderly
         x == [w EXCEPT !.finalizable = finalizable, !.unsafe = Unsafe,
                        !.to = "settle", !.why = stop]
     IN IF p.state = "RECORDING" /\ finalizable
        THEN IF p.pending > 0
             THEN /\ p' = [p EXCEPT !.state = "DRAINING",
                                    !.drain_reason = stop]
                  /\ w' = [x EXCEPT !.pc = "settle"]
             ELSE /\ w' = [x EXCEPT !.pc = IF p.seg > 0 THEN "seal"
                                                        ELSE "publish"]
                  /\ UNCHANGED p
        ELSE /\ w' = [x EXCEPT !.pc = "settle"]
             /\ p' = IF \/ p.state = "RECORDING"
                        \/ p.state = "DRAINING" /\ ~finalizable
                     THEN PipelineFault(p) ELSE p
  /\ Latch("NONE")
  /\ UNCHANGED <<up, late, guards, token, gate, state, credits, q, c, s,
                 calls, env, blame>>

(* The storage thread still owns the ciphertext: keep lease and guards.    *)
Settled(b) == b.pending = 0 /\ ~b.uncertain

Settle ==
  /\ w.pc = "settle"
  /\ IF p.state = "DRAINING" /\ w.finalizable /\ Sound
     THEN /\ w' = [w EXCEPT !.pc = "loop"] /\ state' = "DRAINING"
          /\ UNCHANGED <<p, stop, external>>
     ELSE LET b == IF p.state = "DRAINING" THEN PipelineFault(p) ELSE p
              reason == IF b.reason = "FULL" /\ ~Unsafe
                        THEN First(stop, "FULL") ELSE stop
          IN /\ p' = b
             /\ IF ~Settled(b)
                THEN Fail("NONE")
                ELSE /\ stop' = First(reason, Expired)
                     /\ UNCHANGED <<state, external>>
                     /\ w' = [w EXCEPT !.unsafe = Unsafe,
                          !.clean = /\ ~Unsafe /\ ~external /\ ~w.fault
                                    /\ reason \in Orderly \ {"OVERFLOW"}
                                    /\ b.wiped /\ b.final,
                          !.pc = IF ~Unsafe /\ b.wiped THEN "release"
                                                       ELSE "disarm"]
  /\ UNCHANGED <<up, late, guards, token, gate, credits, q, c, s, calls, env,
                 blame>>

(* rw_release_lease and recorder_release                                   *)
Release ==
  /\ w.pc = "release"
  /\ \E ok \in BOOLEAN :
       LET released == ok /\ Sound /\ (w.lease => Releasable)
       IN /\ Outcome(ok)
          /\ w' = [w EXCEPT !.pc = "disarm", !.lease = @ /\ ~released,
                            !.clean = @ /\ released, !.unsafe = Unsafe]
          /\ Latch(IF Sound /\ ~released THEN "RELEASE_FAILED" ELSE "NONE")
  /\ UNCHANGED <<up, late, guards, token, gate, state, credits, q, p, c, s,
                 calls, blame>>

Disarm ==
  /\ w.pc = "disarm"
  /\ IF Unsafe
     THEN Fail("NONE") /\ UNCHANGED guards
     ELSE /\ guards' = guards \ {"codec"}
          /\ UNCHANGED <<stop, external>>
          /\ state' = IF w.clean THEN "STOPPED" ELSE "FAULT"
          /\ w' = [w EXCEPT !.armed = FALSE, !.confirmed = FALSE,
                            !.fault = ~w.clean,
                            !.pc = IF w.clean THEN "idle" ELSE "fatal"]
  /\ UNCHANGED <<up, late, token, gate, credits, q, p, c, s, calls, env,
                 blame>>

(* rw_step while DRAINING: rp_poll, and finish() once the job is durable.  *)
StepDraining ==
  /\ w.pc = "step" /\ state = "DRAINING"
  /\ IF ~w.confirmed \/ ~w.fenced \/ ~w.closed
     THEN Fail("CORE") /\ UNCHANGED <<guards, p, s>>
     ELSE IF ~Sound
     THEN /\ w' = [w EXCEPT !.pc = "shutdown", !.unsafe = Unsafe]
          /\ Latch("NONE") /\ UNCHANGED <<guards, state, p, s>>
     ELSE /\ p' = AfterPoll /\ s' = StoreAfterPoll
          /\ guards' = GuardsAfterPoll
          /\ UNCHANGED <<state, stop, external>>
          /\ w' = [w EXCEPT !.to = "polled", !.why = p.drain_reason,
                     !.pend = @ /\ ~Polled,
                     !.rc = IF Polled THEN "OK" ELSE PollResult,
                     !.pc = IF ~Polled THEN "polled"
                            ELSE IF p.seg > 0 THEN "seal" ELSE "publish"]
  /\ UNCHANGED <<up, late, token, gate, credits, q, c, calls, env, blame>>

AfterPolled ==
  /\ w.pc = "polled"
  /\ LET failed == w.rc \in {"ERROR", "FAILED"}
     IN /\ w' = [w EXCEPT !.fault = @ \/ failed, !.unsafe = Unsafe,
              !.pc = IF Sound /\ w.rc = "PENDING" /\ p.state = "DRAINING"
                     THEN "loop" ELSE "shutdown"]
        /\ Latch(IF failed THEN "CORE" ELSE "NONE")
  /\ UNCHANGED <<up, late, guards, token, gate, state, credits, q, p, c, s,
                 calls, env, blame>>

Fatal == w.pc = "fatal" /\ Die

-----------------------------------------------------------------------------
(* rw_submit.  The token is read before the gate is taken and again after. *)
Submitting(t, e, n) ==
  sub' = [sub EXCEPT ![t] = [NoCall EXCEPT !.pc = "take", !.e = e, !.n = n]]

(* What the capture thread makes of the answer.                            *)
Answered(t, rc) ==
  c' = IF t # "capture" THEN c
       ELSE IF rc = "OK" THEN [c EXCEPT !.rc = rc, !.n = @ + 1]
       ELSE IF rc \in {"STOPPED_INPUT", "BUSY"}
       THEN [c EXCEPT !.rc = rc, !.stop = TRUE]
       ELSE [c EXCEPT !.rc = rc, !.stop = TRUE, !.fault = TRUE,
                      !.pc = "report"]

(* rw_producer_fault: the tag keeps a fault in its own session.            *)
SameSession(e) == token = [n |-> e, fault |-> FALSE]

SubmitTake(t) ==
  /\ sub[t].pc = "take"
  /\ IF gate # Nobody
     THEN /\ sub' = [sub EXCEPT ![t] = NoCall] /\ Answered(t, "BUSY")
          /\ IF SameSession(sub[t].e)
             THEN /\ token' = [token EXCEPT !.fault = TRUE]
                  /\ blame' = blame \cup {sub[t].e}
             ELSE UNCHANGED <<token, blame>>
          /\ UNCHANGED gate
     ELSE /\ gate' = t /\ sub' = [sub EXCEPT ![t].pc = "check"]
          /\ UNCHANGED <<token, c, blame>>
  /\ UNCHANGED <<up, late, guards, state, stop, external, credits, q, w, p,
                 s, ask, env>>

(* A reason latched by the caller of session e.                            *)
LatchFor(e, why) ==
  /\ stop' = First(stop, why)
  /\ external' = (external \/ why = "EXTERNAL")
  /\ blame' = IF why = "NONE" THEN blame ELSE blame \cup {e}

SubmitCheck(t) ==
  /\ sub[t].pc = "check"
  /\ LET stale == sub[t].e # token.n
         closed == state # "RUNNING" \/ stop # "NONE"
         rc == IF stale THEN "STALE"
               ELSE IF token.fault \/ closed \/ credits = 0
               THEN "STOPPED_INPUT" ELSE "OK"
     IN /\ sub' = [sub EXCEPT ![t].rc = rc,
                      ![t].pc = IF rc = "OK" THEN "push" ELSE "drop"]
        /\ LatchFor(sub[t].e, IF stale THEN "NONE"
                              ELSE IF token.fault THEN "EXTERNAL"
                              ELSE IF closed \/ credits > 0 THEN "NONE"
                              ELSE "FULL")
  /\ UNCHANGED <<up, late, guards, token, gate, state, credits, q, w, p, c,
                 s, ask, env>>

(* rfq_push, and the credit it costs.                                      *)
SpendCredit == credits - 1

QueueWhy(n) == IF q.mode # "RUNNING" \/ q.why # "NONE" THEN q.why
               ELSE IF n # q.accepted THEN "CONTINUITY"
               ELSE IF Len(q.frames) >= QueueCapacity THEN "FULL"
               ELSE "NONE"

SubmitPush(t) ==
  /\ sub[t].pc = "push"
  /\ LET why == QueueWhy(sub[t].n)
         pushed == why = "NONE" /\ q.mode = "RUNNING"
     IN /\ sub' = [sub EXCEPT ![t].pc = "drop",
                      ![t].rc = IF pushed THEN "OK" ELSE "STOPPED_INPUT"]
        /\ IF pushed
           THEN /\ q' = [q EXCEPT !.accepted = @ + 1,
                     !.frames = Append(@, [e |-> sub[t].e, n |-> sub[t].n])]
                /\ credits' = SpendCredit
                /\ LatchFor(sub[t].e, IF credits' = 0 THEN "FULL" ELSE "NONE")
           ELSE /\ q' = [q EXCEPT !.why = why] /\ UNCHANGED credits
                /\ LatchFor(sub[t].e, CASE why = "FULL" -> "OVERFLOW"
                                        [] why = "CONTINUITY" -> why
                                        [] OTHER -> "EXTERNAL")
  /\ UNCHANGED <<up, late, guards, token, gate, state, w, p, c, s, ask, env>>

SubmitDrop(t) ==
  /\ sub[t].pc = "drop" /\ gate' = Nobody
  /\ sub' = [sub EXCEPT ![t] = NoCall] /\ Answered(t, sub[t].rc)
  /\ UNCHANGED <<up, late, guards, token, state, stop, external, credits, q,
                 w, p, s, ask, env, blame>>

(* A producer callback that was not joined, with the session it knows.     *)
StraySubmit(t) ==
  /\ sub[t].pc = "idle" /\ token.n > 0 /\ env.calls < MaxCalls
  /\ env' = [env EXCEPT !.calls = @ + 1]
  /\ \E n \in {0, q.accepted} : Submitting(t, token.n, n)
  /\ UNCHANGED <<up, late, guards, gates, q, w, p, c, s, ask, blame>>

-----------------------------------------------------------------------------
(* rw_request_stop                                                         *)
Asking(t, e, why) ==
  ask' = [ask EXCEPT ![t] = [NoCall EXCEPT !.pc = "take", !.e = e,
                                           !.why = why]]

(* rc_capture_failure goes on to rc_finish_capture whatever the answer.    *)
AskReturns(t) == /\ ask' = [ask EXCEPT ![t] = NoCall]
                 /\ c' = IF t = "capture" THEN [c EXCEPT !.pc = "finish"]
                         ELSE c

AskTake(t) ==
  /\ ask[t].pc = "take"
  /\ IF gate # Nobody
     THEN AskReturns(t) /\ UNCHANGED gate
     ELSE /\ gate' = t /\ ask' = [ask EXCEPT ![t].pc = "latch"]
          /\ UNCHANGED c
  /\ UNCHANGED <<up, late, guards, token, state, stop, external, credits, q,
                 w, p, s, sub, env, blame>>

MayLatch(t) == ask[t].e = token.n

AskLatch(t) ==
  /\ ask[t].pc = "latch" /\ ask' = [ask EXCEPT ![t].pc = "drop"]
  /\ LatchFor(ask[t].e, IF /\ MayLatch(t)
                           /\ state \in {"RUNNING", "STOPPING", "DRAINING"}
                        THEN ask[t].why ELSE "NONE")
  /\ UNCHANGED <<up, late, guards, token, gate, state, credits, q, w, p, c,
                 s, sub, env>>

AskDrop(t) ==
  /\ ask[t].pc = "drop" /\ gate' = Nobody /\ AskReturns(t)
  /\ UNCHANGED <<up, late, guards, token, state, stop, external, credits, q,
                 w, p, s, sub, env, blame>>

(* The shell, USB, Bluetooth control and low power.                        *)
UserAsks(u, why) ==
  /\ ask[u].pc = "idle" /\ token.n > 0 /\ env.calls < MaxCalls
  /\ env' = [env EXCEPT !.calls = @ + 1]
  /\ Asking(u, token.n, why)
  /\ UNCHANGED <<up, late, guards, gates, q, w, p, c, s, sub, blame>>

-----------------------------------------------------------------------------
(* rc_capture_run and rc_finish_capture.  Warm-up frames are read and      *)
(* released: they change nothing here.                                     *)
CaptureFails ==
  /\ c.pc = "read" /\ sub["capture"].pc = "idle" /\ ~c.stop /\ Inject
  /\ c' = [c EXCEPT !.fault = TRUE, !.stop = TRUE, !.pc = "report"]
  /\ UNCHANGED <<up, late, guards, gates, q, w, p, s, calls, blame>>

CaptureReports ==
  /\ c.pc = "report" /\ ask["capture"].pc = "idle"
  /\ IF c.epoch = token.n
     THEN Asking("capture", c.epoch, "EXTERNAL") /\ UNCHANGED c
     ELSE AskReturns("capture")
  /\ UNCHANGED <<up, late, guards, gates, q, w, p, s, sub, env, blame>>

CaptureFrame ==
  /\ c.pc = "read" /\ sub["capture"].pc = "idle" /\ ~c.stop
  /\ IF c.epoch = token.n
     THEN Submitting("capture", c.epoch, c.n) /\ UNCHANGED c
     ELSE Answered("capture", "STALE") /\ UNCHANGED sub
  /\ UNCHANGED <<up, late, guards, gates, q, w, p, s, ask, env, blame>>

CaptureStops ==
  /\ c.pc = "read" /\ sub["capture"].pc = "idle" /\ c.stop
  /\ c' = [c EXCEPT !.pc = "finish"]
  /\ UNCHANGED <<up, late, guards, gates, q, w, p, s, calls, env, blame>>

(* The clock and DMA stop and the buffers are wiped, then the power goes,  *)
(* and only then is the thread joined.                                     *)
CaptureFinish ==
  /\ c.pc = "finish"
  /\ c' = [c EXCEPT !.pc = "off", !.stopped = TRUE, !.scrubbed = TRUE]
  /\ UNCHANGED <<up, late, guards, gates, q, w, p, s, calls, env, blame>>

CaptureOff ==
  /\ c.pc = "off" /\ c' = [c EXCEPT !.pc = "leave", !.powered = FALSE]
  /\ UNCHANGED <<up, late, guards, gates, q, w, p, s, calls, env, blame>>

CaptureJoin ==
  /\ c.pc = "leave" /\ c' = [c EXCEPT !.pc = "idle", !.joined = TRUE]
  /\ UNCHANGED <<up, late, guards, gates, q, w, p, s, calls, env, blame>>

CaptureDies == /\ c.pc \in {"finish", "off"} /\ env.faults < MaxFaults
               /\ Die

-----------------------------------------------------------------------------
(* storage_thread: the segment becomes durable, then the thread lets go.   *)
StoreDurable ==
  /\ s.job = "storing"
  /\ s' = [s EXCEPT !.job = "ready", !.disk = @ + s.frames]
  /\ UNCHANGED <<up, late, guards, gates, q, w, p, c, calls, env, blame>>

StoreLeaves ==
  /\ s.job = "ready" /\ s.running /\ s' = [s EXCEPT !.running = FALSE]
  /\ UNCHANGED <<up, late, guards, gates, q, w, p, c, calls, env, blame>>

StoreDies == s.running /\ env.faults < MaxFaults /\ Die

(* Time, and the supervisor timer that resets on a passed guard.           *)
Expire == /\ ~late /\ (guards # {} \/ w.drain) /\ late' = TRUE
          /\ UNCHANGED <<up, guards, gates, q, w, p, c, s, calls, env, blame>>

Supervise == late /\ guards # {} /\ Die

-----------------------------------------------------------------------------
Codec ==
  \/ Acquire \/ Consent("consent", "capacity") \/ QueryCapacity
  \/ Consent("consent_again", "rearm") \/ Rearm \/ Bump \/ Begin
  \/ ConsentSession \/ StartCapture \/ Started \/ Loop \/ StepRunning
  \/ PopRunning \/ Feed \/ Seal \/ Publish \/ Fed \/ Shutdown \/ Fence
  \/ StopCapture \/ Join \/ TakeGate \/ DropGate \/ DrainBegin \/ Drain
  \/ Close \/ End \/ Settle \/ Release \/ Disarm \/ StepDraining
  \/ AfterPolled \/ Fatal

Submit(t) == SubmitTake(t) \/ SubmitCheck(t) \/ SubmitPush(t) \/ SubmitDrop(t)
Ask(t) == AskTake(t) \/ AskLatch(t) \/ AskDrop(t)
Capture == \/ Submit("capture") \/ Ask("capture") \/ CaptureReports
           \/ CaptureFrame \/ CaptureStops \/ CaptureFinish \/ CaptureOff
           \/ CaptureJoin
Storage == StoreDurable \/ StoreLeaves

Next ==
  /\ up
  /\ \/ Start \/ Codec \/ SubmitFatal \/ Capture \/ CaptureFails
     \/ CaptureDies \/ Storage \/ StoreDies \/ Expire \/ Supervise
     \/ \E t \in Strays : StraySubmit(t) \/ Submit(t)
     \/ \E u \in Users : Ask(u)
     \/ \E u \in Users, why \in {"USER", "LOW_POWER", "EXTERNAL"} :
          UserAsks(u, why)

Spec == Init /\ [][Next]_vars

(* The threads run when they can, and the timer interrupt fires.           *)
Fairness ==
  /\ WF_vars(up /\ Codec) /\ WF_vars(up /\ Capture) /\ WF_vars(up /\ Storage)
  /\ WF_vars(up /\ Supervise)
  /\ \A t \in Strays : WF_vars(up /\ Submit(t))
  /\ \A u \in Users : WF_vars(up /\ Ask(u))
FairSpec == Spec /\ Fairness

-----------------------------------------------------------------------------
(* Every variable keeps its type; the queue, a segment and the credits     *)
(* stay within their sizes, and a job holds what the pipeline handed over. *)
TypeOK ==
  /\ up \in BOOLEAN /\ late \in BOOLEAN /\ guards \subseteq {"codec", "storage"}
  /\ token \in [n : 0..MaxEpoch, fault : BOOLEAN]
  /\ gate \in {Nobody, "codec"} \cup Submitters \cup Askers
  /\ state \in {"IDLE", "STARTING", "RUNNING", "STOPPING", "DRAINING",
                "STOPPED", "FAULT"}
  /\ stop \in Reasons /\ external \in BOOLEAN
  /\ credits \in 0..(Slots * SegmentFrames)
  /\ Len(q.frames) <= QueueCapacity
  /\ p.seg \in 0..SegmentFrames /\ p.pending \in 0..SegmentFrames
  /\ s.frames = p.pending \/ s.job = "none"

(* Every frame rw_submit accepted is in exactly one place: still queued,   *)
(* discarded with the queue, in the worker's hand, discarded by the        *)
(* worker, in the open segment, with the store, durable, or counted as     *)
(* discarded by the pipeline.  Segments change hands across threads, and   *)
(* each error path of rw_feed, seal and rw_close_queue keeps the sum.      *)
FramesAccounted ==
  p.session = q.session =>
    q.accepted = Len(q.frames) + q.discarded
                 + (IF w.hand = NoFrame THEN 0 ELSE 1) + w.discarded
                 + Captured(p)

(* A recording that ends STOPPED lost nothing: every accepted frame is     *)
(* durable and the manifest names exactly those, and the worker has given  *)
(* up its lease and every guard.  This is what lcw_publish tells the phone *)
(* and what the success signal of record_loop stands for.                  *)
CleanMeansSaved ==
  state = "STOPPED" => /\ s.disk = q.accepted /\ s.final = s.disk
                       /\ s.job = "none" /\ ~w.lease /\ guards = {}

(* Whatever the reason of the end, a manifest is only published for        *)
(* exactly the durable prefix, with the capture thread joined, the         *)
(* queue closed and no job at the store (rw_finalize, finish).             *)
ManifestExact ==
  s.final # NoManifest /\ p.session = q.session
    => s.final = s.disk /\ c.joined /\ q.mode = "CLOSED" /\ s.job = "none"

(* While the storage thread owns a segment, the lease is held, the storage *)
(* guard is armed and the pipeline knows what it handed over: no error     *)
(* path of rw_shutdown lets go of a job in flight.                         *)
OwnershipKept ==
  s.job # "none" => /\ w.lease /\ "storage" \in guards
                    /\ p.pending = s.frames /\ p.pending > 0

(* Whenever the worker holds no lease the microphone is off, its buffers   *)
(* are wiped, the capture thread has joined and the storage thread is      *)
(* idle, so that the next owner of the microphone and the store finds them *)
(* free (recorder_release, rw_fence).                                      *)
QuietWhenReleased ==
  ~w.lease => /\ CaptureQuiet /\ ~s.running
              /\ sub["capture"].pc = "idle" /\ c.pc = "idle"

(* A call made for an earlier session never touches this one: the queue    *)
(* holds only frames of its own session, and nobody else's submission or   *)
(* stop request stopped it (the token is read again under the gate, and    *)
(* rw_producer_fault is one tagged compare-and-swap).                      *)
StaleRejected ==
  /\ \A i \in 1..Len(q.frames) : q.frames[i].e = q.session
  /\ blame \subseteq {token.n}

(* The store never runs out of slots for a frame that was admitted: the    *)
(* frame credits given at the start of a session are spent one for one     *)
(* (rw_submit, recorder_capacity).                                         *)
CreditsCovered == ~s.starved

(* No frame is lost track of, from its admission against the store's slots *)
(* to the flash.                                                           *)
FramesCovered == FramesAccounted /\ CreditsCovered

(* What is published is what is durable, and all of it if the end is       *)
(* called clean.                                                           *)
SavedExactly == CleanMeansSaved /\ ManifestExact

(* Sessions do not leak into each other or into the next owner: across     *)
(* late callers, failed shutdowns and jobs in flight each holds what it    *)
(* uses, in its type, and leaves nothing behind.                           *)
SessionsApart == TypeOK /\ OwnershipKept /\ QuietWhenReleased /\ StaleRejected

(* Once the clock was unsafe nothing more is started or let go: no job, no *)
(* manifest, no release and no disarm follow (rw_guard before every hook). *)
UnsafeFreezes ==
  [][w.unsafe /\ up' =>
        /\ w'.unsafe /\ w'.lease = w.lease
        /\ s'.final = s.final
        /\ ("codec" \in guards => "codec" \in guards')
        /\ (s'.job = "storing" => s.job = "storing")]_vars

(* A stop that was latched ends: the recording is STOPPED or the device    *)
(* has been reset, with the capture thread, the storage thread, callers    *)
(* caught holding the gate and the drain of the queue all in the way.      *)
StopCompletes ==
  (state = "RUNNING" /\ stop # "NONE") ~> (state = "STOPPED" \/ ~up)

(* What recorder_release says of a stop: a frame that DMIC had already     *)
(* returned is answered STOPPED_INPUT, so that the recording still ends    *)
(* cleanly.  rw_submit answers BUSY instead, and faults the session, when  *)
(* it meets the gate that rw_request_stop holds.                           *)
StopRaceRejectsInput == env.faults = 0 => c.rc \in {"OK", "STOPPED_INPUT"}

=============================================================================
