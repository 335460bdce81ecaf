----------------------------- MODULE SyncBroker -----------------------------
(***************************************************************************)
(* The durable BLE transport of the pendant: the broker of recording_ble.c *)
(* between the Bluetooth receive thread (radio), the system work queue     *)
(* that notifies (pump) and the recorder's codec thread (codec), with the  *)
(* sync part of recording_runtime.c.  A section under irq_lock is one      *)
(* step; hooks run between sections, so every thread has a program         *)
(* counter.  A thread's last leave() and the kick() it ends with are one   *)
(* step, and the retire hook kick() calls is a step of its own.            *)
(*                                                                         *)
(* Time is what the code asks of it: the request's deadline has passed, or *)
(* the session's.  The answer to a stream has two frames, any other one.   *)
(* A reset clears everything here.                                         *)
(***************************************************************************)
EXTENDS Naturals, Sequences, FiniteSets

CONSTANTS
  MaxNonces,    \* bound: session nonces, numbered as sessions open
  MaxConns,     \* bound: connections made
  MaxWrites,    \* bound: requests written
  MaxSeq,       \* bound: sequence numbers of requests
  MaxFaults     \* bound: failures of the store or its power, and claims refused

VARIABLES
  b,        \* the broker of recording_ble.c
  clock,    \* "fresh", or the "request" or the "session" deadline has passed
  rt,       \* command_busy, catalog_epoch, retire_pending, runtime_commands, leased, faulted
  hook,     \* the epoch kick() is passing to the retire hook, 0 for none
  radio,    \* the receive thread in recording_ble_command
  pump,     \* the work queue in delivery_work_handler
  codec,    \* the codec thread in codec_thread and execute_active
  link,     \* the connection (up: present) and its subscription
  power,    \* the store's power and USB admission
  heard,    \* the frames notified for the last request, with their receiver
  used      \* what is used of the bounds

vars == <<b, clock, rt, hook, radio, pump, codec, link, power, heard, used>>

Commands == {"catalog", "stream"}      \* one frame of answer, or two
NoNonce == 0
NoReq == [by |-> 0, nonce |-> NoNonce, seq |-> 0, cmd |-> "none"]
NoFrame == [req |-> NoReq, part |-> 0]
Parts(cmd) == IF cmd = "stream" THEN 2 ELSE 1
Requests == [by : 1..MaxConns, nonce : 1..MaxNonces, seq : 1..MaxSeq, cmd : Commands]

NoBroker == [active |-> FALSE, revoked |-> FALSE, pending |-> FALSE, submitting |-> FALSE,
             completing |-> FALSE, terminal |-> FALSE, ok |-> FALSE, delivering |-> FALSE,
             queued |-> FALSE, retiring |-> FALSE, ever |-> FALSE, more |-> FALSE,
             conn |-> 0, nonce |-> NoNonce, seq |-> 0, req |-> NoReq,
             response |-> NoFrame, sent |-> 0,
             prior |-> NoNonce, epoch |-> 0, actors |-> 0, fault |-> FALSE]
NoRuntime == [busy |-> "no", epoch |-> 0, retire |-> 0, msg |-> NoReq, leased |-> FALSE,
              faulted |-> FALSE]
IdleThread == [pc |-> "idle", epoch |-> 0, req |-> NoReq, ok |-> FALSE]
IdlePump == [pc |-> "idle", epoch |-> 0, conn |-> 0, frame |-> NoFrame, ok |-> FALSE]
IdleCodec == [pc |-> "poll", epoch |-> 0, req |-> NoReq, rc |-> "ok", part |-> 0]

Init ==
  /\ b = NoBroker /\ clock = "fresh" /\ rt = NoRuntime /\ hook = 0
  /\ radio = IdleThread /\ pump = IdlePump /\ codec = IdleCodec
  /\ link = [conn |-> 0, up |-> FALSE, sub |-> FALSE] /\ power = TRUE
  /\ heard = <<>> /\ used = [writes |-> 0, faults |-> 0]

-----------------------------------------------------------------------------
(* The broker's critical sections, as functions of its state.              *)

Expire(s) == IF s.active /\ clock = "session" THEN [s EXCEPT !.revoked = TRUE] ELSE s

(* Only the epoch, the prior nonce and the fault outlive a session.        *)
Clear(s) == [NoBroker EXCEPT !.prior = s.nonce, !.epoch = s.epoch, !.actors = s.actors,
                             !.fault = s.fault]

Quiet(s) == s.active /\ s.revoked /\ ~s.pending /\ s.actors = 0 /\ ~s.retiring
Kick(s) == IF ~Quiet(s) THEN s
           ELSE IF s.ever THEN [s EXCEPT !.retiring = TRUE] ELSE Clear(s)
HookAfterKick(s) == IF Quiet(s) /\ s.ever THEN s.epoch ELSE hook

Leaving(s) == IF s.actors = 0 THEN [s EXCEPT !.fault = TRUE, !.revoked = TRUE]
              ELSE [s EXCEPT !.actors = @ - 1]

(* Leave: the actor leaves, and kick() retires a revoked session at rest.  *)
Leave(s) == /\ b' = Kick(Leaving(s)) /\ hook' = HookAfterKick(Leaving(s))

Deliverable(s) == s.pending /\ ~s.submitting /\ ~s.completing /\ s.terminal /\ ~s.delivering

(* schedule_delivery: the work item is submitted, and its actor leaves.    *)
Schedule(s) == IF Deliverable(s) /\ ~s.queued THEN [s EXCEPT !.queued = TRUE] ELSE s

Live(epoch) == /\ ~b.fault /\ b.active /\ b.epoch = epoch /\ ~b.revoked /\ clock = "fresh"

-----------------------------------------------------------------------------
(* What the hooks read: recording_runtime_sync_ready, durable_authorized.  *)

BaseReady == ~rt.faulted /\ power /\ rt.retire = 0
Ready == BaseReady /\ (rt.busy = "no" \/ rt.epoch # 0)
Authorized(c) == link.up /\ link.sub /\ link.conn = c

Admitted(epoch, r) ==
  /\ ~b.fault /\ b.active /\ b.epoch = epoch /\ b.pending /\ ~b.completing
  /\ (~b.terminal \/ b.more) /\ clock = "fresh" /\ b.req = r

-----------------------------------------------------------------------------
(* The receive thread: recording_ble_command.                              *)

BusyWhilePending(s) == s.active /\ s.pending
Busy(s) == s.active /\ (s.revoked \/ s.pending \/ s.actors > 0 \/ s.retiring)

Opens(s, r) == ~s.active /\ r.cmd = "catalog" /\ r.nonce # s.prior
Continues(s, r) == /\ s.active /\ s.conn = r.by /\ r.nonce = s.nonce /\ r.seq > s.seq

(* Nonces only ever compare equal or not: the n-th session's is at most n. *)
Write(r) ==
  /\ radio.pc = "idle" /\ link.up /\ r.by = link.conn /\ used.writes < MaxWrites
  /\ r.nonce <= b.epoch + 1
  /\ used' = [used EXCEPT !.writes = @ + 1]
  /\ LET e == IF b.fault THEN b ELSE Expire(b)
     IN IF b.fault \/ Busy(e) \/ ~(Opens(e, r) \/ Continues(e, r))
        THEN /\ b' = Kick(e) /\ hook' = HookAfterKick(e)
             /\ UNCHANGED <<clock, radio>>
        ELSE /\ b' = IF e.active THEN [e EXCEPT !.actors = @ + 1]
                     ELSE [e EXCEPT !.active = TRUE, !.conn = r.by, !.nonce = r.nonce,
                                    !.epoch = @ + 1, !.actors = @ + 1]
             /\ clock' = "fresh"
             /\ radio' = [pc |-> "permit", epoch |-> b'.epoch, req |-> r, ok |-> FALSE]
             /\ UNCHANGED hook
  /\ UNCHANGED <<rt, pump, codec, link, power, heard>>

Goto(pc) == radio' = [radio EXCEPT !.pc = pc]

(* The hooks are asked without the lock.                                   *)
Permit ==
  /\ radio.pc = "permit"
  /\ radio' = [radio EXCEPT !.pc = "commit",
                            !.ok = Ready /\ Authorized(radio.req.by) /\ Live(radio.epoch)]
  /\ b' = Expire(b)
  /\ UNCHANGED <<clock, rt, hook, pump, codec, link, power, heard, used>>

Commit ==
  /\ radio.pc = "commit"
  /\ IF radio.ok /\ Live(radio.epoch)
     THEN /\ b' = [b EXCEPT !.req = radio.req, !.pending = TRUE, !.submitting = TRUE,
                            !.seq = radio.req.seq, !.sent = 0, !.more = FALSE]
          /\ heard' = <<>> /\ Goto("claim")
     ELSE /\ b' = [b EXCEPT !.revoked = TRUE] /\ Goto("leave") /\ UNCHANGED heard
  /\ UNCHANGED <<clock, rt, hook, pump, codec, link, power, used>>

(* recording_runtime_sync_submit: the checks and the claim of command_busy *)
Claim ==
  /\ radio.pc = "claim"
  /\ IF Ready /\ Admitted(radio.epoch, radio.req) /\ rt.busy = "no"
     THEN rt' = [rt EXCEPT !.busy = "sync"] /\ Goto("enqueue")
     ELSE UNCHANGED rt /\ radio' = [radio EXCEPT !.pc = "after", !.ok = FALSE]
  /\ UNCHANGED <<b, clock, hook, pump, codec, link, power, heard, used>>

(* ... and, owning it, the same checks again and the message.              *)
Enqueue ==
  /\ radio.pc = "enqueue"
  /\ IF BaseReady /\ (IF rt.epoch # 0 THEN rt.epoch = radio.epoch ELSE radio.req.cmd = "catalog")
     THEN rt' = [rt EXCEPT !.epoch = radio.epoch, !.msg = radio.req] /\ Goto("after")
     ELSE rt' = [rt EXCEPT !.busy = "no"] /\ radio' = [radio EXCEPT !.pc = "after", !.ok = FALSE]
  /\ UNCHANGED <<b, clock, hook, pump, codec, link, power, heard, used>>

(* A refused submission that was nevertheless answered is a fault.         *)
After ==
  /\ radio.pc = "after"
  /\ b' = IF radio.ok THEN [b EXCEPT !.submitting = FALSE, !.ever = TRUE]
          ELSE [b EXCEPT !.submitting = FALSE, !.revoked = TRUE, !.pending = FALSE,
                         !.terminal = FALSE, !.ok = FALSE, !.response = NoFrame,
                         !.fault = @ \/ b.terminal \/ b.completing,
                         !.ever = @ \/ b.terminal \/ b.completing]
  /\ Goto(IF radio.ok THEN "schedule" ELSE "leave")
  /\ UNCHANGED <<clock, rt, hook, pump, codec, link, power, heard, used>>

ScheduleAfter ==
  /\ radio.pc = "schedule" /\ b' = Schedule(b) /\ Goto("leave")
  /\ UNCHANGED <<clock, rt, hook, pump, codec, link, power, heard, used>>

LeaveRadio ==
  /\ radio.pc = "leave" /\ Leave(b) /\ radio' = IdleThread
  /\ UNCHANGED <<clock, rt, pump, codec, link, power, heard, used>>

Radio == Permit \/ Commit \/ Claim \/ Enqueue \/ After \/ ScheduleAfter \/ LeaveRadio

-----------------------------------------------------------------------------
(* The work queue: delivery_work_handler and deliver.                      *)

(* Nothing preempts the cooperative work queue between the handler's lock  *)
(* and the one deliver() starts with.                                      *)
Handle ==
  /\ pump.pc = "idle" /\ b.queued
  /\ IF Deliverable(b)
     THEN /\ b' = [b EXCEPT !.queued = FALSE, !.actors = @ + 1, !.delivering = TRUE]
          /\ pump' = [pc |-> IF b.ok THEN "check" ELSE "end", epoch |-> b.epoch,
                      conn |-> b.conn, frame |-> b.response, ok |-> b.ok]
     ELSE b' = [b EXCEPT !.queued = FALSE, !.fault = TRUE, !.revoked = TRUE] /\ UNCHANGED pump
  /\ UNCHANGED <<clock, rt, hook, radio, codec, link, power, heard, used>>

Check ==
  /\ pump.pc = "check"
  /\ LET ok == Live(pump.epoch) /\ Ready /\ Authorized(pump.conn)
     IN pump' = [pump EXCEPT !.ok = ok, !.pc = IF ok THEN "notify" ELSE "end"]
  /\ b' = Expire(b)
  /\ UNCHANGED <<clock, rt, hook, radio, codec, link, power, heard, used>>

(* durable_notify: the authority is read again beside the stack's queue.   *)
ReplyAllowed ==
  /\ ~b.fault /\ b.active /\ b.conn = pump.conn /\ ~b.revoked /\ b.pending /\ b.delivering
  /\ b.ok /\ b.req.seq = pump.frame.req.seq /\ clock = "fresh"

Notify ==
  /\ pump.pc = "notify"
  /\ \/ /\ Authorized(pump.conn) /\ ReplyAllowed
        /\ heard' = Append(heard, [to |-> link.conn, frame |-> pump.frame])
        /\ pump' = [pump EXCEPT !.pc = "end"]
     \/ /\ Authorized(pump.conn) /\ ReplyAllowed   \* the stack has no buffer (-ENOMEM)
        /\ pump' = [pump EXCEPT !.ok = FALSE,
                                !.pc = IF pump.frame.req.cmd = "stream" THEN "retry" ELSE "end"]
        /\ UNCHANGED heard
     \/ /\ ~(Authorized(pump.conn) /\ ReplyAllowed)
        /\ pump' = [pump EXCEPT !.pc = "end", !.ok = FALSE] /\ UNCHANGED heard
  /\ b' = Expire(b)
  /\ UNCHANGED <<clock, rt, hook, radio, codec, link, power, used>>

(* The frame is done with: its stream goes on, or the request has ended.   *)
DeliveredAnyway(s, ok) ==
  LET e == [s EXCEPT !.terminal = FALSE, !.ok = FALSE, !.delivering = FALSE, !.response = NoFrame]
  IN IF s.more THEN [e EXCEPT !.more = FALSE, !.sent = @ + 1]
     ELSE [e EXCEPT !.pending = FALSE, !.req = NoReq]

Delivered(s, ok) ==
  LET e == [s EXCEPT !.revoked = @ \/ ~ok, !.terminal = FALSE, !.ok = FALSE,
                     !.delivering = FALSE, !.response = NoFrame]
  IN IF s.more THEN [e EXCEPT !.more = FALSE, !.sent = IF ok THEN @ + 1 ELSE @]
     ELSE [e EXCEPT !.pending = FALSE, !.req = NoReq]

EndDelivery ==
  /\ pump.pc \in {"end", "retry"}
  /\ b' = LET e == Expire(b)
          IN IF ~(b.active /\ b.epoch = pump.epoch /\ b.delivering) THEN e
             ELSE IF pump.pc = "retry" /\ Live(pump.epoch) THEN [e EXCEPT !.delivering = FALSE]
             ELSE Delivered(e, pump.ok /\ Live(pump.epoch))
  /\ pump' = [pump EXCEPT !.pc = "leave"]
  /\ UNCHANGED <<clock, rt, hook, radio, codec, link, power, heard, used>>

LeavePump ==
  /\ pump.pc = "leave" /\ Leave(b) /\ pump' = IdlePump
  /\ UNCHANGED <<clock, rt, radio, codec, link, power, heard, used>>

Pump == Handle \/ Check \/ Notify \/ EndDelivery \/ LeavePump

-----------------------------------------------------------------------------
(* The codec thread.  A reset is a cold boot with the link dropped.        *)

Reset ==
  /\ b' = NoBroker /\ clock' = "fresh" /\ rt' = NoRuntime /\ hook' = 0 /\ radio' = IdleThread
  /\ pump' = IdlePump /\ codec' = IdleCodec /\ link' = [link EXCEPT !.up = FALSE, !.sub = FALSE]
  /\ power' = TRUE /\ heard' = <<>> /\ UNCHANGED used

To(pc) == codec' = [codec EXCEPT !.pc = pc]

Poll ==
  /\ codec.pc = "poll"
  /\ LET e == [Expire(b) EXCEPT !.revoked = @ \/ (b.active /\ ~Ready)]
         d == IF e.req.cmd = "stream" THEN Schedule(e) ELSE e
     IN b' = Kick(d) /\ hook' = HookAfterKick(d)
  /\ To("retirement")
  /\ UNCHANGED <<clock, rt, radio, pump, link, power, heard, used>>

schedule_retirement ==
  /\ codec.pc = "retirement"
  /\ rt' = IF rt.retire # 0 /\ rt.busy = "no" THEN [rt EXCEPT !.busy = "retire"] ELSE rt
  /\ To("take")
  /\ UNCHANGED <<b, clock, hook, radio, pump, link, power, heard, used>>

(* A message past its deadline is fatal; so is guard_set.                  *)
Take ==
  /\ codec.pc = "take"
  /\ \/ /\ rt.busy = "retire"
        /\ codec' = [codec EXCEPT !.pc = "retire", !.epoch = rt.retire, !.rc = "ok"]
        /\ UNCHANGED <<b, clock, rt, hook, radio, pump, link, power, heard, used>>
     \/ /\ rt.msg # NoReq /\ clock = "fresh"
        /\ codec' = [pc |-> "perform", epoch |-> rt.epoch, req |-> rt.msg, rc |-> "ok", part |-> 1]
        /\ rt' = [rt EXCEPT !.msg = NoReq]
        /\ UNCHANGED <<b, clock, hook, radio, pump, link, power, heard, used>>
     \/ rt.msg # NoReq /\ clock # "fresh" /\ Reset
     \/ /\ rt.busy # "retire" /\ rt.msg = NoReq /\ To("poll")
        /\ UNCHANGED <<b, clock, rt, hook, radio, pump, link, power, heard, used>>

Checks == ~rt.faulted /\ power /\ clock = "fresh"
Fails == used.faults < MaxFaults /\ used' = [used EXCEPT !.faults = @ + 1]

(* sync_perform: open the catalog with the first request, then serve it;   *)
(* a stream serves each frame once the frame before it has been delivered. *)
StreamReady ==
  LET e == Expire(b)
      valid == e.active /\ e.pending /\ e.epoch = codec.epoch /\ e.req = codec.req
      staged == valid /\ (e.terminal \/ e.completing \/ e.delivering)
  IN IF staged THEN "staged"
     ELSE IF valid /\ ~e.fault /\ ~e.revoked /\ clock = "fresh" THEN "ready" ELSE "over"

Result(rc) == codec' = [codec EXCEPT !.pc = "complete", !.rc = rc]
Served == codec.req.cmd = "stream" => StreamReady = "ready"

Perform ==
  /\ codec.pc = "perform"
  /\ \/ ~Checks /\ Result("failed") /\ UNCHANGED <<rt, used>>
     \/ /\ Checks /\ Served /\ Fails /\ Result("failed")   \* mounting, or the store, fails
        /\ rt' \in {rt, [rt EXCEPT !.leased = TRUE]}
     \/ /\ Checks /\ Served /\ Result("ok")
        /\ rt' = [rt EXCEPT !.leased = TRUE] /\ UNCHANGED used
     \/ /\ Checks /\ StreamReady = "staged" /\ codec.req.cmd = "stream"
        /\ UNCHANGED <<codec, rt, used>>
     \/ /\ Checks /\ (Served => rt.leased)              \* the selector is not there
        /\ (codec.req.cmd = "stream" => StreamReady # "staged")
        /\ Result("refused") /\ UNCHANGED <<rt, used>>
  /\ b' = IF codec.req.cmd = "stream" THEN Schedule(Expire(b)) ELSE b
  /\ UNCHANGED <<clock, hook, radio, pump, link, power, heard>>

(* complete(): the request is closed to others while its answer is checked *)
Completable(s) == s.active /\ s.epoch = codec.epoch /\ s.pending /\ ~s.completing /\ ~s.terminal
                  /\ s.req.seq = codec.req.seq

Complete ==
  /\ codec.pc = "complete"
  /\ IF Completable(b)
     THEN b' = [b EXCEPT !.completing = TRUE, !.actors = @ + 1] /\ To("stage")
     ELSE UNCHANGED b /\ codec' = [codec EXCEPT !.pc = "done", !.rc = IF @ = "failed" THEN @ ELSE "contradicted"]
  /\ UNCHANGED <<clock, rt, hook, radio, pump, link, power, heard, used>>

More == codec.rc = "ok" /\ codec.part < Parts(codec.req.cmd)

(* ... and staged; the frame must be the one after the frames sent.        *)
Stage ==
  /\ codec.pc = "stage"
  /\ LET valid == codec.rc = "ok" /\ (codec.req.cmd = "stream" => codec.part = b.sent + 1)
         wrong == codec.rc = "ok" /\ ~valid
     IN /\ b' = [b EXCEPT !.fault = @ \/ wrong, !.revoked = @ \/ wrong, !.more = More,
                          !.terminal = TRUE, !.ok = valid, !.completing = FALSE,
                          !.response = IF valid THEN [req |-> codec.req, part |-> codec.part] ELSE @]
        /\ codec' = [codec EXCEPT !.pc = "schedule", !.rc = IF wrong THEN "contradicted" ELSE @]
  /\ UNCHANGED <<clock, rt, hook, radio, pump, link, power, heard, used>>

ScheduleStaged ==
  /\ codec.pc = "schedule" /\ b' = Schedule(b) /\ To("leave")
  /\ UNCHANGED <<clock, rt, hook, radio, pump, link, power, heard, used>>

LeaveCodec ==
  /\ codec.pc = "leave" /\ Leave(b)
  /\ codec' = IF More THEN [codec EXCEPT !.pc = "perform", !.part = @ + 1]
              ELSE [codec EXCEPT !.pc = "done"]
  /\ UNCHANGED <<clock, rt, radio, pump, link, power, heard, used>>

(* A failure with the volume leased is fatal; a refused selector is clean. *)
Done ==
  /\ codec.pc = "done"
  /\ IF codec.rc \in {"failed", "contradicted"} /\ rt.leased THEN Reset
     ELSE /\ rt' = [rt EXCEPT !.busy = "no",
                              !.faulted = @ \/ codec.rc \in {"failed", "contradicted"}]
          /\ codec' = IdleCodec
          /\ UNCHANGED <<b, clock, hook, radio, pump, link, power, heard, used>>

-----------------------------------------------------------------------------
(* Retirement: the hook latches, the codec thread retires.                 *)

RetireHookUnlatched ==
  /\ hook # 0 /\ hook' = 0
  /\ rt' = IF hook = rt.epoch /\ rt.busy = "no" THEN [rt EXCEPT !.retire = hook] ELSE rt
  /\ UNCHANGED <<b, clock, radio, pump, codec, link, power, heard, used>>

RetireHook ==
  /\ hook # 0 /\ hook' = 0
  /\ LET latched == hook = rt.epoch /\ rt.retire \in {0, hook}
     IN /\ rt' = IF latched THEN [rt EXCEPT !.retire = hook] ELSE rt
        /\ b' = IF latched THEN b
                ELSE [b EXCEPT !.fault = TRUE, !.revoked = @ \/ (b.active /\ b.epoch = hook)]
  /\ UNCHANGED <<clock, radio, pump, codec, link, power, heard, used>>

(* retire_perform closes the catalog and suspends the volume.              *)
RetireVolume ==
  /\ codec.pc = "retire"
  /\ \/ /\ ~rt.faulted /\ power /\ rt' = [rt EXCEPT !.leased = FALSE] /\ To("retired")
        /\ UNCHANGED used
     \/ /\ rt.faulted \/ ~power \/ (used.faults < MaxFaults)
        /\ used' = IF rt.faulted \/ ~power THEN used ELSE [used EXCEPT !.faults = @ + 1]
        /\ codec' = [codec EXCEPT !.pc = "retired", !.rc = "failed"] /\ UNCHANGED rt
  /\ UNCHANGED <<b, clock, hook, radio, pump, link, power, heard>>

(* recording_ble_retired refuses a session that is not at rest.            *)
Retirable(s) == s.active /\ s.epoch = codec.epoch /\ s.retiring /\ ~s.pending /\ s.actors = 0

Retired ==
  /\ codec.pc = "retired"
  /\ IF ~Retirable(b) THEN UNCHANGED b /\ codec' = [codec EXCEPT !.pc = "done", !.rc = "contradicted"]
     ELSE IF codec.rc = "failed" THEN b' = [b EXCEPT !.fault = TRUE] /\ To("done")
     ELSE b' = Clear(b) /\ To("unlatch")
  /\ UNCHANGED <<clock, rt, hook, radio, pump, link, power, heard, used>>

(* retire_pending is cleared before catalog_epoch, and both before busy.   *)
Unlatch ==
  /\ codec.pc \in {"unlatch", "forget"}
  /\ IF codec.pc = "unlatch" THEN rt' = [rt EXCEPT !.retire = 0] /\ To("forget")
     ELSE rt' = [rt EXCEPT !.epoch = 0] /\ To("done")
  /\ UNCHANGED <<b, clock, hook, radio, pump, link, power, heard, used>>

Codec == \/ Poll \/ schedule_retirement \/ Take \/ Perform \/ Complete \/ Stage
         \/ ScheduleStaged \/ LeaveCodec \/ Done \/ RetireVolume \/ Retired \/ Unlatch

-----------------------------------------------------------------------------
(* The world: the link, the clock, power, and the other owners of busy.    *)

Connect ==
  /\ ~link.up /\ link.conn < MaxConns
  /\ link' = [conn |-> link.conn + 1, up |-> TRUE, sub |-> TRUE]
  /\ UNCHANGED <<b, clock, rt, hook, radio, pump, codec, power, heard, used>>

(* recording_ble_disconnected, after a disconnection or a cleared CCC.     *)
Cancelled(s) == IF s.active /\ s.conn = link.conn THEN [s EXCEPT !.revoked = TRUE] ELSE s

Disconnect ==
  /\ link.up /\ link' \in {[link EXCEPT !.up = FALSE, !.sub = FALSE], [link EXCEPT !.sub = FALSE]}
  /\ link' # link
  /\ b' = Kick(Cancelled(b)) /\ hook' = HookAfterKick(Cancelled(b))
  /\ UNCHANGED <<clock, rt, radio, pump, codec, power, heard, used>>

(* A deadline can only pass while the session it belongs to is open.       *)
Tick ==
  /\ b.active
  /\ clock' = CASE clock = "fresh" -> "request" [] OTHER -> "session"
  /\ clock # "session"
  /\ UNCHANGED <<b, rt, hook, radio, pump, codec, link, power, heard, used>>

PowerLost ==
  /\ power /\ used.faults < MaxFaults /\ power' = FALSE
  /\ used' = [used EXCEPT !.faults = @ + 1]
  /\ UNCHANGED <<b, clock, rt, hook, radio, pump, codec, link, heard>>

(* queue(): any other command of the runtime claims busy; with a catalog   *)
(* open it finds so only then, and lets go of it again.                    *)
OtherClaims ==
  /\ rt.busy = "no" /\ rt' = [rt EXCEPT !.busy = "other"]
  /\ \/ rt.epoch = 0 /\ UNCHANGED used
     \/ rt.epoch # 0 /\ used.faults < MaxFaults /\ used' = [used EXCEPT !.faults = @ + 1]
  /\ UNCHANGED <<b, clock, hook, radio, pump, codec, link, power, heard>>

OtherReleases ==
  /\ rt.busy = "other" /\ rt' = [rt EXCEPT !.busy = "no"]
  /\ UNCHANGED <<b, clock, hook, radio, pump, codec, link, power, heard, used>>

Next ==
  \/ \E r \in Requests : Write(r)
  \/ Radio \/ Pump \/ Codec \/ RetireHook
  \/ Connect \/ Disconnect \/ Tick \/ PowerLost \/ OtherClaims \/ OtherReleases

Spec == Init /\ [][Next]_vars

(* The three threads run, a hook call returns, time passes, and another    *)
(* owner of the runtime ends its command.                                  *)
Fairness == /\ WF_vars(Radio) /\ WF_vars(Pump) /\ WF_vars(Codec) /\ WF_vars(RetireHook)
            /\ WF_vars(Tick) /\ WF_vars(OtherReleases)
FairSpec == Spec /\ Fairness

-----------------------------------------------------------------------------
(* Every variable keeps its type; at most the three threads act at once.   *)
TypeOK ==
  /\ b.actors \in 0..3 /\ b.conn \in 0..MaxConns /\ b.nonce \in 0..MaxNonces
  /\ b.seq \in 0..MaxSeq /\ b.sent \in 0..1
  /\ b.req \in Requests \cup {NoReq} /\ b.response.part \in 0..2
  /\ clock \in {"fresh", "request", "session"}
  /\ rt.busy \in {"no", "sync", "retire", "other"} /\ rt.msg \in Requests \cup {NoReq}
  /\ radio.pc \in {"idle", "permit", "commit", "claim", "enqueue", "after", "schedule", "leave"}
  /\ pump.pc \in {"idle", "check", "notify", "retry", "end", "leave"}
  /\ codec.rc \in {"ok", "refused", "failed", "contradicted"}

(* Whatever the order of the three threads, the broker finds no            *)
(* contradiction: the completion of a request that did not fail and the    *)
(* retirement of a session are never refused, no actor is missing when one *)
(* leaves, a scheduled delivery finds its answer, and the broker faults    *)
(* only after the runtime has (recording_ble.c: the RB_REFUSED returns and *)
(* the faults of leave, complete, delivery_work_handler and kick).         *)
BrokerSound ==
  /\ TypeOK /\ codec.rc # "contradicted"
  /\ b.fault => rt.faulted \/ codec.rc = "failed"

(* A frame is notified only to the connection that asked for it, the       *)
(* frames of an answer in order and each once; and a session that goes on  *)
(* after a request has had the whole answer handed to the stack, in spite  *)
(* of the checks made without the lock (deliver, durable_notify,           *)
(* stream_sent).                                                           *)
AnsweredInFull ==
  /\ \A i \in DOMAIN heard :
       /\ heard[i].to = heard[i].frame.req.by
       /\ heard[i].frame.part = i /\ heard[i].frame.req = heard[1].frame.req
       /\ b.pending => heard[i].frame.req = b.req
  /\ (b.active /\ ~b.revoked /\ b.ever /\ ~b.pending) =>
       heard # <<>> /\ Len(heard) = Parts(heard[1].frame.req.cmd)

(* A revoked session ends: its connection is let go of and its catalog     *)
(* retired, or the device is reset, whichever thread was where; only the   *)
(* runtime's own fault, which takes a reset, keeps it (kick, the retire    *)
(* latch, schedule_retirement).                                            *)
SessionRetires == (b.active /\ b.revoked) ~> (~b.active \/ rt.faulted)
=============================================================================
