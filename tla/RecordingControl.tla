--------------------------- MODULE RecordingControl ---------------------------
(***************************************************************************)
(* Who may start and stop a recording: the coordinator                     *)
(* (recording_control.c), the Bluetooth broker that feeds it               *)
(* (recording_control_ble.c), the codec thread that runs the operations    *)
(* and publishes their states (recording_control_worker.c,                 *)
(* recording_long_runtime.inc, recording_runtime.c) and the maintenance    *)
(* owners that must find the recorder idle.  The portable, standalone      *)
(* build (LC_PROFILE_FLAGS = LC_PORTABLE).                                 *)
(*                                                                         *)
(* A step is one section under the coordinator's gate or the interrupt     *)
(* lock, or one access to a shared atomic.  Nobody waits for the gate: who *)
(* finds it taken gives up, so holding it is a state of its own.  A ticket *)
(* is its number; a local one is also its operation, above LocalBase.  An  *)
(* operation's state keeps its phase, its reason and whether the session   *)
(* exists; frame counts are Recorder's subject.                            *)
(***************************************************************************)
EXTENDS Integers, Sequences, FiniteSets

CONSTANTS
  Ops,          \* operation identities the phone may choose
  Conns,        \* connection objects of the Bluetooth stack
  Events,       \* what may end a recording by itself
  LocalBase,    \* LRC_LOCAL_TICKET
  MaxTickets,   \* LRC_OPERATIONS
  MaxRequests,  \* bound: requests the phone sends
  MaxTaps,      \* bound: gestures on the button
  MaxMaint,     \* bound: maintenance claims
  MaxTries      \* bound: 32 attempts of lcw_start and long_terminal_publish

ASSUME OpsAssumption ==
  /\ LocalBase \in Nat /\ MaxTickets \in Nat
  /\ Ops \subseteq 1..LocalBase /\ MaxTickets <= LocalBase
ASSUME ConnsAssumption == {"none", "off"} \cap Conns = {}
ASSUME EventsAssumption == Events \subseteq {"FULL", "LOW_POWER", "OVERFLOW"}
ASSUME BoundsAssumption ==
  MaxRequests \in Nat /\ MaxTaps \in Nat /\ MaxMaint \in Nat /\ MaxTries \in Nat

VARIABLES
  link,   \* the connection that is up; "off" while the device resets
  gate,   \* who holds the coordinator's gate
  lrc,    \* the coordinator, its atomics included
  ble,    \* the broker
  work,   \* control_work on the system work queue
  btn,    \* lrc_button_sample on the main thread
  cod,    \* the codec thread
  rt,     \* the runtime's exclusion: command_busy, its queue, its fault
  maint,  \* a preferences or pairing claim
  count,  \* requests, gestures and claims so far
  ran,    \* history: the operations the codec thread was given
  last    \* history: the last reply sent

vars == <<link, gate, lrc, ble, work, btn, cod, rt, maint, count, ran, last>>
quiet == <<link, maint, count, ran, last>>  \* what most steps leave alone

Nobody == "nobody"
NoConn == "none"
NoOp == 0
Local(op) == op > LocalBase
Active(s) == s.phase \in {"STARTING", "RUNNING", "STOPPING", "DRAINING"}
Terminal(s) == s.phase \in {"STOPPED", "NO_CAPACITY", "CANCELLED", "FAULT"}
Rank == [IDLE |-> 0, STARTING |-> 1, RUNNING |-> 2, STOPPING |-> 3,
         DRAINING |-> 4, STOPPED |-> 5, NO_CAPACITY |-> 6, CANCELLED |-> 7,
         FAULT |-> 8]

State(op, phase, reason, created) ==
  [op |-> op, phase |-> phase, reason |-> reason, created |-> created]
IdleState == State(NoOp, "IDLE", "NONE", FALSE)
NoRequest == [cmd |-> "NONE", op |-> NoOp, seq |-> 0]
NoReply == [cmd |-> "NONE", state |-> IdleState]
NoWork == [pc |-> "idle", to |-> "idle", rc |-> "OK", epoch |-> 0,
           ticket |-> 0, ok |-> FALSE, req |-> NoRequest, state |-> IdleState]
NoSample == [pc |-> "idle", to |-> "idle", ticket |-> 0, ok |-> FALSE]
NoJob == [pc |-> "idle", to |-> "idle", ticket |-> 0, tries |-> 0,
          kind |-> "loop", worker |-> IdleState]

(* lrc_init, lrc_set_standalone(1) and the broker's first state.           *)
Lrc0 == [conn |-> 0, last |-> 0, seq |-> 0, states |-> << >>, current |-> 0,
         armed |-> 0, late |-> FALSE, tapping |-> FALSE, press |-> 0,
         fresh |-> FALSE, local |-> IdleState, lticket |-> 0,
         fault |-> FALSE, submitting |-> FALSE, stop |-> {}]
Ble0 == [conn |-> NoConn, epoch |-> 0, revoked |-> FALSE, pending |-> FALSE,
         executed |-> FALSE, late |-> FALSE, request |-> NoRequest]
Rt0 == [busy |-> "no", msg |-> 0, faulted |-> FALSE]
Count0 == [requests |-> 0, taps |-> 0, claims |-> 0]

(* Of the bounded inputs, spent have been used up before.                  *)
InitAfter(spent) ==
  /\ link = NoConn /\ gate = Nobody /\ lrc = Lrc0
  /\ ble = Ble0 /\ work = NoWork /\ btn = NoSample
  /\ cod = NoJob /\ rt = Rt0 /\ maint = "idle" /\ count = spent
  /\ ran = << >> /\ last = NoReply
Init == InitAfter(Count0)

-----------------------------------------------------------------------------
(* lc_validate_state and lc_same_operation_progress, on what is kept of a  *)
(* state.                                                                  *)
Clean == {"USER", "FULL", "LOW_POWER"}
Valid(s) ==
  CASE s.phase = "IDLE" -> s = IdleState
    [] s.phase = "FAULT" -> s.reason # "NONE"
    [] s.phase = "NO_CAPACITY" -> s.reason = "FULL" /\ ~s.created
    [] s.phase = "CANCELLED" -> s.reason = "USER" /\ ~s.created
    [] s.phase = "STARTING" -> s.reason = "NONE"
    [] s.phase = "RUNNING" -> s.created /\ s.reason = "NONE"
    [] s.phase = "STOPPING" /\ ~s.created -> s.reason = "USER"
    [] OTHER -> s.created /\ s.reason \in Clean

Progress(a, b) ==
  /\ Valid(a) /\ Valid(b) /\ a.op # NoOp /\ a.op = b.op
  /\ Rank[a.phase] <= Rank[b.phase]
  /\ a.reason # "NONE" /\ b.phase # "FAULT" => a.reason = b.reason
  /\ a.created => b.created
  /\ b.phase = "NO_CAPACITY" => a.phase \in {"STARTING", "NO_CAPACITY"}
  /\ b.phase = "CANCELLED" => ~a.created
  /\ Terminal(a) => a = b

(* selected: whether a state answers a request.                            *)
Answers(r, s, stopping) ==
  /\ Valid(s) /\ (r.op # NoOp => s.op = r.op)
  /\ r.cmd \in {"START", "ARM", "STOP"} => s.phase # "IDLE"
  /\ r.cmd = "STOP" => stopping \/ s.phase \notin {"STARTING", "RUNNING"}

-----------------------------------------------------------------------------
(* state_at, find_operation, stop_ticket, cancel_arm.                      *)
Known(l, t) == IF Local(t) THEN t = l.lticket ELSE t \in 1..Len(l.states)
StateAt(l, t) == IF t = 0 THEN IdleState
                 ELSE IF Local(t) THEN l.local ELSE l.states[t]
Busy(l) == l.current # 0 /\ Active(StateAt(l, l.current))
Put(l, t, s) == IF Local(t) THEN [l EXCEPT !.local = s]
                ELSE [l EXCEPT !.states[t] = s]

(* Mutated: only the current operation is remembered.                      *)
TicketOfCurrent(l, op) ==
  IF op = NoOp \/ (l.current # 0 /\ StateAt(l, l.current).op = op /\ Busy(l))
  THEN l.current ELSE 0

Tickets(l, op) ==
  {t \in 1..Len(l.states) : l.states[t].op = op}
  \cup {t \in {l.lticket} : t # 0 /\ l.local.op = op}
TicketOf(l, op) == IF op = NoOp THEN l.current
                   ELSE IF Tickets(l, op) = {} THEN 0
                   ELSE CHOOSE t \in Tickets(l, op) : TRUE

Stopped(l, t) == [l EXCEPT !.stop = @ \cup {t}]
CancelArm(l) ==
  [Put(Stopped(l, l.armed), l.armed,
       State(StateAt(l, l.armed).op, "CANCELLED", "USER", FALSE))
     EXCEPT !.armed = 0, !.late = FALSE]

(* A start the runtime refused.                                            *)
FailedStart(t) == State(StateAt(lrc, t).op, "FAULT", "ADMISSION", FALSE)
RefusedStart(l, t) == Put(l, t, FailedStart(t))

(* lrc_stop_requested, which takes no gate.                                *)
(* Mutated: the latch of a local recording is not looked at.               *)
RemoteStopRequested(t) == t \in lrc.stop /\ ~Local(t)
StopRequested(t) == t \in lrc.stop

(* long_ready, long_queue: power, storage and other owners may refuse at   *)
(* any time; of the refusals that matter here none is left out.            *)
Pairing == maint \in {"pair_wait", "pair_busy", "pair_gate", "pair"}
Ready == rt.busy = "no" /\ ~rt.faulted /\ ~Pairing
MayBeReady == IF Ready THEN BOOLEAN ELSE {FALSE}
Queue(t, ok) ==
  rt' = IF ok THEN [rt EXCEPT !.busy = "command", !.msg = t] ELSE rt

(* fatal: the device resets and all of this, which is memory, is lost; the *)
(* job it died in is kept as evidence.                                     *)
Fatal ==
  /\ cod' = [cod EXCEPT !.pc = "off"] /\ btn' = [NoSample EXCEPT !.pc = "off"]
  /\ link' = "off" /\ maint' = "off" /\ gate' = Nobody /\ lrc' = Lrc0
  /\ ble' = Ble0 /\ work' = NoWork /\ rt' = Rt0 /\ ran' = << >> /\ last' = NoReply
  /\ UNCHANGED count
Up == link # "off"

-----------------------------------------------------------------------------
(* The Bluetooth thread.                                                   *)
BleOnly(l, b, c) ==
  /\ link' = l /\ ble' = b /\ count' = c
  /\ UNCHANGED <<gate, lrc, work, btn, cod, rt, maint, ran, last>>

(* The broker's reference keeps a connection object from being reused.     *)
Connect(c) == link = NoConn /\ c # ble.conn /\ BleOnly(c, ble, count)

(* recording_control_ble_disconnected                                      *)
Disconnect ==
  /\ link \in Conns
  /\ BleOnly(NoConn, [ble EXCEPT !.revoked = @ \/ ble.conn = link], count)

(* recording_control_ble_command.  A request that is refused here changes  *)
(* nothing.                                                                *)
Requested(r) ==
  BleOnly(link, [ble EXCEPT !.conn = link, !.request = r, !.pending = TRUE,
                            !.executed = FALSE, !.late = FALSE,
                            !.epoch = IF ble.conn = NoConn THEN @ + 1 ELSE @],
          [count EXCEPT !.requests = @ + 1])
(* Mutated: a request is taken while the last one is being worked on.      *)
RequestAnytime(r) ==
  /\ link \in Conns /\ count.requests < MaxRequests /\ ~rt.faulted
  /\ ~ble.revoked /\ ble.conn \in {NoConn, link} /\ Requested(r)
Request(r) ==
  /\ link \in Conns /\ count.requests < MaxRequests /\ ~rt.faulted
  /\ ~ble.revoked /\ ble.conn \in {NoConn, link}
  /\ ~ble.pending /\ work.pc = "idle" /\ Requested(r)

(* The four seconds of a request, and the two minutes of an arming, pass.  *)
Expire ==
  /\ \/ ble.pending /\ ~ble.late /\ ble' = [ble EXCEPT !.late = TRUE]
        /\ UNCHANGED lrc
     \/ lrc.armed # 0 /\ ~lrc.late /\ lrc' = [lrc EXCEPT !.late = TRUE]
        /\ UNCHANGED ble
  /\ UNCHANGED <<quiet, gate, work, btn, cod, rt>>

-----------------------------------------------------------------------------
(* recording_control_ble_poll and control_work: one pass over the pending  *)
(* request.  Polls come from the codec thread and from every callback.     *)
WorkBegin ==
  /\ ble.conn # NoConn /\ (ble.pending \/ ble.revoked) /\ work.pc = "idle"
  /\ LET revoked == ble.revoked \/ (ble.pending /\ ble.late) IN
       /\ ble' = [ble EXCEPT !.revoked = revoked]
       /\ work' = [NoWork EXCEPT
                     !.epoch = ble.epoch,
                     !.pc = IF revoked \/ ~ble.pending THEN "close"
                            ELSE IF ble.executed THEN "again" ELSE "command"]
  /\ UNCHANGED <<quiet, gate, lrc, btn, cod, rt>>

(* recording_control_ble_authorized                                        *)
Authorized == /\ ble.epoch = work.epoch /\ ~ble.revoked /\ link = ble.conn
              /\ ~(ble.pending /\ ble.late)

(* What control_work makes of a result: only DEFERRED is tried again.      *)
Returns(rc) ==
  /\ ble' = [ble EXCEPT !.executed = @ \/ rc # "DEFERRED",
                        !.revoked = @ \/ rc \in {"REFUSED", "FAULT"}]
  /\ work' = IF rc = "OK" THEN [work EXCEPT !.pc = "allow", !.ok = FALSE]
             ELSE [NoWork EXCEPT !.pc = "close", !.epoch = work.epoch]
Leaves(x, to) == [x EXCEPT !.pc = "leave", !.to = to]
LeavesWith(rc) == [Leaves(work, "answered") EXCEPT !.rc = rc]

(* lrc_command, before the gate: authority and readiness are read here.    *)
Command ==
  /\ work.pc = "command"
  /\ IF ~Authorized THEN Returns("REFUSED")
     ELSE /\ UNCHANGED ble
          /\ \E ok \in MayBeReady :
               work' = [work EXCEPT !.pc = "admit", !.ok = ok]
  /\ UNCHANGED <<quiet, gate, lrc, btn, cod, rt>>

Starts(r) == r.cmd \in {"START", "ARM"}
MayClaim(e) == IF lrc.conn = 0 THEN e > lrc.last ELSE lrc.conn = e
Claimed(e) == IF lrc.conn = 0
              THEN [lrc EXCEPT !.conn = e, !.last = e, !.seq = 0] ELSE lrc
MayStart(l, r) ==
  /\ work.ok /\ ~Local(r.op) /\ Len(l.states) < MaxTickets /\ ~Busy(l)
  /\ r.cmd = "ARM" => ~l.tapping

(* The new ticket; ARM waits for a tap, START is queued at once.           *)
Begun(l, r) ==
  LET t == Len(l.states) + 1
  IN [l EXCEPT !.states = Append(@, State(r.op, "STARTING", "NONE", FALSE)),
               !.current = t, !.late = FALSE,
               !.armed = IF r.cmd = "ARM" THEN t ELSE @,
               !.submitting = r.cmd = "START"]
Stopping(l, t) ==
  IF l.armed = t THEN CancelArm(l)
  ELSE IF Active(StateAt(l, t)) THEN Stopped(l, t) ELSE l

(* lrc_command, under the gate: the sequence is spent by every request     *)
(* that gets this far, also by a refused one.                              *)
Admission(r) ==
  LET c == Claimed(work.epoch)
      l == [c EXCEPT !.seq = r.seq]
      t == TicketOf(l, r.op)
      new == Starts(r) /\ t = 0
      begun == Begun(l, r)
  IN IF lrc.fault \/ lrc.submitting \/ ~MayClaim(work.epoch)
     THEN lrc' = lrc /\ work' = LeavesWith("REFUSED")
     ELSE IF r.seq <= c.seq
     THEN lrc' = c /\ work' = LeavesWith("REFUSED")
     ELSE IF \/ Starts(r) /\ Local(r.op)
             \/ new /\ ~MayStart(l, r)
             \/ ~new /\ t = 0 /\ r.op # NoOp
     THEN lrc' = l /\ work' = LeavesWith("REFUSED")
     ELSE /\ lrc' = IF new THEN begun
                    ELSE IF r.cmd = "STOP" /\ t # 0 THEN Stopping(l, t) ELSE l
          /\ work' = [Leaves(work, IF new /\ begun.submitting THEN "queue"
                                   ELSE "reply")
                        EXCEPT !.ticket = IF new THEN begun.current ELSE t]

Admit ==
  /\ work.pc = "admit"
  /\ IF gate # Nobody THEN Returns("DEFERRED") /\ UNCHANGED <<gate, lrc>>
     ELSE gate' = "work" /\ Admission(ble.request) /\ UNCHANGED ble
  /\ UNCHANGED <<quiet, btn, cod, rt>>

WorkLeaves ==
  /\ work.pc = "leave" /\ gate' = Nobody
  /\ IF work.to = "answered" THEN Returns(work.rc)
     ELSE /\ work' = [work EXCEPT !.pc = work.to, !.ok = FALSE]
          /\ UNCHANGED ble
  /\ UNCHANGED <<quiet, lrc, btn, cod, rt>>

WorkQueue ==
  /\ work.pc = "queue"
  /\ \E ok \in MayBeReady : /\ Queue(work.ticket, ok)
                            /\ work' = [work EXCEPT !.pc = "queued", !.ok = ok]
  /\ UNCHANGED <<quiet, gate, lrc, ble, btn, cod>>

(* Back from the queue: a refused start is marked failed, if the gate is   *)
(* free; a collision then fences the coordinator.                          *)
WorkQueued ==
  /\ work.pc = "queued"
  /\ LET s == StateAt(lrc, work.ticket)
         broken == ~work.ok /\ (s.phase # "STARTING" \/ s.created)
         l == [lrc EXCEPT !.submitting = FALSE]
     IN IF gate # Nobody
        THEN /\ lrc' = [l EXCEPT !.fault = @ \/ ~work.ok] /\ UNCHANGED gate
             /\ Returns(IF work.ok THEN "BUSY" ELSE "FAULT")
        ELSE /\ gate' = "work" /\ UNCHANGED ble
             /\ lrc' = IF broken THEN [l EXCEPT !.fault = TRUE]
                       ELSE IF work.ok THEN l ELSE RefusedStart(l, work.ticket)
             /\ work' = IF broken THEN LeavesWith("FAULT")
                        ELSE Leaves(work, "reply")
  /\ UNCHANGED <<quiet, btn, cod, rt>>

(* The answer, under the gate: the end of lrc_command, and                 *)
(* lrc_pending_reply, with which later passes only read.                   *)
StillMine ==
  ~lrc.fault /\ lrc.conn = work.epoch /\ lrc.seq = ble.request.seq
Answer(t) ==
  LET s == StateAt(lrc, t) IN
  [LeavesWith(IF Answers(ble.request, s, StopRequested(t)) THEN "OK"
              ELSE "PENDING") EXCEPT !.req = ble.request, !.state = s]

Reply ==
  /\ work.pc = "reply"
  /\ IF gate # Nobody THEN Returns("BUSY") /\ UNCHANGED gate
     ELSE /\ gate' = "work" /\ UNCHANGED ble
          /\ work' = IF /\ StillMine
                        /\ work.ticket # 0 => Known(lrc, work.ticket)
                     THEN Answer(work.ticket) ELSE LeavesWith("REFUSED")
  /\ UNCHANGED <<quiet, lrc, btn, cod, rt>>

Again ==
  /\ work.pc = "again"
  /\ LET t == TicketOf(lrc, ble.request.op) IN
     IF ~Authorized THEN Returns("REFUSED") /\ UNCHANGED gate
     ELSE IF gate # Nobody THEN Returns("BUSY") /\ UNCHANGED gate
     ELSE /\ gate' = "work" /\ UNCHANGED ble
          /\ work' = IF ~StillMine THEN LeavesWith("REFUSED")
                     ELSE IF lrc.submitting THEN LeavesWith("BUSY")
                     ELSE IF t = 0 /\ ble.request.op # NoOp
                     THEN LeavesWith("REFUSED") ELSE Answer(t)
  /\ UNCHANGED <<quiet, lrc, btn, cod, rt>>

(* recording_control_ble_reply_allowed and lrc_reply_allowed.              *)
Allowed == ble.pending /\ ble.executed /\ Authorized

Allow ==
  /\ work.pc = "allow"
  /\ IF ~Allowed \/ gate # Nobody
     THEN /\ work' = [NoWork EXCEPT !.pc = "close", !.epoch = work.epoch]
          /\ UNCHANGED gate
     ELSE /\ gate' = "work"
          /\ work' = Leaves(work, IF StillMine THEN "notify" ELSE "close")
  /\ UNCHANGED <<quiet, lrc, ble, btn, cod, rt>>

(* The notify hook: the same check again, then the stack takes the reply,  *)
(* has no buffer, or fails.                                                *)
Sent == /\ ble' = [ble EXCEPT !.pending = FALSE, !.request = NoRequest]
        /\ last' = [cmd |-> work.req.cmd, state |-> work.state]
Notify ==
  /\ work.pc = "notify"
  /\ work' = [NoWork EXCEPT !.pc = "close", !.epoch = work.epoch]
  /\ \/ link = ble.conn /\ Allowed /\ gate = Nobody /\ StillMine /\ Sent
     \/ link = ble.conn /\ UNCHANGED <<ble, last>>
     \/ ble' = [ble EXCEPT !.revoked = TRUE] /\ UNCHANGED last
  /\ UNCHANGED <<link, maint, count, ran, gate, lrc, btn, cod, rt>>

(* lrc_disconnected: a recording survives the loss of its peer; an epoch   *)
(* that never claimed is spent.                                            *)
(* Mutated: the stop latches go with the peer that set them.               *)
DroppedWithStops(e) == [lrc EXCEPT !.conn = 0, !.seq = 0, !.stop = {}]
Dropped(e) ==
  IF lrc.conn = e THEN [lrc EXCEPT !.conn = 0, !.seq = 0]
  ELSE [lrc EXCEPT !.last = IF e > @ THEN e ELSE @]

(* The end of a pass: a revoked connection is released when the            *)
(* coordinator has let go of it, or tried again by the next poll.          *)
Close ==
  /\ work.pc = "close"
  /\ IF ble.revoked /\ gate = Nobody
     THEN /\ gate' = "work" /\ lrc' = Dropped(work.epoch)
          /\ work' = Leaves(work, "forget")
     ELSE work' = NoWork /\ UNCHANGED <<gate, lrc>>
  /\ UNCHANGED <<quiet, ble, btn, cod, rt>>

Forget ==
  /\ work.pc = "forget" /\ work' = NoWork
  /\ ble' = [Ble0 EXCEPT !.epoch = ble.epoch]
  /\ UNCHANGED <<quiet, gate, lrc, btn, cod, rt>>

-----------------------------------------------------------------------------
(* The button, sampled by the main thread.  Of the decoder's state only    *)
(* whether a gesture is under way is kept; a bouncing contact refuses an   *)
(* ARM as a runtime that is not ready does.  Readiness is read before the  *)
(* gate is tried; only the sample that ends a gesture makes use of it.     *)
ButtonReads ==
  /\ btn.pc = "idle" /\ lrc.tapping
  /\ \E ok \in MayBeReady : btn' = [NoSample EXCEPT !.pc = "sample", !.ok = ok]
  /\ UNCHANGED <<quiet, gate, lrc, ble, work, cod, rt>>

ButtonEvents == IF lrc.tapping THEN {"NONE", "SINGLE", "OTHER", "INVALID"}
                ELSE {"NONE", "INVALID"}
                     \cup {e \in {"PRESS"} : count.taps < MaxTaps}

(* bg_sample and the bookkeeping of a press.  OTHER is five taps, or a     *)
(* gesture that comes to nothing.                                          *)
Decoded(l, e) ==
  CASE e = "PRESS" -> [l EXCEPT !.tapping = TRUE, !.press = l.current,
                                !.fresh = ~Busy(l)]
    [] e = "SINGLE" -> [l EXCEPT !.tapping = FALSE, !.press = 0,
                                 !.fresh = FALSE]
    [] e \in {"OTHER", "INVALID"} -> [l EXCEPT !.tapping = FALSE,
                                               !.fresh = FALSE]
    [] OTHER -> l

(* A single tap: begins the armed operation, stops a running one, or, if   *)
(* the recorder was idle at the press and still is, begins a local one.    *)
LocalBegun(l) ==
  LET t == IF l.lticket = 0 THEN LocalBase + 1 ELSE l.lticket + 1
  IN [l EXCEPT !.lticket = t, !.current = t, !.submitting = TRUE,
               !.local = State(t, "STARTING", "NONE", FALSE),
               !.stop = @ \ {l.lticket}]

(* Mutated: the press is forgotten, and what is current now is meant.      *)
TappedCurrent(l) ==
  LET d == Decoded(l, "SINGLE") IN
  IF Busy(l) /\ l.armed = 0 THEN Stopped(d, l.current)
  ELSE IF btn.ok /\ ~Busy(l) THEN LocalBegun(d) ELSE d
Tapped(l) ==
  LET d == Decoded(l, "SINGLE")
      held == l.press # 0 /\ l.press = l.current /\ Busy(l)
  IN IF held /\ l.armed = l.press
     THEN IF btn.ok THEN [d EXCEPT !.armed = 0, !.late = FALSE,
                                   !.submitting = TRUE]
          ELSE CancelArm(d)
     ELSE IF held THEN Stopped(d, l.press)
     ELSE IF l.press = l.current /\ l.fresh /\ btn.ok THEN LocalBegun(d) ELSE d

ButtonSample ==
  /\ btn.pc = IF lrc.tapping THEN "sample" ELSE "idle"
  /\ IF gate # Nobody THEN btn' = NoSample /\ UNCHANGED <<gate, lrc, count>>
     ELSE IF lrc.fault \/ lrc.submitting
     THEN /\ gate' = "button" /\ btn' = Leaves(btn, "idle")
          /\ UNCHANGED <<lrc, count>>
     ELSE \E e \in ButtonEvents :
            LET l == IF lrc.armed # 0 /\ (lrc.late \/ e = "INVALID")
                     THEN CancelArm(lrc) ELSE lrc
                m == IF e = "SINGLE" THEN Tapped(l) ELSE Decoded(l, e)
            IN /\ gate' = "button" /\ lrc' = m
               /\ btn' = [Leaves(btn, IF m.submitting THEN "queue" ELSE "idle")
                            EXCEPT !.ticket = IF m.submitting THEN m.current
                                              ELSE 0]
               /\ count' = IF e = "PRESS" THEN [count EXCEPT !.taps = @ + 1]
                           ELSE count
  /\ UNCHANGED <<link, maint, ran, last, ble, work, cod, rt>>

ButtonLeaves ==
  /\ btn.pc = "leave" /\ gate' = Nobody
  /\ btn' = IF btn.to = "idle" THEN NoSample ELSE [btn EXCEPT !.pc = btn.to]
  /\ UNCHANGED <<quiet, lrc, ble, work, cod, rt>>

ButtonQueue ==
  /\ btn.pc = "queue"
  /\ \E ok \in MayBeReady : /\ Queue(btn.ticket, ok)
                            /\ btn' = [btn EXCEPT !.pc = "queued", !.ok = ok]
  /\ UNCHANGED <<quiet, gate, lrc, ble, work, cod>>

ButtonQueued ==
  /\ btn.pc = "queued"
  /\ LET l == [lrc EXCEPT !.submitting = FALSE] IN
     IF gate # Nobody
     THEN /\ lrc' = [l EXCEPT !.fault = @ \/ ~btn.ok]
          /\ btn' = NoSample /\ UNCHANGED gate
     ELSE /\ gate' = "button" /\ btn' = Leaves(btn, "idle")
          /\ lrc' = IF btn.ok THEN l ELSE RefusedStart(l, btn.ticket)
  /\ UNCHANGED <<quiet, ble, work, cod, rt>>

-----------------------------------------------------------------------------
(* The codec thread: TASK_START with a control ticket.                     *)
CodecOnly(c) == cod' = c /\ UNCHANGED <<quiet, gate, lrc, ble, work, btn, rt>>

CodecTakes ==
  /\ cod.pc = "idle" /\ rt.msg # 0 /\ rt' = [rt EXCEPT !.msg = 0]
  /\ cod' = [NoJob EXCEPT !.pc = "mount", !.ticket = rt.msg]
  /\ ran' = Append(ran, StateAt(lrc, rt.msg).op)
  /\ UNCHANGED <<link, maint, count, last, gate, lrc, ble, work, btn>>

(* Publications are of three kinds: the loop's, the terminal one, and that *)
(* of a start that failed before the worker was entered.                   *)
Publishes(kind, w) ==
  [cod EXCEPT !.pc = "copy", !.kind = kind, !.worker = w, !.tries = 0]

(* mount_writable and rsb_select, or their failure; a failure that still   *)
(* holds the volume resets.                                                *)
CodecMounts ==
  /\ cod.pc = "mount"
  /\ \/ CodecOnly([cod EXCEPT !.pc = "start"])
     \/ CodecOnly(Publishes("fail", FailedStart(cod.ticket)))
     \/ Fatal

(* lcw_start: the operation must still be STARTING.  After the last        *)
(* collision the volume is suspended and the start fails.                  *)
CodecStarts ==
  /\ cod.pc = "start"
  /\ LET s == StateAt(lrc, cod.ticket) IN
     IF gate # Nobody
     THEN CodecOnly(IF cod.tries < MaxTries THEN [cod EXCEPT !.tries = @ + 1]
                    ELSE Publishes("fail", FailedStart(cod.ticket)))
     ELSE IF lrc.fault \/ ~Known(lrc, cod.ticket) \/ s.phase # "STARTING"
     THEN Fatal
     ELSE /\ gate' = "codec"
          /\ cod' = [Leaves(cod, "admit") EXCEPT !.worker = s]
          /\ UNCHANGED <<quiet, lrc, ble, work, btn, rt>>

CodecLeaves ==
  /\ cod.pc = "leave" /\ gate' = Nobody /\ cod' = [cod EXCEPT !.pc = cod.to]
  /\ UNCHANGED <<quiet, lrc, ble, work, btn, rt>>

(* rw_start_inner's three questions whether the start was stopped: before  *)
(* the capacity is known, before and after the session is created.         *)
Worker(phase, reason, created) ==
  State(cod.worker.op, phase, reason, created)
NextStart ==
  CASE StopRequested(cod.ticket) ->
         {Publishes("final", IF cod.pc = "reserved"
                             THEN Worker("STOPPED", "USER", TRUE)
                             ELSE Worker("CANCELLED", "USER", FALSE))}
    [] cod.pc = "admit" ->
         {[cod EXCEPT !.pc = "capacity"],
          Publishes("final", Worker("NO_CAPACITY", "FULL", FALSE))}
    [] cod.pc = "capacity" -> {[cod EXCEPT !.pc = "reserved"]}
    [] OTHER -> {Publishes("loop", Worker("RUNNING", "NONE", TRUE))}

CodecConsents ==
  /\ cod.pc \in {"admit", "capacity", "reserved"}
  /\ IF lrc.fault THEN Fatal ELSE \E c \in NextStart : CodecOnly(c)

(* record_loop: lcw_step, then the publication of what the worker became.  *)
(* The worker drains what it has and stops; after an overflow, or a fault  *)
(* of its own, it ends faulted and the loop resets the device.             *)
Ended(reason) == IF reason \in Clean THEN Worker("STOPPED", reason, TRUE)
                 ELSE Worker("FAULT", reason, TRUE)
Becomes(w) ==
  CodecOnly(Publishes(IF w.phase = "STOPPED" THEN "final" ELSE "loop", w))
Loop(phase) == cod.pc = "loop" /\ ~lrc.fault /\ cod.worker.phase = phase

CodecStays == \E p \in {"RUNNING", "DRAINING"} : Loop(p) /\ Becomes(cod.worker)
CodecEvent ==
  /\ Loop("RUNNING")
  /\ \/ Becomes(Ended("CORE"))
     \/ \E r \in Events :
          Becomes(Worker("DRAINING", r, TRUE)) \/ Becomes(Ended(r))
CodecStops ==
  /\ Loop("RUNNING") /\ StopRequested(cod.ticket)
  /\ Becomes(Worker("DRAINING", "USER", TRUE)) \/ Becomes(Ended("USER"))
CodecDrains ==
  /\ Loop("DRAINING")
  /\ Becomes(Ended(cod.worker.reason)) \/ Becomes(Ended("CORE"))
CodecFails ==
  cod.pc = "loop" /\ (lrc.fault \/ cod.worker.phase = "FAULT") /\ Fatal

(* The cache could not be brought up to date: the coordinator is fenced    *)
(* and the runtime refuses everything until the next boot.                 *)
GivesUp == /\ lrc' = [lrc EXCEPT !.fault = TRUE]
           /\ rt' = [rt EXCEPT !.faulted = TRUE]
           /\ cod' = [cod EXCEPT !.pc = "end"]
           /\ UNCHANGED <<quiet, gate, ble, work, btn>>
Refused == IF cod.kind = "loop" THEN Fatal ELSE GivesUp
Collides ==
  CASE cod.kind = "loop" -> CodecOnly([cod EXCEPT !.pc = "loop"])
    [] cod.kind = "final" /\ cod.tries < MaxTries ->
         CodecOnly([cod EXCEPT !.pc = "copy", !.tries = @ + 1])
    [] OTHER -> GivesUp

(* lcw_publish's and long_failure's snapshot, then lrc_publish.            *)
CodecCopies ==
  /\ cod.pc = "copy"
  /\ IF gate # Nobody THEN Collides
     ELSE IF lrc.fault \/ ~Known(lrc, cod.ticket) THEN Refused
     ELSE /\ gate' = "codec" /\ cod' = Leaves(cod, "publish")
          /\ UNCHANGED <<quiet, lrc, ble, work, btn, rt>>

CodecPublishes ==
  /\ cod.pc = "publish"
  /\ IF gate # Nobody THEN Collides
     ELSE IF \/ lrc.fault
             \/ cod.ticket # lrc.current
             \/ ~Progress(StateAt(lrc, cod.ticket), cod.worker)
     THEN Refused
     ELSE /\ gate' = "codec" /\ lrc' = Put(lrc, cod.ticket, cod.worker)
          /\ cod' = Leaves(cod, IF cod.kind = "loop" THEN "loop" ELSE "end")
          /\ UNCHANGED <<quiet, ble, work, btn, rt>>

(* The end of execute_active.                                              *)
CodecEnds ==
  /\ cod.pc = "end" /\ cod' = NoJob
  /\ rt' = [rt EXCEPT !.busy = "no", !.faulted = @ \/ cod.kind = "fail"]
  /\ UNCHANGED <<quiet, gate, lrc, ble, work, btn>>

-----------------------------------------------------------------------------
(* Maintenance: a preferences write keeps the gate; a pairing, announced   *)
(* before it claims, only passes through it.  Power, the microphone and    *)
(* other owners may refuse both.                                           *)
(* Mutated: a start between admission and its queue is overlooked.         *)
IdleUnqueued == ~lrc.fault /\ lrc.armed = 0
Idle == ~lrc.fault /\ ~lrc.submitting /\ lrc.armed = 0 /\ ~Busy(lrc)
MayOwn == gate = Nobody /\ Idle /\ ~rt.faulted

MaintStep(from, to, g, busy) ==
  /\ maint = from /\ maint' = to /\ gate' = g
  /\ rt' = [rt EXCEPT !.busy = busy]
  /\ count' = IF from = "idle" THEN [count EXCEPT !.claims = @ + 1] ELSE count
  /\ from = "idle" => count.claims < MaxMaint
  /\ UNCHANGED <<link, ran, last, lrc, ble, work, btn, cod>>

PrefsBegin == rt.busy = "no" /\ MaintStep("idle", "prefs_busy", gate, "prefs")
PrefsClaim == MayOwn /\ MaintStep("prefs_busy", "prefs", "maint", "prefs")
PrefsGiveUp == MaintStep("prefs_busy", "idle", gate, "no")
PrefsRelease == MaintStep("prefs", "prefs_free", gate, "no")
PrefsFree == MaintStep("prefs_free", "idle", Nobody, rt.busy)
PairBegin == MaintStep("idle", "pair_wait", gate, rt.busy)
PairClaim == IF rt.busy = "no" THEN MaintStep("pair_wait", "pair_busy", gate, "pair")
             ELSE MaintStep("pair_wait", "idle", gate, rt.busy)
PairCheck == MayOwn /\ MaintStep("pair_busy", "pair_gate", "maint", "pair")
PairGiveUp == MaintStep("pair_busy", "idle", gate, "no")
PairOwned == MaintStep("pair_gate", "pair", Nobody, "pair")
PairRelease == MaintStep("pair", "idle", gate, "no")

-----------------------------------------------------------------------------
(* What the phone may ask; a number may also be used twice.                *)
Requests ==
  {r \in [cmd : {"START", "ARM", "STOP", "STATUS"}, op : Ops \cup {NoOp},
          seq : {lrc.seq, lrc.seq + 1} \ {0}] :
     Starts(r) => r.op # NoOp}

Bluetooth == \/ \E c \in Conns : Connect(c)
             \/ Disconnect
             \/ \E r \in Requests : Request(r)
Work == \/ WorkBegin \/ Command \/ Admit \/ WorkLeaves \/ WorkQueue
        \/ WorkQueued \/ Reply \/ Again \/ Allow \/ Notify \/ Close \/ Forget
ButtonStarted == ButtonLeaves \/ ButtonQueue \/ ButtonQueued
Codec == \/ CodecTakes \/ CodecMounts \/ CodecStarts \/ CodecLeaves
         \/ CodecConsents \/ CodecStays \/ CodecEvent \/ CodecStops
         \/ CodecDrains \/ CodecFails \/ CodecCopies \/ CodecPublishes
         \/ CodecEnds
MaintStarted == \/ PrefsClaim \/ PrefsGiveUp \/ PrefsRelease \/ PrefsFree
                \/ PairClaim \/ PairCheck \/ PairGiveUp \/ PairOwned
                \/ PairRelease

(* After a reset everything begins again, under a new boot identity.       *)
Restart ==
  /\ ~Up /\ link' = NoConn /\ maint' = "idle" /\ btn' = NoSample /\ cod' = NoJob
  /\ UNCHANGED <<gate, lrc, ble, work, rt, count, ran, last>>

Next == \/ Bluetooth \/ Expire \/ Work \/ ButtonReads \/ ButtonSample
        \/ ButtonStarted \/ Codec \/ PrefsBegin \/ PairBegin \/ MaintStarted
        \/ Restart

Spec == Init /\ [][Next]_vars

(* Every thread is scheduled and every owner of the gate leaves it.  The   *)
(* worker obeys a stop and ends a drain: its producer gate is held for a   *)
(* few instructions, and a drain has a supervised deadline.                *)
Fairness == /\ WF_vars(Work) /\ WF_vars(Codec)
            /\ WF_vars(ButtonStarted) /\ WF_vars(MaintStarted)
            /\ SF_vars(CodecStops) /\ SF_vars(CodecDrains)
FairSpec == Spec /\ Fairness

-----------------------------------------------------------------------------
AllTickets == 0..MaxTickets \cup {LocalBase + n : n \in 1..MaxTaps}
States == [op : 0..LocalBase + MaxTaps, phase : DOMAIN Rank, created : BOOLEAN,
           reason : Clean \cup {"NONE", "ADMISSION", "OVERFLOW", "CORE"}]

(* The types of the state: who holds the gate, and that a ticket names a   *)
(* state that exists.                                                      *)
TypeOK ==
  /\ link \in Conns \cup {NoConn, "off"}
  /\ lrc.conn \in Nat /\ lrc.last \in Nat /\ lrc.seq \in 0..MaxRequests
  /\ lrc.states \in Seq(States) /\ Len(lrc.states) <= MaxTickets
  /\ lrc.local \in States /\ lrc.lticket \in AllTickets
  /\ lrc.current \in AllTickets /\ lrc.armed \in 0..Len(lrc.states)
  /\ lrc.current # 0 => Known(lrc, lrc.current)
  /\ lrc.stop \subseteq AllTickets
  /\ ble.conn \in Conns \cup {NoConn}
  /\ (gate = "work") = (work.pc = "leave")
  /\ (gate = "button") = (btn.pc = "leave")
  /\ (gate = "codec") = (cod.pc = "leave")
  /\ (gate = "maint") = (maint \in {"prefs", "prefs_free", "pair_gate"})
  /\ rt.busy \in {"no", "command", "prefs", "pair"} /\ rt.msg \in AllTickets

(* An operation reaches the recorder at most once, however often its START *)
(* is sent, deferred, retried or repeated over another connection.         *)
StartedOnce == \A i, j \in 1..Len(ran) : ran[i] = ran[j] => i = j

(* What the coordinator calls active is really in somebody's hands: armed, *)
(* about to be queued, queued, or with the codec thread; and what is       *)
(* queued is still waiting to start.  Otherwise every later START would be *)
(* refused by a recording nobody is making.                                *)
ActiveIsOwned ==
  Up /\ ~lrc.fault =>
    /\ Busy(lrc) => \/ lrc.armed = lrc.current
                    \/ lrc.submitting
                    \/ /\ rt.busy = "command"
                       /\ lrc.current \in {rt.msg, cod.ticket}
    /\ rt.msg # 0 => StateAt(lrc, rt.msg).phase = "STARTING"

(* A preferences write or a pairing owns the device alone: nothing is      *)
(* queued or recording, and during a preferences write none is being       *)
(* started either.                                                         *)
OneOwner ==
  /\ maint \in {"prefs", "pair"} => rt.msg = 0 /\ cod.pc = "idle"
  /\ maint = "prefs" => ~Busy(lrc) /\ ~lrc.submitting

(* At every step of the five threads what is recording has one owner and   *)
(* is known to the coordinator as such, in its type (lrc, command_busy,    *)
(* the preferences and pairing claims).                                    *)
DeviceOwned == TypeOK /\ ActiveIsOwned /\ OneOwner

(* What a reply told the phone stays true: the operation never falls back  *)
(* behind the reported phase, a reported end is final, and an answered     *)
(* STOP holds even if the recording was only starting.                     *)
ToldIsKept ==
  LET t == TicketOf(lrc, last.state.op)
      s == StateAt(lrc, t)
  IN last.state.op # NoOp /\ t # 0 =>
       /\ last.state = s \/ Progress(last.state, s)
       /\ last.cmd = "STOP" =>
            StopRequested(t) \/ s.phase \notin {"STARTING", "RUNNING"}

(* A reply is sent only for the request that is pending, over the          *)
(* connection that made it and while that connection is up.                *)
RepliesToAsker ==
  [][Up' /\ work.pc = "notify" /\ ble.pending /\ ~ble'.pending =>
       /\ work.req = ble.request /\ work.epoch = ble.epoch
       /\ link = ble.conn /\ ~ble.revoked]_vars

(* A tap stops the recording that was current when the button went down,   *)
(* and starts one only if nothing has begun since: it never acts on a      *)
(* recording that began while the finger was on the button.                *)
TapActsOnPress ==
  [][Up' /\ lrc.tapping /\ gate # "button" /\ gate' = "button" =>
       /\ lrc'.stop \ lrc.stop \subseteq {lrc.press, lrc.armed}
       /\ lrc'.current # lrc.current => lrc.current = lrc.press]_vars

(* A stop, once latched for the current operation, ends it.                *)
StopEnds == (lrc.current \in lrc.stop) ~> (~Busy(lrc) \/ lrc.fault \/ ~Up)

(* rp_end "seals prefix if possible" after an overflow: the device is not  *)
(* reset while the worker is still draining what was recorded.             *)
OverflowPrefixSealed ==
  ~Up => cod.worker.phase # "DRAINING" \/ cod.worker.reason # "OVERFLOW"
=============================================================================
