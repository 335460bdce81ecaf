----------------------------- MODULE Microphone -----------------------------
(***************************************************************************)
(* Short clips from the microphone: the admission of mic_commands.c, the   *)
(* worker and the peripheral (mic_diagnostics.c), the expiring PCM store   *)
(* (mic_pcm_store.c) and the BLE session around it (ble_audio.c), with the *)
(* enrollment and the restart of module Enrollment.                        *)
(*                                                                         *)
(* The PCM store counts chunks.  A session's waiting deadline and the      *)
(* store's deadline are passed or not (late).  A failure of the hardware   *)
(* or the stack is injected by Fault.  A reset keeps only the bond.        *)
(***************************************************************************)
EXTENDS Enrollment

CONSTANTS
  Chunks,   \* chunks a full capture holds
  MaxJobs,  \* bound: captures (jobs other than the rail check)
  Modes     \* requests made: of POWER STATS RECORD BLE ARM_STATS ARM_RECORD EXTERNAL

ASSUME MicrophoneBounds == Chunks \in Nat \ {0} /\ MaxJobs \in Nat
ASSUME ModesAssumption ==
  Modes \subseteq {"POWER", "STATS", "RECORD", "BLE", "ARM_STATS", "ARM_RECORD", "EXTERNAL"}

VARIABLES
  cmd,     \* armed, rail_checked, requested_mode, mic_request, and EXTERNAL held
  mic,     \* mic_diagnostics.c: powered, fault_latched, clock_stopped, scrubbed
  store,   \* the PCM store, and (for) the connection it records for, 0 for USB
  aud,     \* the BLE session
  w,       \* the microphone worker's locals
  button   \* the physical button: 1 pressed

micVars == <<cmd, mic, store, aud, w, button>>
vars == <<enrVars, micVars>>

-----------------------------------------------------------------------------
(* mic_pcm_store.h: the core operations.  Every one looks at the deadline. *)

Live(s) == s.st \in {"CAPTURING", "READY"}
Wipe(s, st) == [s EXCEPT !.st = st, !.used = 0, !.left = 0, !.late = FALSE]
Scrub(s) == Wipe(s, "EMPTY")
Expire(s) == IF Live(s) /\ s.late THEN Wipe(s, "EXPIRED") ELSE s
PcmBegin(s, for) == [Wipe(s, "CAPTURING") EXCEPT !.for = for]

PcmAppend(s) ==
  LET e == Expire(s)
  IN IF e.st = "CAPTURING" /\ e.used < Chunks THEN [e EXCEPT !.used = @ + 1] ELSE e

PcmSeal(s) ==
  LET e == Expire(s)
  IN IF e.st = "CAPTURING" /\ e.used > 0 THEN [e EXCEPT !.st = "READY", !.left = e.used] ELSE e

PcmTake(s) ==
  LET e == Expire(s)
      d == [e EXCEPT !.left = @ - 1]
  IN IF e.st # "READY" THEN e
     ELSE IF d.left = 0 THEN Wipe(d, "DRAINED") ELSE d

StoreLate == /\ Live(store) /\ ~store.late
             /\ store' = [store EXCEPT !.late = TRUE]
             /\ UNCHANGED <<enrVars, cmd, mic, aud, w, button>>

(* store_expiry: the handler may have been started for an earlier begin.   *)
StoreExpiryFires == /\ Idle("wq") /\ Live(store) /\ store.late /\ Goto("wq", "pcm")
                    /\ UNCHANGED <<loc, busy, recovery, enr, timer, sec, link, faults, micVars>>

expiry_handler == /\ pc["wq"] = "pcm" /\ Goto("wq", "idle")
                  /\ store' = Expire(store)
                  /\ UNCHANGED <<loc, busy, recovery, enr, timer, sec, link, faults,
                                 cmd, mic, aud, w, button>>

-----------------------------------------------------------------------------
(* The session of ble_audio.c, under audio_lock.                           *)

Terminal(st) == st \in {"DRAINED", "EXPIRED", "CANCELLED", "ERROR"}
NoSession == [owner |-> 0, st |-> "IDLE", active |-> FALSE, cancelled |-> FALSE,
              disc |-> FALSE, late |-> FALSE, tap |-> 0]

Cancellable(a) == a.active /\ ~Terminal(a.st)
cancel_aud(a) == IF ~Cancellable(a) THEN a
                 ELSE [a EXCEPT !.cancelled = TRUE,
                                !.st = IF @ = "READY" THEN "CANCELLED" ELSE @]
cancel_store(a, s) == IF Cancellable(a) /\ a.st = "READY" THEN Scrub(s) ELSE s

(* refresh_ready_locked never looks at the store for an inactive session.  *)
refresh_aud(a, s) ==
  LET e == Expire(s)
  IN IF ~a.active \/ a.st # "READY" \/ e.st = "READY" THEN a
     ELSE [a EXCEPT !.st = IF e.st \in {"DRAINED", "EXPIRED"} THEN e.st ELSE "ERROR"]
refresh_store(a, s) ==
  LET e == Expire(s)
  IN IF ~a.active \/ a.st # "READY" THEN s
     ELSE IF e.st \in {"READY", "DRAINED"} THEN e ELSE Scrub(e)

(* ble_audio_disconnected *)
disconnected_aud(a) ==
  LET c == cancel_aud([a EXCEPT !.disc = TRUE])
  IN IF a.owner = 0 THEN a ELSE IF a.active THEN c ELSE [c EXCEPT !.owner = 0]

disconnected_refs(a) ==
  IF a.owner # 0 /\ ~a.active THEN link.refs \ {"audio"} ELSE link.refs

Unreferenced(refs) == [link EXCEPT !.refs = refs]

-----------------------------------------------------------------------------
(* Admission: the flag is claimed first, then the others' are looked at.   *)

Quiet == ~mic.powered /\ ~mic.fault /\ mic.stopped /\ mic.scrubbed

(* ble_audio_command checks the authority of the peer before it locks.     *)
audio_begin ==
  /\ Idle("bt") /\ authorized /\ w.job < MaxJobs /\ Goto("bt", "asked")
  /\ UNCHANGED <<loc, busy, recovery, enr, timer, sec, link, faults, micVars>>

(* The compare-and-swap in queue_test, command_arm, reserve_external and,  *)
(* on the Bluetooth thread, in queue_ble.  An earlier look at the recovery *)
(* flag is left out: the second, after the claim, decides.                 *)
(* The external reservation is taken by commands of the shell, by the jobs *)
(* of the recorder (acquire) and by main() to save a setting.              *)
Claimants(m) == IF m = "BLE" THEN {"bt"}
                ELSE IF m = "EXTERNAL" THEN {"shell", "codec", "button"} ELSE {"shell"}

Claim(t, m) ==
  /\ t \in Claimants(m) /\ pc[t] = IF m = "BLE" THEN "asked" ELSE "idle"
  /\ IF /\ busy = 0 /\ (m = "BLE" => ~aud.active)
        /\ m # "EXTERNAL" => w.job < MaxJobs
     THEN /\ busy' = IF m = "EXTERNAL" THEN 2 ELSE 1
          /\ loc' = [loc EXCEPT ![t].mode = m] /\ Goto(t, "claimed")
     ELSE Goto(t, "idle") /\ UNCHANGED <<busy, loc>>
  /\ UNCHANGED <<recovery, enr, timer, sec, link, faults, micVars>>

NoCheckRecovery(t) ==
  /\ pc[t] = "claimed" /\ Goto(t, "check")
  /\ UNCHANGED <<loc, busy, recovery, enr, timer, sec, link, faults, micVars>>

CheckRecovery(t) ==
  /\ pc[t] = "claimed"
  /\ IF recovery THEN busy' = 0 /\ Goto(t, "idle") ELSE UNCHANGED busy /\ Goto(t, "check")
  /\ UNCHANGED <<loc, recovery, enr, timer, sec, link, faults, micVars>>

Refused(m) ==
  \/ pairing_busy
  \/ m = "STATS" /\ cmd.armed # 1
  \/ m = "RECORD" /\ cmd.armed # 2
  \/ m \in {"ARM_STATS", "ARM_RECORD"} /\ ~cmd.rail
  \/ m = "EXTERNAL" /\ (cmd.armed # 0 \/ ~Quiet \/ store.left # 0)

Commit(t) ==
  LET m == loc[t].mode
      sampling == m \in {"POWER", "STATS", "RECORD", "BLE"}
  IN
  /\ pc[t] = "check" /\ Goto(t, "idle") /\ loc' = [loc EXCEPT ![t].mode = "none"]
  /\ IF Refused(m)
     THEN busy' = 0 /\ UNCHANGED <<cmd, aud, link>>
     ELSE /\ busy' = IF m \in {"ARM_STATS", "ARM_RECORD"} THEN 0 ELSE busy
          /\ cmd' = [armed |-> IF m = "ARM_STATS" THEN 1 ELSE IF m = "ARM_RECORD" THEN 2
                               ELSE IF sampling THEN 0 ELSE cmd.armed,
                     rail |-> cmd.rail /\ m # "POWER",
                     mode |-> IF sampling THEN m ELSE cmd.mode,
                     sem |-> cmd.sem \/ sampling,
                     held |-> cmd.held \/ m = "EXTERNAL"]
          /\ IF m = "BLE"
             THEN /\ aud' = [NoSession EXCEPT !.owner = link.n, !.st = "WAITING",
                              !.active = TRUE, !.tap = IF button = 0 THEN 1 ELSE 0]
                  /\ link' = Unreferenced(link.refs \cup {"audio"})
             ELSE UNCHANGED <<aud, link>>
  /\ UNCHANGED <<recovery, enr, timer, sec, faults, mic, store, w, button>>

command_disarm == /\ Idle("shell") /\ cmd.armed # 0 /\ cmd' = [cmd EXCEPT !.armed = 0]
                  /\ UNCHANGED <<enrVars, mic, store, aud, w, button>>

release_external == /\ cmd.held /\ cmd' = [cmd EXCEPT !.held = FALSE] /\ busy' = 0
                    /\ UNCHANGED <<pc, loc, recovery, enr, timer, sec, link, faults,
                                   mic, store, aud, w, button>>

-----------------------------------------------------------------------------
(* The worker.  w.err is the C variable err: "ok", or why it failed.       *)

Worker(s) == pc["mic"] = s
Retains == w.mode \in {"RECORD", "BLE"}
quietEnr == <<recovery, enr, timer, sec>>

MicTake ==
  /\ Worker("idle") /\ cmd.sem
  /\ cmd' = [cmd EXCEPT !.sem = FALSE]
  /\ w' = [w EXCEPT !.mode = cmd.mode, !.err = "ok",
                     !.job = IF cmd.mode = "POWER" THEN @ ELSE @ + 1]
  /\ IF cmd.mode = "BLE"
     THEN /\ Goto("mic", "tap_auth")
          /\ link' = Unreferenced(link.refs \cup {"worker"})
     ELSE Goto("mic", "prepare") /\ UNCHANGED link
  /\ UNCHANGED <<loc, busy, quietEnr, faults, mic, store, aud, button>>

(* Scrub, begin the store, light the indicator: main.c refuses the RGB     *)
(* mutex without waiting.                                                  *)
Prepare ==
  /\ Worker("prepare")
  /\ store' = IF Retains THEN PcmBegin(store, IF w.mode = "BLE" THEN aud.owner ELSE 0) ELSE Scrub(store)
  /\ \/ Goto("mic", "start") /\ UNCHANGED <<w, faults>>
     \/ Fault /\ w' = [w EXCEPT !.err = "io"] /\ Goto("mic", "after")
  /\ UNCHANGED <<loc, busy, quietEnr, link, cmd, mic, aud, button>>

(* mic_diagnostics_capture up to START, or the rail check: each call may   *)
(* fail, with the rail off, or on with the clock off or in doubt.          *)
Start ==
  /\ Worker("start")
  /\ \/ /\ Goto("mic", "running") /\ UNCHANGED <<w, faults>>
        /\ mic' = [mic EXCEPT !.powered = TRUE, !.stopped = w.mode = "POWER",
                               !.scrubbed = w.mode = "POWER"]
     \/ /\ Fault /\ w' = [w EXCEPT !.err = "io"] /\ Goto("mic", "cleanup")
        /\ \/ UNCHANGED mic
           \/ mic' = [mic EXCEPT !.powered = TRUE, !.stopped = FALSE, !.scrubbed = FALSE]
  /\ UNCHANGED <<loc, busy, quietEnr, link, cmd, store, aud, button>>

(* One block: statistics, and after the warm-up an append to the store.    *)
Block ==
  /\ Worker("running") /\ w.mode # "POWER"
  /\ LET s == IF Retains THEN PcmAppend(store) ELSE store
         lost == Retains /\ s.st # "CAPTURING"
     IN /\ Retains => store.used < Chunks \/ store.late
        /\ Retains \/ store.used = 0
        /\ store' = s
        /\ w' = [w EXCEPT !.err = IF lost THEN "timeout" ELSE @]
        /\ Goto("mic", IF lost \/ ~Retains THEN "cleanup" ELSE "running")
  /\ UNCHANGED <<loc, busy, quietEnr, link, faults, cmd, mic, aud, button>>

(* The capture deadline, a read error, or the end of the rail check.       *)
CaptureEnds ==
  /\ Worker("running") /\ Goto("mic", "cleanup")
  /\ \/ UNCHANGED <<w, faults>>
     \/ Fault /\ w' = [w EXCEPT !.err = "io"]
  /\ UNCHANGED <<loc, busy, quietEnr, link, cmd, mic, store, aud, button>>

(* stop_and_scrub: STOP, wait for the DMA buffers, disable, erase, rail    *)
(* off.  Whatever is uncertain latches the fault.                          *)
stop_and_scrub ==
  /\ Worker("cleanup") /\ Goto("mic", "after")
  /\ \/ /\ mic' = [mic EXCEPT !.powered = FALSE, !.stopped = TRUE, !.scrubbed = TRUE]
        /\ UNCHANGED <<w, faults>>
     \/ /\ Fault /\ w' = [w EXCEPT !.err = "io"]
        /\ \/ mic' = [mic EXCEPT !.powered = FALSE, !.fault = TRUE]
           \/ mic' = [mic EXCEPT !.stopped = TRUE, !.scrubbed = TRUE, !.fault = TRUE]
  /\ UNCHANGED <<loc, busy, quietEnr, link, cmd, store, aud, button>>

(* The state is read back; anything but a quiet microphone resets (Reset). *)
After ==
  /\ Worker("after") /\ ~mic.fault /\ ~mic.powered
  /\ \E dark \in {TRUE, FALSE} :   \* the indicator went off
       /\ IF dark THEN UNCHANGED faults ELSE w.err = "ok" /\ Fault
       /\ LET ok == w.err = "ok" /\ dark
              sealed == IF ok /\ Retains THEN PcmSeal(store)
                        ELSE IF ok THEN store ELSE Scrub(store)
              ready == sealed.st = "READY"
          IN /\ store' = IF Retains /\ ~ready THEN Scrub(sealed) ELSE sealed
             /\ w' = [w EXCEPT !.err = IF ~ok THEN "io"
                                       ELSE IF Retains /\ sealed.st = "EXPIRED" THEN "timeout"
                                       ELSE IF Retains /\ ~ready THEN "io" ELSE @]
             /\ cmd' = [cmd EXCEPT !.rail = @ \/ (w.mode = "POWER" /\ ok)]
             /\ Goto("mic", IF w.mode = "BLE" THEN "auth2"
                            ELSE IF ready THEN "export" ELSE "hand_back")
  /\ UNCHANGED <<loc, busy, quietEnr, link, mic, aud, button>>

(* export_pcm: one chunk is taken, then printed. *)
Export ==
  /\ Worker("export")
  /\ store' = PcmTake(store)
  /\ Goto("mic", IF PcmTake(store).st = "READY" THEN "export" ELSE "hand_back")
  /\ UNCHANGED <<loc, busy, quietEnr, link, faults, cmd, mic, aud, w, button>>

Finish ==
  /\ Worker("hand_back") /\ Goto("mic", "idle")
  /\ store' = Scrub(store) /\ busy' = 0
  /\ UNCHANGED <<loc, quietEnr, link, faults, cmd, mic, aud, w, button>>

-----------------------------------------------------------------------------
(* ble_audio_worker: authorization is read outside audio_lock, and used    *)
(* in the section under the lock that follows.                             *)

NoGate == [raw |-> 2, stable |-> 2, phase |-> 0]

(* ble_audio_tap_step at one poll; long is a press of more than a second.  *)
TapStepHeld(g, v, long) ==
  LET settled == g.raw = v /\ g.stable # v
  IN [raw |-> v, stable |-> IF settled THEN v ELSE g.stable,
      phase |-> IF settled /\ v = 1 THEN 2
                ELSE IF settled /\ g.phase = 2 THEN 3 ELSE g.phase]

TapStep(g, v, long) ==
  LET phase == IF g.phase = 2 /\ long THEN 0 ELSE g.phase
      settled == g.raw = v /\ g.stable # v
      p == IF ~settled THEN phase
           ELSE IF phase = 0 /\ v = 0 THEN 1
           ELSE IF phase = 1 /\ v = 1 THEN 2
           ELSE IF phase = 2 /\ v = 0 THEN 3 ELSE phase
      rearmed == p = 0 /\ g.raw = v /\ v = 0
  IN [raw |-> v, stable |-> IF settled THEN v ELSE g.stable,
      phase |-> IF rearmed THEN 1 ELSE p]

Stopped == aud.cancelled \/ aud.disc \/ ~w.auth

ReadAuthorized ==
  \E s \in {"tap", "lock1", "lock2", "lock3"} :
    /\ Worker(CASE s = "tap" -> "tap_auth" [] s = "lock1" -> "auth1"
              [] s = "lock2" -> "auth2" [] OTHER -> "auth3")
    /\ w' = [w EXCEPT !.auth = authorized]
    /\ Goto("mic", s)
    /\ UNCHANGED <<loc, busy, quietEnr, link, faults, cmd, mic, store, aud, button>>

WaitVerdictUntimed == IF Stopped THEN "cancel" ELSE "ok"

WaitVerdict == IF Stopped THEN "cancel" ELSE IF aud.late THEN "timeout" ELSE "ok"

wait_for_tap ==
  /\ Worker("tap")
  /\ \E long \in {TRUE, FALSE} :
       LET g == TapStep(w.gate, button, long)
           over == WaitVerdict # "ok" \/ g.phase = 3
       IN \/ /\ w' = [w EXCEPT !.gate = IF over THEN NoGate ELSE g, !.err = WaitVerdict]
             /\ Goto("mic", IF over THEN "auth1" ELSE "tap_auth") /\ UNCHANGED faults
          \/ /\ WaitVerdict = "ok" /\ Fault    \* the button cannot be read
             /\ w' = [w EXCEPT !.gate = NoGate, !.err = "io"] /\ Goto("mic", "auth1")
  /\ UNCHANGED <<loc, busy, quietEnr, link, cmd, mic, store, aud, button>>

CommitCapture ==
  /\ Worker("lock1")
  /\ LET err == IF Stopped THEN "cancel" ELSE w.err
     IN /\ w' = [w EXCEPT !.err = err]
        /\ aud' = [aud EXCEPT !.st = IF err = "ok" THEN "RECORDING" ELSE @]
        /\ Goto("mic", IF err = "ok" THEN "prepare" ELSE "auth2")
  /\ UNCHANGED <<loc, busy, quietEnr, link, faults, cmd, mic, store, button>>

OfferClip ==
  /\ Worker("lock2") /\ Goto("mic", "auth3")
  /\ LET err == IF Stopped THEN "cancel" ELSE w.err
     IN /\ w' = [w EXCEPT !.err = err]
        /\ aud' = [aud EXCEPT !.st = CASE err = "ok" -> "READY" [] err = "cancel" -> "CANCELLED"
                                       [] err = "timeout" -> "EXPIRED" [] OTHER -> "ERROR"]
        /\ store' = IF err = "ok" THEN store ELSE Scrub(store)
  /\ UNCHANGED <<loc, busy, quietEnr, link, faults, cmd, mic, button>>

(* The last loop: when the session is terminal the store is scrubbed and   *)
(* given up in the same section that clears worker_active.                 *)
ServeClip ==
  LET cut == ~w.auth \/ aud.disc
      a1 == IF cut THEN cancel_aud(aud) ELSE aud
      s1 == IF cut THEN cancel_store(aud, store) ELSE store
      a2 == refresh_aud(a1, s1)
      over == Terminal(a2.st)
      gone == over /\ aud.disc
  IN /\ Worker("lock3")
     /\ aud' = [a2 EXCEPT !.active = ~over, !.owner = IF gone THEN 0 ELSE @]
     /\ store' = IF over THEN Scrub(s1) ELSE refresh_store(a1, s1)
     /\ link' = IF gone THEN Unreferenced(link.refs \ {"audio"}) ELSE link
     /\ Goto("mic", IF over THEN "unref" ELSE "auth3")
     /\ UNCHANGED <<loc, busy, quietEnr, faults, cmd, mic, w, button>>

EndSession ==
  /\ Worker("unref") /\ Goto("mic", "idle")
  /\ link' = Unreferenced(link.refs \ {"worker"}) /\ busy' = 0
  /\ UNCHANGED <<loc, quietEnr, faults, cmd, mic, store, aud, w, button>>

-----------------------------------------------------------------------------
(* The session seen from the Bluetooth thread.                             *)

Asked == Idle("bt") /\ link.st = "up" /\ SameObject(aud.owner, link.n)

audio_status ==
  /\ Asked /\ authorized
  /\ aud' = refresh_aud(aud, store) /\ store' = refresh_store(aud, store)
  /\ UNCHANGED <<enrVars, cmd, mic, w, button>>

audio_cancel ==
  LET a == refresh_aud(aud, store)
      s == refresh_store(aud, store)
  IN /\ Asked /\ authorized
     /\ aud' = cancel_aud(a) /\ store' = cancel_store(a, s)
     /\ UNCHANGED <<enrVars, cmd, mic, w, button>>

(* The chunk is erased from the store before the reply is sent.            *)
audio_chunk ==
  LET a == refresh_aud(aud, store)
      s == refresh_store(aud, store)
      t == PcmTake(s)
  IN /\ Asked /\ authorized /\ a.st = "READY" /\ ~a.cancelled
     /\ aud' = refresh_aud(a, t) /\ store' = refresh_store(a, t)
     /\ Goto("bt", "send")
     /\ UNCHANGED <<loc, busy, quietEnr, link, faults, cmd, mic, w, button>>

(* ble_audio_disconnected: a request without authority, a reply that could *)
(* not be sent, the subscription withdrawn.                                *)
LoseConn ==
  /\ aud' = disconnected_aud(aud) /\ store' = cancel_store(aud, store)
  /\ UNCHANGED <<cmd, mic, w, button>>

audio_sent ==
  /\ pc["bt"] = "send" /\ Goto("bt", "idle")
  /\ \/ UNCHANGED <<link, faults, micVars>>
     \/ Fault /\ LoseConn /\ link' = Unreferenced(disconnected_refs(aud))
  /\ UNCHANGED <<loc, busy, quietEnr>>

audio_revoked ==
  /\ Asked /\ LoseConn /\ link' = Unreferenced(disconnected_refs(aud))
  /\ UNCHANGED <<pc, loc, busy, quietEnr, faults>>

(* disconnected, of main.c and then of ble_security.c.                     *)
disconnected ==
  /\ Idle("bt") /\ link.st \in {"up", "dropping"}
  /\ LoseConn
  /\ LET down == [link EXCEPT !.st = "down", !.refs = disconnected_refs(aud)]
     IN /\ link' = down
        /\ IF FinishRefused(link.n, 0)
           THEN UNCHANGED <<pc, loc, enr>>
           ELSE /\ enr' = detach_enrollment_locked
                /\ loc' = [loc EXCEPT !["bt"] = [NoLocals EXCEPT !.held = enr.pending # 0]]
                /\ Goto("bt", "release")
  /\ UNCHANGED <<busy, recovery, timer, sec, faults>>

WaitLate == /\ aud.st = "WAITING" /\ aud.active /\ ~aud.late
            /\ aud' = [aud EXCEPT !.late = TRUE]
            /\ UNCHANGED <<enrVars, cmd, mic, store, w, button>>

(* The button moves; only while a session waits does anyone look at it.    *)
ButtonEdge ==
  /\ aud.st = "WAITING" /\ aud.active
  /\ button' = 1 - button
  /\ aud' = [aud EXCEPT !.tap = IF (@ \in {0, 2}) = (button = 1) /\ @ < 3 THEN @ + 1 ELSE @]
  /\ UNCHANGED <<enrVars, cmd, mic, store, w>>

-----------------------------------------------------------------------------
NoCmd == [armed |-> 0, rail |-> FALSE, mode |-> "none", sem |-> FALSE, held |-> FALSE]
MicOff == [powered |-> FALSE, fault |-> FALSE, stopped |-> TRUE, scrubbed |-> TRUE]
NoClip == [st |-> "EMPTY", used |-> 0, left |-> 0, late |-> FALSE, for |-> 0]
NoJob == [mode |-> "none", err |-> "ok", auth |-> FALSE, gate |-> NoGate, job |-> 0]

Init ==
  /\ EnrollmentInit
  /\ cmd = NoCmd /\ mic = MicOff /\ store = NoClip /\ aud = NoSession /\ w = NoJob
  /\ button \in {0, 1}

(* sys_reboot: after a committed restart, or by the worker after a fault.  *)
Reset ==
  /\ \/ Committed /\ Idle("wq")
     \/ Worker("after") /\ (mic.fault \/ mic.powered)
  /\ EnrollmentReset
  /\ cmd' = NoCmd /\ mic' = MicOff /\ store' = NoClip /\ aud' = NoSession /\ w' = NoJob
  /\ UNCHANGED button

WorkerStep ==
  \/ MicTake \/ Prepare \/ Start \/ Block \/ CaptureEnds \/ stop_and_scrub
  \/ After \/ Export \/ Finish
  \/ ReadAuthorized \/ wait_for_tap \/ CommitCapture \/ OfferClip \/ ServeClip \/ EndSession

Next ==
  \/ EnrollmentNext /\ UNCHANGED micVars
  \/ StoreLate \/ StoreExpiryFires \/ expiry_handler
  \/ \E t \in Threads : (\E m \in Modes : Claim(t, m)) \/ CheckRecovery(t) \/ Commit(t)
  \/ audio_begin \/ command_disarm \/ release_external
  \/ WorkerStep
  \/ audio_status \/ audio_cancel \/ audio_chunk \/ audio_sent \/ audio_revoked
  \/ disconnected \/ WaitLate \/ ButtonEdge
  \/ Reset

Spec == Init /\ [][Next]_vars

(* What happens by itself: a call under way on a thread goes on, a clock   *)
(* reaches its deadline and its work item runs, the stack reports that a   *)
(* connection it was told to drop is gone and recycles the object.         *)
(* Nothing is assumed of people and peers: button, commands, phone.        *)
Background ==
  \/ /\ UNCHANGED micVars
     /\ \/ \E t \in {"bt", "wq"} : expire_window(t) \/ expire_finish(t) \/ release_enrollment(t)
        \/ verify_owner \/ WindowLate \/ ExpiryFires
        \/ connection_recycled \/ restart_advertising
  \/ WaitLate \/ StoreLate \/ expiry_handler \/ audio_sent \/ Reset
  \/ Claim("bt", "BLE") \/ CheckRecovery("bt") \/ Commit("bt")
  \/ disconnected /\ link.st = "dropping"

ShellStep ==
  \/ CheckRecovery("shell") \/ Commit("shell")
  \/ /\ UNCHANGED micVars
     /\ \/ expire_window("shell") \/ expire_finish("shell") \/ release_enrollment("shell")
        \/ pc["shell"] = "close" /\ command_close
        \/ command_open
        \/ restart_claim \/ restart_recheck \/ restart_bootmode \/ restart_abandon

ButtonStep == \/ (replace_claim \/ replace_unpair \/ replace_open) /\ UNCHANGED micVars
              \/ CheckRecovery("button") \/ Commit("button")

CodecStep == CheckRecovery("codec") \/ Commit("codec")

Fairness == /\ WF_vars(WorkerStep) /\ WF_vars(ShellStep) /\ WF_vars(ButtonStep)
            /\ WF_vars(CodecStep) /\ WF_vars(Background)

-----------------------------------------------------------------------------
(* Where each thread can be in its calls. *)
ShellLabels == {"idle", "close", "expire", "finish", "release", "looked", "recheck_busy",
                "recheck_pairing", "bootmode", "abandon", "opening", "claimed", "check"}
CodecLabels == {"idle", "claimed", "check"}
BtLabels == {"idle", "release", "verify", "asked", "claimed", "check", "send"}
WqLabels == {"idle", "expire", "finish", "release", "pcm"}
ButtonLabels == {"idle", "claim", "unpair", "open", "failed", "claimed", "check"}
MicLabels == {"idle", "tap_auth", "tap", "auth1", "lock1", "prepare", "start", "running",
              "cleanup", "after", "export", "hand_back", "auth2", "lock2", "auth3", "lock3",
              "unref"}

TypeOK ==
  /\ DOMAIN pc = Threads /\ DOMAIN loc = Threads
  /\ pc["shell"] \in ShellLabels /\ pc["bt"] \in BtLabels /\ pc["wq"] \in WqLabels
  /\ pc["button"] \in ButtonLabels /\ pc["mic"] \in MicLabels
  /\ pc["codec"] \in CodecLabels
  /\ busy \in 0..2 /\ recovery \in BOOLEAN /\ timer \in BOOLEAN
  /\ enr.pending \in 0..MaxConns /\ enr.deadline \in {0, enr.n} /\ enr.n \in 0..MaxWindows
  /\ sec.owners \in 0..1 /\ sec.bond \in Peers \cup {"none"}
  /\ link.refs \subseteq {"pending", "audio", "worker"} /\ link.n \in 0..MaxConns
  /\ cmd.armed \in 0..2 /\ store.left <= store.used /\ store.used <= Chunks
  /\ aud.tap \in 0..3 /\ w.job \in 0..MaxJobs /\ w.gate.phase \in 0..3

(* The one connection object is not recycled while the audio session or    *)
(* the enrollment points to it: what looks like their peer is their peer,  *)
(* whoever of stack, worker and callbacks lets go of it last               *)
(* (ble_audio_disconnected, ble_audio_worker, release_enrollment).         *)
NoDangling ==
  /\ TypeOK
  /\ aud.owner # 0 => aud.owner = link.n /\ "audio" \in link.refs
  /\ enr.pending # 0 => enr.pending = link.n /\ "pending" \in link.refs

(* The microphone worker, the holder of the external reservation, an       *)
(* enrollment and a committed restart never overlap: whatever the order in *)
(* which shell, main loop, recorder and Bluetooth thread raise their flag  *)
(* and look at the others' (queue_test, queue_ble, reserve_external,       *)
(* command_open, replace_local, command_restart), also in the half second  *)
(* before the reset.                                                       *)
Exclusive ==
  LET Holding == {h \in {"mic", "external", "pairing", "restart"} :
        CASE h = "mic" -> mic.powered \/ cmd.sem \/ ~Idle("mic")
          [] h = "external" -> cmd.held
          [] h = "pairing" -> enr.open \/ enr.pending # 0 \/ pc["button"] = "unpair"
          [] OTHER -> Committed}
  IN Cardinality(Holding) <= 1

(* Audio can be taken only when the microphone is off, its clock stopped   *)
(* and the DMA buffers erased; and over the air only if a whole tap, from  *)
(* released through pressed to released, was made within that session, and *)
(* by the peer of that session (NoDangling).                               *)
ClipsAreConsented ==
  /\ NoDangling
  /\ store.st = "READY" => Quiet
  /\ store.st \in {"CAPTURING", "READY"} /\ store.for # 0 /\ busy = 1 => aud.tap = 3

(* A microphone job ends: the device is not held for ever by a session     *)
(* whose peer is silent, gone or no longer the owner.                      *)
DeviceReleased == busy = 1 ~> busy # 1

(* Enrollment ends, and a lost connection's object comes back to the       *)
(* stack: no path leaks the window or a reference.                         *)
NothingLeaks == (enr.open ~> ~enr.open) /\ (link.st = "down" ~> link.st # "down")

=============================================================================
