----------------------------- MODULE Enrollment -----------------------------
(***************************************************************************)
(* Who may use the device: the phone enrollment of ble_security.c, the     *)
(* restart and recovery commands of main.c, and the flags by which they,   *)
(* the microphone (module Microphone) and the holders of the external      *)
(* reservation keep out of each other's way.                               *)
(*                                                                         *)
(* Each of the four claims its own flag and then looks at the flags of the *)
(* others.  A step is one section under enrollment_lock or one access to   *)
(* an atomic.  The threads are the USB shell, the Bluetooth callbacks, the *)
(* system work queue, the loop of main() with the button and the settings, *)
(* the microphone worker and the codec and storage actor of the recorder.  *)
(*                                                                         *)
(* CONFIG_BT_MAX_CONN is 1: there is one connection object, so a stale     *)
(* pointer to it equals a fresh one, and only references keep it from      *)
(* being recycled for the next peer.  A pointer is the number of the       *)
(* connection it was taken from, 0 for NULL; the code's comparison of two  *)
(* pointers is SameObject.  A window's deadline is the number of the       *)
(* window (k_uptime_get() never repeats); late says that it has passed.    *)
(***************************************************************************)
EXTENDS Naturals, FiniteSets

CONSTANTS
  Peers,       \* phones that may connect
  MaxConns,    \* bound: connections
  MaxWindows,  \* bound: enrollment windows
  MaxFaults,   \* bound: injected failures
  Restarts     \* bound: restarts are asked for, or not

ASSUME PeersAssumption == "none" \notin Peers
ASSUME EnrollmentBounds == MaxConns \in Nat /\ MaxWindows \in Nat /\ MaxFaults \in Nat
                           /\ Restarts \in BOOLEAN

VARIABLES
  pc,        \* where each thread is; "idle" between two calls
  loc,       \* the locals of a thread's call
  busy,      \* mic_commands.c busy: 0, 1 microphone worker, 2 external
  recovery,  \* main.c recovery_pending
  enr,       \* ble_security.c: window_open, closing, pending, code_valid, deadline
  timer,     \* expiry_work is scheduled
  sec,       \* init_result is 0, owners, and the native bond
  link,      \* the connection object and the radio
  faults     \* injected failures so far

enrVars == <<pc, loc, busy, recovery, enr, timer, sec, link, faults>>

Threads == {"shell", "bt", "wq", "button", "mic", "codec"}
NoWindow == [open |-> FALSE, closing |-> FALSE, pending |-> 0, code |-> FALSE,
             deadline |-> 0, late |-> FALSE, n |-> 0]  \* n: windows so far
NoLocals == [held |-> FALSE, abort |-> FALSE, drop |-> FALSE, verify |-> FALSE,
             deadline |-> 0, mode |-> "none"]

Idle(t) == pc[t] = "idle"
Goto(t, s) == pc' = [pc EXCEPT ![t] = s]
Fault == faults < MaxFaults /\ faults' = faults + 1
SameObject(a, b) == a # 0 /\ b # 0

pairing_busy == enr.open \/ enr.pending # 0 \/ enr.closing

authorized == /\ sec.ok /\ sec.owners = 1 /\ ~pairing_busy
              /\ link.st = "up" /\ link.secure /\ sec.bond = link.peer

(* bt_conn_disconnect: the callback follows. *)
Dropped(l) == IF l.st = "up" THEN [l EXCEPT !.st = "dropping"] ELSE l

-----------------------------------------------------------------------------
(* Closing a window.  detach_enrollment_locked keeps closing set until the *)
(* tail outside the lock (release_enrollment) has run.                     *)

detach_enrollment_locked ==
  [enr EXCEPT !.open = FALSE, !.closing = TRUE, !.pending = 0, !.code = FALSE,
              !.deadline = 0, !.late = FALSE]

FinishRefusedAnyDeadline(expected, expired) ==
  \/ expected # 0 /\ ~SameObject(expected, enr.pending)
  \/ enr.closing
  \/ ~enr.open /\ enr.pending = 0

FinishRefused(expected, expired) ==
  \/ expected # 0 /\ ~SameObject(expected, enr.pending)
  \/ enr.closing
  \/ expired # 0 /\ (enr.deadline # expired \/ ~enr.late)
  \/ ~enr.open /\ enr.pending = 0

(* drop: the caller disconnects the peer when finish_enrollment returns.   *)
finish_enrollment(t, expected, abort, expired, drop) ==
  IF FinishRefused(expected, expired)
  THEN /\ Goto(t, "idle") /\ UNCHANGED <<loc, enr>>
       /\ link' = IF drop THEN Dropped(link) ELSE link
  ELSE /\ enr' = detach_enrollment_locked
       /\ loc' = [loc EXCEPT ![t] = [held |-> enr.pending # 0, abort |-> abort,
                                     drop |-> drop, verify |-> FALSE, deadline |-> 0,
                                     mode |-> "none"]]
       /\ Goto(t, "release") /\ UNCHANGED link

unref_leaked(held) == link.refs

unref_pending(held) == IF held THEN link.refs \ {"pending"} ELSE link.refs

release_enrollment(t) ==
  LET l == loc[t]
      cut == l.drop \/ (l.held /\ l.abort)
      freed == [link EXCEPT !.refs = unref_pending(l.held)]
  IN /\ pc[t] = "release"
     /\ timer' = FALSE
     /\ link' = IF cut THEN Dropped(freed) ELSE freed
     /\ enr' = [enr EXCEPT !.closing = FALSE]
     /\ loc' = [loc EXCEPT ![t] = NoLocals]
     /\ Goto(t, IF l.verify THEN "verify" ELSE "idle")
     /\ UNCHANGED <<busy, recovery, sec, faults>>

(* The end of a successful pairing_complete. *)
verify_owner ==
  /\ pc["bt"] = "verify" /\ Goto("bt", "idle")
  /\ link' = IF authorized THEN link ELSE Dropped(link)
  /\ UNCHANGED <<loc, busy, recovery, enr, timer, sec, faults>>

(* close_enrollment, from a callback of the connection. *)
CloseConn(abort, drop) ==
  /\ finish_enrollment("bt", link.n, abort, 0, drop)
  /\ UNCHANGED <<busy, recovery, timer, sec, faults>>

-----------------------------------------------------------------------------
(* Expiry: the deadline read under the lock is compared again when the     *)
(* window is closed, after the lock was dropped.                           *)

WindowLate == /\ enr.open /\ ~enr.late
              /\ enr' = [enr EXCEPT !.late = TRUE]
              /\ UNCHANGED <<pc, loc, busy, recovery, timer, sec, link, faults>>

ExpiryFires == /\ timer /\ enr.late /\ Idle("wq")
               /\ timer' = FALSE /\ Goto("wq", "expire")
               /\ UNCHANGED <<loc, busy, recovery, enr, sec, link, faults>>

expire_window(t) ==
  /\ pc[t] = "expire"
  /\ timer' = (timer \/ (enr.open /\ ~enr.late))
  /\ IF enr.open /\ enr.late
     THEN /\ Goto(t, "finish")
          /\ loc' = [loc EXCEPT ![t].deadline = enr.deadline]
     ELSE Goto(t, "idle") /\ UNCHANGED loc
  /\ UNCHANGED <<busy, recovery, enr, sec, link, faults>>

expire_finish(t) ==
  /\ pc[t] = "finish"
  /\ finish_enrollment(t, 0, TRUE, loc[t].deadline, FALSE)
  /\ UNCHANGED <<busy, recovery, timer, sec, faults>>

-----------------------------------------------------------------------------
(* Opening a window: the shell command, and the replacement of the owner   *)
(* by five taps.                                                           *)

WindowAllowed == ~pairing_busy /\ busy = 0 /\ ~recovery

OpenWindow(e) ==
  [e EXCEPT !.open = TRUE, !.code = FALSE, !.deadline = e.n + 1, !.n = e.n + 1,
            !.late = FALSE, !.closing = FALSE]

(* The owner is looked at before the lock is taken.                        *)
open_look ==
  /\ Idle("shell") /\ sec.ok /\ sec.owners = 0 /\ sec.bond = "none"
  /\ enr.n < MaxWindows /\ Goto("shell", "opening")
  /\ UNCHANGED <<loc, busy, recovery, enr, timer, sec, link, faults>>

command_open ==
  /\ pc["shell"] = "opening"
  /\ IF WindowAllowed /\ enr.n < MaxWindows
     THEN /\ enr' = OpenWindow(enr)
          /\ \/ timer' = TRUE /\ Goto("shell", "idle") /\ UNCHANGED faults
             \/ Fault /\ Goto("shell", "close") /\ UNCHANGED timer
     ELSE Goto("shell", "idle") /\ UNCHANGED <<enr, timer, faults>>
  /\ UNCHANGED <<loc, busy, recovery, sec, link>>

command_close ==
  /\ Idle("shell") \/ pc["shell"] = "close"
  /\ finish_enrollment("shell", 0, TRUE, 0, FALSE)
  /\ UNCHANGED <<busy, recovery, timer, sec, faults>>

command_status == /\ Idle("shell") /\ enr.open /\ Goto("shell", "expire")
                  /\ UNCHANGED <<loc, busy, recovery, enr, timer, sec, link, faults>>

(* replace_local: closing is published before the recorder is claimed.     *)
replace_begin ==
  /\ Idle("button") /\ sec.ok /\ enr.n < MaxWindows
  /\ WindowAllowed
  /\ enr' = [enr EXCEPT !.closing = TRUE]
  /\ Goto("button", "claim")
  /\ UNCHANGED <<loc, busy, recovery, timer, sec, link, faults>>

(* recording_runtime_pairing_claim and _ready may refuse. *)
replace_claim ==
  /\ pc["button"] = "claim"
  /\ \/ Goto("button", "unpair") /\ UNCHANGED enr
     \/ Goto("button", "idle") /\ enr' = [enr EXCEPT !.closing = FALSE]
  /\ UNCHANGED <<loc, busy, recovery, timer, sec, link, faults>>

(* bt_unpair disconnects the peer and deletes the bond; the deletion is    *)
(* verified in RAM and in the settings, and one of the two may fail.       *)
replace_unpair ==
  /\ pc["button"] = "unpair"
  /\ \/ /\ Goto("button", "open") /\ UNCHANGED faults
        /\ sec' = [sec EXCEPT !.bond = "none"]
     \/ /\ Fault /\ Goto("button", "failed")
        /\ \E b \in {sec.bond, "none"} : sec' = [sec EXCEPT !.bond = b]
  /\ link' = Dropped(link)
  /\ UNCHANGED <<loc, busy, recovery, enr, timer>>

replace_open ==
  /\ pc["button"] \in {"open", "failed"} /\ Goto("button", "idle")
  /\ \/ /\ pc["button"] = "open"
        /\ enr' = OpenWindow(enr) /\ timer' = TRUE
        /\ sec' = [sec EXCEPT !.owners = 0] /\ UNCHANGED faults
     \/ /\ enr' = [enr EXCEPT !.closing = FALSE]
        /\ IF pc["button"] = "open"       \* the expiry could not be scheduled
           THEN Fault /\ sec' = [sec EXCEPT !.ok = FALSE, !.owners = 0]
           ELSE UNCHANGED faults /\ sec' = [sec EXCEPT !.ok = FALSE]
        /\ UNCHANGED timer
  /\ UNCHANGED <<loc, busy, recovery, link>>

-----------------------------------------------------------------------------
(* The connection and its callbacks, all on the Bluetooth thread.          *)

(* connected: an unknown peer becomes the pending one of an open window.   *)
connected(p) ==
  LET n == link.n + 1
      known == sec.owners = 1 /\ sec.bond = p
      allow == /\ sec.owners = 0 /\ enr.open /\ ~enr.closing /\ enr.pending = 0
               /\ ~enr.late /\ busy = 0 /\ ~recovery
      up == [link EXCEPT !.st = "up", !.n = n, !.peer = p]
  IN /\ Idle("bt") /\ link.st = "adv" /\ link.n < MaxConns
     /\ IF sec.ok /\ ~known /\ allow
        THEN /\ enr' = [enr EXCEPT !.pending = n]
             /\ link' = [up EXCEPT !.refs = @ \cup {"pending"}]
        ELSE /\ link' = IF sec.ok /\ known THEN up ELSE Dropped(up)
             /\ UNCHANGED enr
     /\ UNCHANGED <<pc, loc, busy, recovery, timer, sec, faults>>

(* bt_conn_set_security failed, or security_changed reported less than L4. *)
security_failed ==
  /\ Idle("bt") /\ link.st = "up" /\ Fault
  /\ finish_enrollment("bt", link.n, TRUE, 0, TRUE)
  /\ UNCHANGED <<busy, recovery, timer, sec>>

security_changed ==
  /\ Idle("bt") /\ link.st = "up" /\ ~link.secure
  /\ sec.bond = link.peer \/ link.smp = "shown"
  /\ link' = [link EXCEPT !.secure = TRUE]
  /\ UNCHANGED <<pc, loc, busy, recovery, enr, timer, sec, faults>>

PairingAllowed == /\ enr.open /\ ~enr.closing /\ SameObject(enr.pending, link.n)
                  /\ ~enr.late /\ busy = 0 /\ ~recovery

(* accept_pairing; a refusal is answered by the stack's pairing_failed.    *)
accept_pairing ==
  /\ Idle("bt") /\ link.st = "up" /\ link.smp = "none" /\ ~link.secure
  /\ IF sec.ok /\ sec.owners = 0 /\ sec.bond = "none" /\ PairingAllowed
     THEN link' = [link EXCEPT !.smp = "accepted"] /\ UNCHANGED <<pc, loc, enr>>
     ELSE finish_enrollment("bt", link.n, FALSE, 0, TRUE)
  /\ UNCHANGED <<busy, recovery, timer, sec, faults>>

show_passkey ==
  /\ Idle("bt") /\ link.st = "up" /\ link.smp = "accepted"
  /\ IF sec.ok /\ PairingAllowed
     THEN /\ enr' = [enr EXCEPT !.code = TRUE]
          /\ link' = [link EXCEPT !.smp = "shown"] /\ UNCHANGED <<pc, loc>>
     ELSE finish_enrollment("bt", link.n, TRUE, 0, TRUE)
  /\ UNCHANGED <<busy, recovery, timer, sec, faults>>

(* pairing_failed and authentication_cancelled do the same.                *)
pairing_failed ==
  /\ Idle("bt") /\ link.st = "up" /\ link.smp # "none"
  /\ CloseConn(FALSE, TRUE)

(* The stack has stored the bond when pairing_complete is called; that it  *)
(* bonded and that there is one bond is given by its configuration (prj:   *)
(* BT_BONDING_REQUIRED, BT_MAX_PAIRED 1).  Success and timeout compete for *)
(* the lock; the loser ends enrollment for good.                           *)
CompletionExpected == /\ enr.open /\ ~enr.closing /\ SameObject(enr.pending, link.n)
                      /\ enr.code /\ ~enr.late

CompletionRefusedOpen == [sec EXCEPT !.bond = link.peer]

CompletionRefused == [sec EXCEPT !.ok = FALSE, !.bond = link.peer]

pairing_complete ==
  /\ Idle("bt") /\ link.st = "up" /\ link.smp = "shown"
  /\ IF CompletionExpected
     THEN /\ sec' = [sec EXCEPT !.owners = 1, !.bond = link.peer]
          /\ enr' = detach_enrollment_locked
          /\ loc' = [loc EXCEPT !["bt"] = [NoLocals EXCEPT !.held = TRUE, !.verify = TRUE]]
          /\ Goto("bt", "release")
          /\ link' = [link EXCEPT !.smp = "none", !.secure = TRUE]
     ELSE /\ sec' = CompletionRefused
          /\ finish_enrollment("bt", link.n, FALSE, 0, TRUE)
  /\ UNCHANGED <<busy, recovery, timer, faults>>

(* The stack recycles the object when the last reference is gone; the work *)
(* item that advertises again does nothing while a restart is pending.     *)
connection_recycled ==
  /\ link.st = "down" /\ link.refs = {}
  /\ link' = [link EXCEPT !.st = "recycled", !.smp = "none", !.secure = FALSE]
  /\ UNCHANGED <<pc, loc, busy, recovery, enr, timer, sec, faults>>

restart_advertising ==
  /\ link.st = "recycled" /\ Idle("wq")
  /\ link' = [link EXCEPT !.st = IF recovery THEN "free" ELSE "adv"]
  /\ UNCHANGED <<pc, loc, busy, recovery, enr, timer, sec, faults>>

-----------------------------------------------------------------------------
(* command_restart and command_recovery.  The flag is raised between two   *)
(* looks at the others; a boot mode that cannot be verified lowers it.     *)
(* Otherwise the reset is scheduled for half a second later, in which the  *)
(* shell goes on with the flag raised (Committed).                         *)

Restarting == {"recheck_busy", "recheck_pairing", "bootmode", "abandon"}
Committed == recovery /\ pc["shell"] \notin Restarting

restart_look ==
  /\ Restarts /\ Idle("shell") /\ busy = 0 /\ ~pairing_busy /\ Goto("shell", "looked")
  /\ UNCHANGED <<loc, busy, recovery, enr, timer, sec, link, faults>>

restart_claim ==
  /\ pc["shell"] = "looked"
  /\ recovery' = TRUE /\ Goto("shell", IF recovery THEN "idle" ELSE "recheck_busy")
  /\ UNCHANGED <<loc, busy, enr, timer, sec, link, faults>>

restart_recheck ==
  /\ \/ /\ pc["shell"] = "recheck_busy"
        /\ Goto("shell", IF busy = 0 THEN "recheck_pairing" ELSE "abandon")
     \/ /\ pc["shell"] = "recheck_pairing"
        /\ Goto("shell", IF pairing_busy THEN "abandon" ELSE "bootmode")
  /\ UNCHANGED <<loc, busy, recovery, enr, timer, sec, link, faults>>

(* bootmode_set or bootmode_clear, its verification and the scheduling.    *)
restart_bootmode ==
  /\ pc["shell"] = "bootmode"
  /\ \/ Goto("shell", "idle") /\ UNCHANGED faults
     \/ Fault /\ Goto("shell", "abandon")
  /\ UNCHANGED <<loc, busy, recovery, enr, timer, sec, link>>

restart_abandon ==
  /\ pc["shell"] = "abandon" /\ Goto("shell", "idle") /\ recovery' = FALSE
  /\ UNCHANGED <<loc, busy, enr, timer, sec, link, faults>>

-----------------------------------------------------------------------------
EnrollmentNext ==
  \/ WindowLate \/ ExpiryFires
  \/ \E t \in Threads : expire_window(t) \/ expire_finish(t) \/ release_enrollment(t)
  \/ verify_owner
  \/ open_look \/ command_open \/ command_close \/ command_status
  \/ replace_begin \/ replace_claim \/ replace_unpair \/ replace_open
  \/ \E p \in Peers : connected(p)
  \/ security_failed \/ security_changed
  \/ accept_pairing \/ show_passkey \/ pairing_failed \/ pairing_complete
  \/ connection_recycled \/ restart_advertising
  \/ restart_look \/ restart_claim \/ restart_recheck \/ restart_bootmode \/ restart_abandon

Free == [st |-> "adv", n |-> 0, peer |-> CHOOSE p \in Peers : TRUE,
         secure |-> FALSE, smp |-> "none", refs |-> {}]

(* init: the bond in flash is the owner. *)
Booted(b) == [ok |-> TRUE, owners |-> IF b = "none" THEN 0 ELSE 1, bond |-> b]

EnrollmentInit ==
  /\ pc = [t \in Threads |-> "idle"] /\ loc = [t \in Threads |-> NoLocals]
  /\ busy = 0 /\ recovery = FALSE /\ enr = NoWindow /\ timer = FALSE /\ faults = 0
  /\ \E b \in Peers \cup {"none"} : sec = Booted(b)
  /\ link = Free

EnrollmentReset ==
  /\ pc' = [t \in Threads |-> "idle"] /\ loc' = [t \in Threads |-> NoLocals]
  /\ busy' = 0 /\ recovery' = FALSE /\ enr' = NoWindow /\ timer' = FALSE /\ faults' = 0
  /\ sec' = Booted(sec.bond) /\ link' = Free

-----------------------------------------------------------------------------
(* The owner in RAM and the bond in the stack say the same, or the radio   *)
(* is closed for this boot: whichever of completion, timeout, closing and  *)
(* a replacement of the owner that fails half way comes first.             *)
OwnerIsBond ==
  sec.ok /\ pc["button"] \notin {"open", "failed"} =>
    (sec.owners = 1) = (sec.bond # "none")

(* An expiry closes only the window whose minute is over: one that read    *)
(* the deadline of a window since closed leaves the next window alone.     *)
WindowLastsItsMinute ==
  [][\A t \in Threads : pc[t] = "finish" /\ pc'[t] = "release" => enr.late]_enrVars

=============================================================================
