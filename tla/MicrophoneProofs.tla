-------------------------- MODULE MicrophoneProofs --------------------------
(***************************************************************************)
(* The microphone worker, the holder of the external reservation, an       *)
(* enrollment and a restart keep out of each other's way, and a clip is    *)
(* offered only when the microphone is off and a tap was made: for any     *)
(* number of phones, connections, windows, captures, chunks and failures.  *)
(*                                                                         *)
(* The argument has two halves.  busy is a lock: it is not zero exactly    *)
(* while one party holds it (BusyExact), whether that party is still on    *)
(* its way through the admission, waits in the semaphore, or works.  The   *)
(* window of the enrollment and the restart are no locks: each raises its  *)
(* flag and looks at busy, as the admission takes busy and looks at their  *)
(* flags (Exclusion).  Whoever comes second sees the first: a restart that *)
(* has seen busy clear (SawIdle), and then the window closed (SawClosed),  *)
(* is seen by every request that has not looked yet, until the reset.      *)
(***************************************************************************)
EXTENDS EnrollmentProofs, FiniteSetTheorems

CommandTypes == [armed : 0..2, rail : BOOLEAN, mode : ModeNames, sem : BOOLEAN, held : BOOLEAN]
PeripheralTypes == [powered : BOOLEAN, fault : BOOLEAN, stopped : BOOLEAN, scrubbed : BOOLEAN]
StoreTypes == [st : {"EMPTY", "CAPTURING", "READY", "DRAINED", "EXPIRED"}, used : 0..Chunks,
               left : 0..Chunks, late : BOOLEAN, for : Nat]
SessionTypes == [owner : Nat, st : {"IDLE", "WAITING", "RECORDING", "READY", "DRAINED", "EXPIRED",
                                    "CANCELLED", "ERROR"},
                 active : BOOLEAN, cancelled : BOOLEAN, disc : BOOLEAN, late : BOOLEAN, tap : 0..3]
GateTypes == [raw : 0..2, stable : 0..2, phase : 0..3]
JobTypes == [mode : ModeNames, err : {"ok", "io", "timeout", "cancel"}, auth : BOOLEAN,
             gate : GateTypes, job : Nat]

(* A sealed clip has something left to take.                               *)
GoodStore(s) == s \in StoreTypes /\ s.left <= s.used /\ (s.st = "READY" => s.left > 0)

MicTypes ==
  /\ busy \in 0..2 /\ recovery \in BOOLEAN /\ timer \in BOOLEAN
  /\ cmd \in CommandTypes /\ mic \in PeripheralTypes /\ GoodStore(store)
  /\ aud \in SessionTypes /\ w \in JobTypes /\ button \in {0, 1}

(* The bounds of the model: the window of a replacement is within them.    *)
Bounded ==
  /\ link.n <= MaxConns /\ enr.n <= MaxWindows
  /\ pc["button"] \in Replacing => enr.n < MaxWindows

(* Who points to the connection has a reference to it, and it is still the *)
(* one they began with.                                                    *)
OnTheLine == {"asked", "claimed", "check"}
Connected ==
  /\ link.st \in {"adv", "recycled", "free"} => link.refs = {}
  /\ link.st \in {"up", "dropping"} => link.n > 0
  /\ pc["bt"] \in OnTheLine => link.st \in {"up", "dropping"}
  /\ aud.owner # 0 => aud.owner = link.n /\ "audio" \in link.refs
  /\ enr.pending # 0 => enr.pending = link.n /\ "pending" \in link.refs
  /\ aud.active => aud.owner # 0
  /\ cmd.sem /\ cmd.mode = "BLE" => aud.active

(* busy is held by one party: a thread in the admission, the semaphore,    *)
(* the worker or the holder of the external reservation.                   *)
Claimed == {"claimed", "check"}
Parties == {"shell", "bt", "codec", "button", "sem", "mic", "held"}
Holds(h) ==
  \/ h \in Requesters /\ pc[h] \in Claimed
  \/ h = "sem" /\ cmd.sem
  \/ h = "mic" /\ pc["mic"] # "idle"
  \/ h = "held" /\ cmd.held
(* The request of a thread is one it may make, within the bound on jobs.   *)
Asks(t) ==
  /\ loc[t].mode \in Modes /\ t \in Claimants(loc[t].mode)
  /\ loc[t].mode # "EXTERNAL" => w.job < MaxJobs
BusyExact ==
  /\ busy # 0 <=> \E h \in Parties : Holds(h)
  /\ \A g, h \in Parties : Holds(g) /\ Holds(h) => g = h
  /\ \A t \in Requesters : pc[t] \in Claimed => Asks(t)
  /\ cmd.sem => w.job < MaxJobs
  /\ w.job <= MaxJobs

(* What the flags are for.                                                 *)
Job == cmd.sem \/ pc["mic"] # "idle" \/ cmd.held
Window == enr.open \/ pc["button"] \in Replacing
(* The restart raised its flag, and has since seen busy clear, or the      *)
(* window closed as well; it is committed when it has seen both.           *)
SawIdle == recovery /\ pc["shell"] \notin {"recheck_busy", "abandon"}
SawClosed == SawIdle /\ pc["shell"] # "recheck_pairing"
Exclusion ==
  /\ Job => ~Window
  /\ pc["shell"] \in Restarting => recovery
  /\ SawIdle => ~Job /\ \A t \in Requesters : pc[t] # "check"
  /\ SawClosed => ~Window

(* Outside a capture the microphone is quiet, and nothing is ready within. *)
Peripheral ==
  /\ pc["mic"] \notin {"running", "cleanup", "after"} => Quiet
  /\ pc["mic"] \in {"running", "cleanup"} => ~mic.fault
  /\ pc["mic"] = "after" => Quiet \/ mic.fault
  /\ pc["mic"] \in {"start", "running", "cleanup", "after"} => store.st # "READY"

(* The gate is never ahead of the taps made, and a clip for a connection   *)
(* is there only after all of them.                                        *)
Tapping == {"tap", "tap_auth"}
Capturing == {"prepare", "start", "running", "cleanup", "after"}
Clip == {"start", "running", "cleanup", "after", "auth2", "lock2", "auth3", "lock3", "export"}
Aired == Tapping \cup {"auth1", "lock1", "auth2", "lock2", "auth3", "lock3"}
Tapped ==
  /\ aud.active /\ aud.tap < 3 => ((button = 1) <=> aud.tap \in {0, 2})
  /\ pc["mic"] \in Aired \cup Capturing /\ w.mode = "BLE" => aud.active
  /\ w.gate.phase <= aud.tap
  /\ pc["mic"] \notin Tapping => w.gate = NoGate
  /\ pc["mic"] \in Aired => w.mode = "BLE"
  /\ pc["mic"] \in {"auth1", "lock1"} /\ w.err = "ok" => aud.tap = 3
  /\ pc["mic"] \in Capturing /\ w.mode = "BLE" => aud.tap = 3
  /\ Live(store) => pc["mic"] \in Clip /\ Retains
  /\ pc["mic"] = "export" => store.st # "CAPTURING"
  /\ Live(store) /\ store.for # 0 => w.mode = "BLE" /\ aud.tap = 3

MicInv == MicTypes /\ Bounded /\ Connected /\ BusyExact /\ Exclusion /\ Peripheral /\ Tapped

-----------------------------------------------------------------------------
(* What the invariant says of the properties.                              *)

(* What points to the connection object keeps it, and all is typed.        *)
LEMMA InvNoDangling == ASSUME EnrollInv, MicInv PROVE NoDangling
<1>0. /\ MicTypes /\ Bounded /\ Connected /\ BusyExact /\ Exclusion /\ Peripheral /\ Tapped
      /\ EnrollmentTypes /\ OwnLabels /\ ClosingExact /\ Deadlines
  BY DEF MicInv, EnrollInv
<1>1. TypeOK
  <2>1. /\ DOMAIN pc = Threads
        /\ pc["shell"] \in ShellLabels /\ pc["bt"] \in BtLabels /\ pc["wq"] \in WqLabels
        /\ pc["button"] \in ButtonLabels /\ pc["mic"] \in MicLabels
        /\ pc["codec"] \in CodecLabels
    BY <1>0 DEF EnrollmentTypes, OwnLabels
  <2>2. DOMAIN loc = Threads
    BY <1>0 DEF EnrollmentTypes
  <2>3. link.n \in Nat /\ enr.pending \in Nat /\ enr.n \in Nat /\ sec.owners \in {0, 1}
        /\ sec.bond \in Peers \cup {"none"} /\ link.refs \subseteq {"pending", "audio", "worker"}
    BY <1>0 DEF EnrollmentTypes, LinkTypes, WindowTypes, SecTypes
  <2>4. cmd.armed \in 0..2 /\ aud.tap \in 0..3 /\ w.job \in Nat /\ w.gate.phase \in 0..3
    BY <1>0 DEF MicTypes, CommandTypes, SessionTypes, JobTypes, GateTypes
  <2>5. store.left <= store.used /\ store.used <= Chunks
    BY <1>0, MicrophoneBounds DEF MicTypes, GoodStore, StoreTypes
  <2>6. w.job \in 0..MaxJobs
    BY <1>0, <2>4, MicrophoneBounds DEF BusyExact
  <2>7. /\ enr.pending \in 0..MaxConns /\ enr.n \in 0..MaxWindows /\ link.n \in 0..MaxConns
        /\ enr.deadline \in {0, enr.n}
    BY <1>0, <2>3, EnrollmentBounds DEF Bounded, Connected, Deadlines
  <2>8. busy \in 0..2 /\ recovery \in BOOLEAN /\ timer \in BOOLEAN
    BY <1>0 DEF MicTypes
  <2>9. sec.owners \in 0..1
    BY <2>3
  <2> QED
    BY <2>1, <2>2, <2>3, <2>4, <2>5, <2>6, <2>7, <2>8, <2>9 DEF TypeOK
<1> QED
  BY <1>0, <1>1 DEF NoDangling, Connected

(* Never two of the worker, the external reservation, the pairing and the  *)
(* restart.                                                                *)
LEMMA InvExclusive == ASSUME EnrollInv, MicInv PROVE Exclusive
<1>0. BusyExact /\ Exclusion /\ Peripheral /\ ClosingExact
  BY DEF MicInv, EnrollInv
<1> DEFINE H == {h \in {"mic", "external", "pairing", "restart"} :
                   CASE h = "mic" -> mic.powered \/ cmd.sem \/ ~Idle("mic")
                     [] h = "external" -> cmd.held
                     [] h = "pairing" -> enr.open \/ enr.pending # 0 \/ pc["button"] = "unpair"
                     [] OTHER -> Committed}
<1>3. \A g, h \in H : g = h
  <2>1. mic.powered \/ cmd.sem \/ ~Idle("mic") => (cmd.sem \/ pc["mic"] # "idle")
    BY <1>0 DEF Peripheral, Quiet, Idle
  <2>2. ~((cmd.sem \/ pc["mic"] # "idle") /\ cmd.held)
    BY <1>0 DEF BusyExact, Holds, Parties
  <2>3. enr.open \/ enr.pending # 0 \/ pc["button"] = "unpair" => Window
    BY <1>0 DEF ClosingExact, Window, Replacing
  <2>4. (cmd.sem \/ pc["mic"] # "idle") \/ cmd.held => Job
    BY DEF Job
  <2>5. ~(Job /\ Window) /\ (Committed => ~Job /\ ~Window)
    BY <1>0 DEF Exclusion, SawIdle, SawClosed, Committed, Restarting
  <2> QED
    BY <2>1, <2>2, <2>3, <2>4, <2>5
<1> HIDE DEF H
<1>4. H = {} \/ \E h : H = {h}
  <2>1. CASE \E h : h \in H
    <3>1. PICK h : h \in H
      BY <2>1
    <3>2. H = {h}
      BY <1>3, <3>1
    <3> QED
      BY <3>2
  <2> QED
    BY <2>1
<1>5. Cardinality(H) <= 1
  <2>1. Cardinality({}) = 0 /\ \A h : Cardinality({h}) = 1
    BY FS_EmptySet, FS_Singleton
  <2>2. Cardinality(H) = 0 \/ Cardinality(H) = 1
    BY <1>4, <2>1, Zenon
  <2> QED
    BY <2>2
<1> QED
  BY <1>5 DEF Exclusive, H

(* Nothing is taken but from a quiet microphone, after a whole tap, and by *)
(* the peer of the session.                                                *)
LEMMA InvConsented == ASSUME EnrollInv, MicInv PROVE ClipsAreConsented
<1>0. Peripheral /\ Tapped
  BY DEF MicInv
<1>1. store.st = "READY" => Quiet
  BY <1>0 DEF Peripheral
<1>2. store.st \in {"CAPTURING", "READY"} /\ store.for # 0 => aud.tap = 3
  BY <1>0 DEF Tapped, Live
<1> QED
  BY <1>1, <1>2, InvNoDangling DEF ClipsAreConsented

-----------------------------------------------------------------------------
(* The operators on the PCM store and on the session.                      *)

(* A clip is never made by an operation that may lose it.                  *)
Shrinks(s, t) ==
  /\ GoodStore(t) /\ t.for = s.for
  /\ Live(t) => Live(s)
  /\ t.st = "READY" => s.st = "READY"
  /\ t.st = "CAPTURING" => s.st = "CAPTURING"

(* A wiped store.                                                          *)
LEMMA WipeFields ==
  ASSUME NEW r \in StoreTypes, NEW k \in {"EMPTY", "CAPTURING", "READY", "DRAINED", "EXPIRED"}
  PROVE  /\ Wipe(r, k) \in StoreTypes /\ Wipe(r, k).st = k /\ Wipe(r, k).for = r.for
         /\ Wipe(r, k).left = 0 /\ Wipe(r, k).used = 0
<1>1. 0 \in 0..Chunks
  BY MicrophoneBounds
<1>2. Wipe(r, k) \in StoreTypes
  BY <1>1 DEF Wipe, StoreTypes
<1> QED
  BY <1>2 DEF Wipe, StoreTypes

(* Everything but begin and seal shrinks the store.                        *)
LEMMA StoreShrinks ==
  ASSUME NEW s, GoodStore(s)
  PROVE  /\ Shrinks(s, s) /\ Shrinks(s, Scrub(s)) /\ Shrinks(s, Expire(s))
         /\ Shrinks(s, PcmAppend(s)) /\ Shrinks(s, PcmTake(s))
<1>0. s \in StoreTypes /\ s.left <= s.used /\ (s.st = "READY" => s.left > 0) /\ Chunks \in Nat \ {0}
  BY MicrophoneBounds DEF GoodStore
<1>1. Shrinks(s, s)
  BY DEF Shrinks
<1>z. 0 \in 0..Chunks
  BY <1>0
<1>w. ASSUME NEW r \in StoreTypes, NEW k \in {"EMPTY", "DRAINED", "EXPIRED"}
      PROVE  /\ Wipe(r, k) \in StoreTypes /\ Wipe(r, k).st = k /\ Wipe(r, k).for = r.for
             /\ Wipe(r, k).left = 0 /\ Wipe(r, k).used = 0
  BY <1>z, WipeFields
<1>2. ASSUME NEW r \in StoreTypes, NEW k \in {"EMPTY", "DRAINED", "EXPIRED"}, r.for = s.for
      PROVE  Shrinks(s, Wipe(r, k))
  BY <1>w, <1>2 DEF Shrinks, GoodStore, Live
<1>3. Shrinks(s, Scrub(s))
  BY <1>0, <1>2 DEF Scrub
<1>4. Shrinks(s, Expire(s)) /\ (Expire(s) = s \/ Expire(s).st = "EXPIRED")
  BY <1>0, <1>1, <1>2, <1>w DEF Expire
<1>5. Shrinks(s, PcmAppend(s))
  <2>1. CASE Expire(s).st = "CAPTURING" /\ Expire(s).used < Chunks
    <3>1. Expire(s) = s /\ PcmAppend(s) = [s EXCEPT !.used = @ + 1]
      BY <1>4, <2>1 DEF PcmAppend
    <3>2. s.used \in 0..Chunks /\ s.left \in 0..Chunks /\ s.used < Chunks /\ s.st = "CAPTURING"
      BY <1>0, <2>1, <3>1 DEF StoreTypes
    <3>3. s.used + 1 \in 0..Chunks /\ s.left <= s.used + 1
      BY <1>0, <3>2
    <3>4. \A k \in 0..Chunks : LET r == [s EXCEPT !.used = k]
                               IN r \in StoreTypes /\ r.used = k /\ r.left = s.left
                                  /\ r.st = s.st /\ r.for = s.for
      BY <1>0 DEF StoreTypes
    <3>5. /\ PcmAppend(s) \in StoreTypes /\ PcmAppend(s).used = s.used + 1
          /\ PcmAppend(s).left = s.left /\ PcmAppend(s).st = s.st /\ PcmAppend(s).for = s.for
      BY <3>1, <3>3, <3>4
    <3> QED
      BY <3>2, <3>3, <3>5 DEF Shrinks, GoodStore, Live
  <2>2. CASE ~(Expire(s).st = "CAPTURING" /\ Expire(s).used < Chunks)
    BY <1>4, <2>2 DEF PcmAppend
  <2> QED
    BY <2>1, <2>2
<1>6. Shrinks(s, PcmTake(s))
  <2>1. CASE Expire(s).st # "READY"
    BY <1>4, <2>1 DEF PcmTake
  <2>2. CASE Expire(s).st = "READY"
    <3> DEFINE d == [s EXCEPT !.left = @ - 1]
    <3>1. Expire(s) = s /\ PcmTake(s) = IF d.left = 0 THEN Wipe(d, "DRAINED") ELSE d
      BY <1>4, <2>2 DEF PcmTake
    <3>2. s.left \in 0..Chunks /\ s.used \in 0..Chunks /\ s.left > 0 /\ s.st = "READY"
      BY <1>0, <2>2, <3>1 DEF StoreTypes
    <3>3. s.left - 1 \in 0..Chunks /\ s.left - 1 <= s.used
      BY <1>0, <3>2
    <3>4. \A k \in 0..Chunks : LET r == [s EXCEPT !.left = k]
                               IN r \in StoreTypes /\ r.left = k /\ r.used = s.used
                                  /\ r.st = s.st /\ r.for = s.for
      BY <1>0 DEF StoreTypes
    <3>5. /\ d \in StoreTypes /\ d.left = s.left - 1 /\ d.used = s.used /\ d.st = s.st
          /\ d.for = s.for
      BY <3>3, <3>4
    <3> HIDE DEF d
    <3>6. CASE d.left = 0
      BY <1>2, <3>1, <3>5, <3>6
    <3>7. CASE d.left # 0
      <4>1. d.left > 0
        BY <3>2, <3>5, <3>7
      <4> QED
        BY <3>1, <3>2, <3>3, <3>5, <3>7, <4>1 DEF Shrinks, GoodStore, Live
    <3> QED
      BY <3>6, <3>7
  <2> QED
    BY <2>1, <2>2
<1> QED
  BY <1>1, <1>3, <1>4, <1>5, <1>6

(* Shrinking twice is shrinking.                                           *)
LEMMA ShrinksTwice ==
  ASSUME NEW r, NEW s, NEW t, Shrinks(r, s), Shrinks(s, t)
  PROVE  Shrinks(r, t)
BY DEF Shrinks

(* cancel_locked and refresh_ready_locked only take away.                  *)
LEMMA SessionShrinks ==
  ASSUME NEW a, NEW s, GoodStore(s)
  PROVE  Shrinks(s, cancel_store(a, s)) /\ Shrinks(s, refresh_store(a, s))
<1>1. Shrinks(s, s) /\ Shrinks(s, Scrub(s)) /\ Shrinks(s, Expire(s))
  BY StoreShrinks
<1>2. GoodStore(Expire(s))
  BY <1>1 DEF Shrinks
<1>3. Shrinks(s, Scrub(Expire(s)))
  BY <1>1, <1>2, StoreShrinks, ShrinksTwice
<1> QED
  BY <1>1, <1>3 DEF cancel_store, refresh_store

(* A capture begins with an empty store.                                   *)
LEMMA BeginTyped ==
  ASSUME NEW s, GoodStore(s), NEW n \in Nat
  PROVE  GoodStore(PcmBegin(s, n)) /\ PcmBegin(s, n).st = "CAPTURING" /\ PcmBegin(s, n).for = n
<1>0. s \in StoreTypes /\ Chunks \in Nat \ {0}
  BY MicrophoneBounds DEF GoodStore
<1>1. /\ Wipe(s, "CAPTURING") \in StoreTypes /\ Wipe(s, "CAPTURING").st = "CAPTURING"
      /\ Wipe(s, "CAPTURING").left = 0 /\ Wipe(s, "CAPTURING").used = 0
  BY <1>0, WipeFields
<1>2. /\ PcmBegin(s, n) \in StoreTypes /\ PcmBegin(s, n).st = "CAPTURING"
      /\ PcmBegin(s, n).left = 0 /\ PcmBegin(s, n).used = 0 /\ PcmBegin(s, n).for = n
  BY <1>1 DEF PcmBegin, StoreTypes
<1> QED
  BY <1>2 DEF GoodStore

(* Sealing keeps whose clip it is.                                         *)
LEMMA SealTyped ==
  ASSUME NEW s, GoodStore(s)
  PROVE  GoodStore(PcmSeal(s)) /\ PcmSeal(s).for = s.for /\ (Live(PcmSeal(s)) => Live(s))
<1>0. s \in StoreTypes /\ Chunks \in Nat \ {0}
  BY MicrophoneBounds DEF GoodStore
<1>1. Shrinks(s, Expire(s)) /\ (Expire(s) = s \/ Expire(s).st = "EXPIRED")
  BY <1>0, StoreShrinks DEF Expire, Wipe, StoreTypes
<1>2. CASE Expire(s).st = "CAPTURING" /\ Expire(s).used > 0
  <2>1. Expire(s) = s /\ PcmSeal(s) = [s EXCEPT !.st = "READY", !.left = s.used]
    BY <1>1, <1>2 DEF PcmSeal
  <2>2. s.used \in 0..Chunks /\ s.used > 0 /\ s.st = "CAPTURING"
    BY <1>0, <1>2, <2>1 DEF StoreTypes
  <2>3. /\ PcmSeal(s) \in StoreTypes /\ PcmSeal(s).left = s.used /\ PcmSeal(s).used = s.used
        /\ PcmSeal(s).for = s.for
    BY <1>0, <2>1, <2>2 DEF StoreTypes
  <2>4. s.used <= s.used
    BY <1>0, <2>2
  <2> QED
    BY <2>2, <2>3, <2>4 DEF GoodStore, Live
<1>3. CASE ~(Expire(s).st = "CAPTURING" /\ Expire(s).used > 0)
  BY <1>1, <1>3 DEF PcmSeal, Shrinks
<1> QED
  BY <1>2, <1>3

(* What the worker and the phone do to a session leaves its owner, its     *)
(* activity and its taps alone.                                            *)
SameSession(a, b) ==
  b \in SessionTypes /\ b.owner = a.owner /\ b.active = a.active /\ b.tap = a.tap

(* Cancelling or refreshing a session leaves it its owner, activity and    *)
(* taps; a disconnection takes the owner only of a session that is not     *)
(* active (ble_audio.c).                                                   *)
LEMMA SessionStays ==
  ASSUME NEW a \in SessionTypes, NEW s
  PROVE  /\ SameSession(a, cancel_aud(a)) /\ SameSession(a, refresh_aud(a, s))
         /\ disconnected_aud(a) \in SessionTypes
         /\ disconnected_aud(a).active = a.active /\ disconnected_aud(a).tap = a.tap
         /\ disconnected_aud(a).owner = IF a.active THEN a.owner ELSE 0
<1>1. \A b \in SessionTypes : SameSession(b, cancel_aud(b))
  <2> SUFFICES ASSUME NEW b \in SessionTypes PROVE SameSession(b, cancel_aud(b))
    OBVIOUS
  <2>1. cancel_aud(b) = b \/ \E k \in {"CANCELLED", b.st} :
                               cancel_aud(b) = [b EXCEPT !.cancelled = TRUE, !.st = k]
    BY DEF cancel_aud
  <2>2. b.st \in {"IDLE", "WAITING", "RECORDING", "READY", "DRAINED", "EXPIRED", "CANCELLED", "ERROR"}
    BY DEF SessionTypes
  <2>3. \A k \in {"CANCELLED", b.st} : SameSession(b, [b EXCEPT !.cancelled = TRUE, !.st = k])
    BY <2>2 DEF SameSession, SessionTypes
  <2> QED
    BY <2>1, <2>3 DEF SameSession
<1>2. SameSession(a, refresh_aud(a, s))
  <2>1. \A k \in {"DRAINED", "EXPIRED", "ERROR"} : SameSession(a, [a EXCEPT !.st = k])
    BY DEF SameSession, SessionTypes
  <2>2. refresh_aud(a, s) = a \/ \E k \in {"DRAINED", "EXPIRED", "ERROR"} :
                                    refresh_aud(a, s) = [a EXCEPT !.st = k]
    BY DEF refresh_aud
  <2> QED
    BY <2>1, <2>2 DEF SameSession
<1> DEFINE d == [a EXCEPT !.disc = TRUE]
           c == cancel_aud(d)
<1>3. SameSession(a, d)
  BY DEF SameSession, SessionTypes
<1>4. SameSession(a, c)
  BY <1>1, <1>3 DEF SameSession
<1>5. disconnected_aud(a) = IF a.owner = 0 THEN a ELSE IF a.active THEN c ELSE [c EXCEPT !.owner = 0]
  BY DEF disconnected_aud
<1> HIDE DEF c, d
<1>6. [c EXCEPT !.owner = 0] \in SessionTypes /\ [c EXCEPT !.owner = 0].owner = 0
      /\ [c EXCEPT !.owner = 0].active = c.active /\ [c EXCEPT !.owner = 0].tap = c.tap
  BY <1>4 DEF SameSession, SessionTypes
<1>7. /\ disconnected_aud(a) \in SessionTypes
      /\ disconnected_aud(a).active = a.active /\ disconnected_aud(a).tap = a.tap
      /\ disconnected_aud(a).owner = IF a.active THEN a.owner ELSE 0
  BY <1>4, <1>5, <1>6 DEF SameSession
<1> QED
  BY <1>1, <1>2, <1>7

-----------------------------------------------------------------------------
(* When a part of the invariant is kept.                                   *)

(* The same party holds busy.                                              *)
LEMMA BusyKeeps ==
  ASSUME BusyExact, busy' = busy, w'.job = w.job,
         (pc'["mic"] # "idle") <=> (pc["mic"] # "idle"),
         cmd'.sem <=> cmd.sem, cmd'.held <=> cmd.held,
         \A t \in Requesters :
           \/ pc'[t] \notin Claimed /\ pc[t] \notin Claimed
           \/ pc'[t] \in Claimed /\ pc[t] \in Claimed /\ loc'[t].mode = loc[t].mode
  PROVE  BusyExact'
<1>1. \A h \in Parties : Holds(h)' <=> Holds(h)
  BY DEF Holds
<1>2. \A t \in Requesters : pc'[t] \in Claimed => Asks(t)'
  BY DEF BusyExact, Asks
<1> QED
  BY <1>1, <1>2 DEF BusyExact

(* No job and no window begins, and the restart goes on as it was.         *)
LEMMA ExclusionKeeps ==
  ASSUME Exclusion, Job' => Job, Window' => Window, recovery' = recovery,
         \/ pc'["shell"] = pc["shell"]
         \/ pc["shell"] \notin Restarting /\ pc'["shell"] \notin Restarting,
         \A t \in Requesters : pc'[t] = "check" => pc[t] = "check" \/ ~recovery
  PROVE  Exclusion'
<1>1. (SawIdle' => SawIdle) /\ (SawClosed' => SawClosed) /\ (SawIdle => recovery)
  BY DEF SawIdle, SawClosed, Restarting
<1> QED
  BY <1>1 DEF Exclusion

(* The microphone is left alone, and nothing is made ready.                *)
LEMMA PeripheralKeeps ==
  ASSUME Peripheral, pc'["mic"] = pc["mic"], mic' = mic,
         store'.st = "READY" => store.st = "READY"
  PROVE  Peripheral'
BY DEF Peripheral, Quiet

(* The worker and the button are left alone, and no clip is made.          *)
LEMMA TappedKeeps ==
  ASSUME Tapped, pc'["mic"] = pc["mic"], w' = w, button' = button,
         aud'.active <=> aud.active, aud'.tap = aud.tap,
         Live(store)' => Live(store), store'.for = store.for,
         store'.st = "CAPTURING" => store.st = "CAPTURING"
  PROVE  Tapped'
<1>1. Tapped /\ (Live(store) => pc["mic"] \in Clip /\ w.mode \in {"RECORD", "BLE"})
      /\ (Live(store) /\ store.for # 0 => w.mode = "BLE" /\ aud.tap = 3)
  BY DEF Tapped, Retains
<1> QED
  BY <1>1 DEF Tapped, Retains

(* The link keeps its number and its references.                           *)
LinkCalm ==
  /\ link'.n = link.n /\ link'.refs = link.refs
  /\ link'.st = link.st \/ (link.st = "up" /\ link'.st = "dropping")

(* Who points to the connection still may, as long as the connection       *)
(* object keeps its number and its references.                             *)
LEMMA ConnectedKeeps2 ==
  ASSUME Connected, LinkCalm, enr'.pending \in {0, enr.pending},
         pc'["bt"] \in OnTheLine => pc["bt"] \in OnTheLine \/ link.st \in {"up", "dropping"},
         aud'.owner = aud.owner, aud'.active <=> aud.active,
         cmd'.sem => cmd.sem, cmd'.mode = cmd.mode
  PROVE  Connected'
BY DEF Connected, LinkCalm

(* A step of enrollment: it is beside whoever asks for the microphone.     *)
AsideStep ==
  /\ UNCHANGED micVars /\ busy' = busy /\ pc'["mic"] = pc["mic"]
  /\ \A t \in Requesters :
       \/ pc'[t] = pc[t] /\ loc'[t] = loc[t]
       \/ pc[t] \notin OnTheLine /\ pc'[t] \notin OnTheLine

(* A step of enrollment keeps the invariant when it keeps the two parts it *)
(* shares with the microphone.                                             *)
LEMMA AsideKeeps ==
  ASSUME MicInv, AsideStep, recovery' \in BOOLEAN, timer' \in BOOLEAN,
         Bounded', Connected', Exclusion'
  PROVE  MicInv'
<1>0. MicTypes /\ BusyExact /\ Peripheral /\ Tapped
  BY DEF MicInv
<1>1. MicTypes'
  BY <1>0 DEF MicTypes, AsideStep, micVars
<1>2. BusyExact'
  <2>1. /\ busy' = busy /\ w' = w /\ cmd' = cmd /\ pc'["mic"] = pc["mic"]
        /\ \A t \in Requesters : \/ pc'[t] = pc[t] /\ loc'[t] = loc[t]
                                 \/ pc[t] \notin OnTheLine /\ pc'[t] \notin OnTheLine
    BY DEF AsideStep, micVars
  <2>2. \A t \in Requesters :
           \/ pc'[t] \notin Claimed /\ pc[t] \notin Claimed
           \/ pc'[t] \in Claimed /\ pc[t] \in Claimed /\ loc'[t].mode = loc[t].mode
    BY <2>1 DEF Claimed, OnTheLine
  <2> QED
    BY <1>0, <2>1, <2>2, BusyKeeps
<1>3. Peripheral' /\ Tapped'
  <2>1. /\ w' = w /\ pc'["mic"] = pc["mic"] /\ mic' = mic /\ store' = store /\ aud' = aud
        /\ button' = button
    BY DEF AsideStep, micVars
  <2> QED
    BY <1>0, <2>1, PeripheralKeeps, TappedKeeps
<1> QED
  BY <1>1, <1>2, <1>3 DEF MicInv

(* Most of them do nothing that the microphone or the restart looks at.    *)
Calm ==
  /\ LinkCalm /\ enr'.pending \in {0, enr.pending} /\ (Window' => Window)
  /\ recovery' = recovery /\ timer' \in BOOLEAN
  /\ pc'["shell"] = pc["shell"] \/ (pc["shell"] \notin Restarting /\ pc'["shell"] \notin Restarting)

(* A calm step of enrollment keeps the whole invariant.                    *)
LEMMA CalmKeeps ==
  ASSUME MicInv, AsideStep, Calm, Bounded'
  PROVE  MicInv'
<1>0. MicTypes /\ Connected /\ Exclusion
  BY DEF MicInv
<1>1. /\ aud' = aud /\ cmd' = cmd /\ pc'["mic"] = pc["mic"]
      /\ pc'["bt"] = pc["bt"] \/ (pc["bt"] \notin OnTheLine /\ pc'["bt"] \notin OnTheLine)
  BY DEF AsideStep, micVars, Requesters
<1>2. Connected'
  BY <1>0, <1>1, ConnectedKeeps2 DEF Calm
<1>3. Exclusion'
  <2>1. Job' => Job
    BY <1>1 DEF Job
  <2>2. \A t \in Requesters : pc'[t] = "check" => pc[t] = "check"
    BY DEF AsideStep, OnTheLine
  <2> QED
    BY <1>0, <2>1, <2>2, ExclusionKeeps DEF Calm
<1>4. recovery' \in BOOLEAN /\ timer' \in BOOLEAN
  BY <1>0 DEF Calm, MicTypes
<1> QED
  BY <1>2, <1>3, <1>4, AsideKeeps

-----------------------------------------------------------------------------
(* Enrollment and the restart, beside the microphone.                      *)

(* One thread moves, neither from nor to a request for the microphone.     *)
LEMMA MoveAside ==
  ASSUME EnrollInv, UNCHANGED micVars, busy' = busy,
         NEW t \in Threads \ {"mic"}, NEW l \in AllLabels \ OnTheLine, pc[t] \notin OnTheLine,
         pc' = [pc EXCEPT ![t] = l], \A u \in Threads : u # t => loc'[u] = loc[u]
  PROVE  AsideStep /\ pc'[t] = l /\ \A u \in Threads : u # t => pc'[u] = pc[u]
<1>1. pc'[t] = l /\ \A u \in Threads : u # t => pc'[u] = pc[u]
  BY PcMoves
<1> QED
  BY <1>1 DEF AsideStep, Threads, Requesters

(* No thread moves.                                                        *)
LEMMA StillAside ==
  ASSUME UNCHANGED micVars, busy' = busy, pc' = pc, loc' = loc
  PROVE  AsideStep
BY DEF AsideStep

(* finish_enrollment, by whichever thread.                                 *)
LEMMA FinishCalm ==
  ASSUME EnrollInv, MicInv, UNCHANGED <<busy, recovery, timer, micVars>>,
         NEW t \in {"shell", "bt", "wq"}, pc[t] \notin OnTheLine \cup Restarting,
         NEW expected, NEW abort, NEW expired, NEW drop,
         finish_enrollment(t, expected, abort, expired, drop)
  PROVE  MicInv'
<1>0. /\ enr \in WindowTypes /\ link \in LinkTypes /\ loc \in [Threads -> LocalTypes]
      /\ MicTypes /\ Bounded /\ t \in Threads \ {"mic"} /\ t # "button" /\ "button" \in Threads
      /\ "shell" \in Threads
  BY DEF EnrollInv, EnrollmentTypes, MicInv, Threads
<1>1. /\ {"idle", "release"} \subseteq AllLabels \ OnTheLine
      /\ "idle" \notin Restarting /\ "release" \notin Restarting
  BY DEF AllLabels, ShellLabels, OnTheLine, Restarting
<1>2. PICK l \in {"idle", "release"} : pc' = [pc EXCEPT ![t] = l]
  BY DEF finish_enrollment, Goto
<1>3. \A u \in Threads : u # t => loc'[u] = loc[u]
  BY <1>0 DEF finish_enrollment
<1>4. AsideStep /\ pc'[t] = l /\ \A u \in Threads : u # t => pc'[u] = pc[u]
  BY <1>0, <1>1, <1>2, <1>3, MoveAside
<1>5. enr' = enr \/ enr' = detach_enrollment_locked
  BY DEF finish_enrollment
<1>6. enr'.pending \in {0, enr.pending} /\ (enr'.open => enr.open) /\ enr'.n = enr.n
  BY <1>0, <1>5, DetachTyped
<1>7. LinkCalm
  <2>1. link' = link \/ link' = Dropped(link)
    BY DEF finish_enrollment
  <2> QED
    BY <1>0, <2>1 DEF LinkCalm, Dropped, LinkTypes
<1>8. pc'["button"] = pc["button"]
  BY <1>0, <1>4
<1>9. Bounded'
  BY <1>0, <1>6, <1>7, <1>8 DEF Bounded, LinkCalm
<1>10. pc'["shell"] = pc["shell"] \/ (pc["shell"] \notin Restarting /\ pc'["shell"] \notin Restarting)
  BY <1>0, <1>1, <1>2, <1>4
<1>11. Calm
  BY <1>0, <1>6, <1>7, <1>8, <1>10 DEF Calm, Window, MicTypes
<1> QED
  BY <1>4, <1>9, <1>11, CalmKeeps

(* A step that moves one thread among labels that the microphone does not  *)
(* look at, and leaves window, link and restart alone.                     *)
LEMMA QuietMic ==
  ASSUME EnrollInv, MicInv, UNCHANGED micVars, busy' = busy, recovery' = recovery, timer' \in BOOLEAN,
         NEW t \in {"shell", "bt", "wq"}, NEW l \in AllLabels \ (OnTheLine \cup Restarting),
         pc[t] \notin OnTheLine \cup Restarting, pc' = [pc EXCEPT ![t] = l],
         \A u \in Threads : u # t => loc'[u] = loc[u],
         LinkCalm, enr'.open <=> enr.open, enr'.pending = enr.pending, enr'.n = enr.n
  PROVE  MicInv'
<1>0. t \in Threads \ {"mic"} /\ t # "button" /\ "button" \in Threads /\ "shell" \in Threads
  BY DEF Threads
<1>1. AsideStep /\ pc'[t] = l /\ \A u \in Threads : u # t => pc'[u] = pc[u]
  BY <1>0, MoveAside
<1>2. pc'["button"] = pc["button"]
  BY <1>0, <1>1
<1>3. Bounded'
  BY <1>2 DEF MicInv, Bounded, LinkCalm
<1>4. pc'["shell"] = pc["shell"] \/ (pc["shell"] \notin Restarting /\ pc'["shell"] \notin Restarting)
  BY <1>0, <1>1
<1>5. Calm
  BY <1>2, <1>4 DEF Calm, Window
<1> QED
  BY <1>1, <1>3, <1>5, CalmKeeps

(* Nobody moves.                                                           *)
LEMMA StillMic ==
  ASSUME EnrollInv, MicInv, UNCHANGED <<micVars, busy, recovery, timer, pc, loc>>,
         LinkCalm, enr'.open <=> enr.open, enr'.pending = enr.pending, enr'.n = enr.n
  PROVE  MicInv'
<1>1. AsideStep
  BY StillAside
<1>2. Bounded'
  BY DEF MicInv, Bounded, LinkCalm
<1>3. Calm
  BY DEF Calm, Window, MicInv, MicTypes
<1> QED
  BY <1>1, <1>2, <1>3, CalmKeeps

(* The reference of the detached peer is given back.                       *)
LEMMA ReleaseMic ==
  ASSUME EnrollInv, MicInv, UNCHANGED micVars, NEW t \in Threads, release_enrollment(t)
  PROVE  MicInv'
<1>0. /\ enr \in WindowTypes /\ link \in LinkTypes /\ loc \in [Threads -> LocalTypes]
      /\ MicTypes /\ Bounded /\ Connected /\ Exclusion /\ ClosingExact /\ OwnLabels
      /\ "button" \in Threads /\ "shell" \in Threads
  BY DEF EnrollInv, EnrollmentTypes, MicInv, Threads
<1>1. pc[t] = "release" /\ t \in {"shell", "bt", "wq"} /\ t \in Threads \ {"mic"} /\ t # "button"
  BY <1>0 DEF release_enrollment, OwnLabels, Threads, ButtonLabels, MicLabels, CodecLabels
<1>2. /\ busy' = busy /\ recovery' = recovery /\ timer' = FALSE
      /\ enr' = [enr EXCEPT !.closing = FALSE] /\ loc' = [loc EXCEPT ![t] = NoLocals]
  BY DEF release_enrollment
<1>3. PICK l \in {"idle", "verify"} : pc' = [pc EXCEPT ![t] = l]
  BY DEF release_enrollment, Goto
<1>4. /\ {"idle", "verify"} \subseteq AllLabels \ OnTheLine /\ "release" \notin OnTheLine
      /\ {"idle", "verify", "release"} \cap Restarting = {}
  BY DEF AllLabels, ShellLabels, BtLabels, OnTheLine, Restarting
<1>5. \A u \in Threads : u # t => loc'[u] = loc[u]
  BY <1>0, <1>2
<1>6. AsideStep /\ pc'[t] = l /\ \A u \in Threads : u # t => pc'[u] = pc[u]
  BY <1>1, <1>2, <1>3, <1>4, <1>5, MoveAside
<1>7. pc'["button"] = pc["button"]
  BY <1>0, <1>1, <1>6
<1>8. pc'["shell"] = pc["shell"] \/ (pc["shell"] \notin Restarting /\ pc'["shell"] \notin Restarting)
  BY <1>0, <1>1, <1>4, <1>6
<1>9. enr.pending = 0
  BY <1>0, <1>1 DEF ClosingExact, Closing
<1>10. enr'.pending = 0 /\ (enr'.open <=> enr.open) /\ enr'.n = enr.n
  BY <1>0, <1>2, <1>9 DEF WindowTypes
<1>11. /\ link'.n = link.n
       /\ link'.st = link.st \/ (link.st = "up" /\ link'.st = "dropping")
       /\ link'.refs = link.refs \/ link'.refs = link.refs \ {"pending"}
  <2> DEFINE freed == [link EXCEPT !.refs = unref_pending(loc[t].held)]
  <2>1. freed \in LinkTypes /\ freed.n = link.n /\ freed.st = link.st
        /\ (freed.refs = link.refs \/ freed.refs = link.refs \ {"pending"})
    BY <1>0 DEF unref_pending, LinkTypes
  <2>2. link' = freed \/ link' = Dropped(freed)
    BY DEF release_enrollment
  <2> HIDE DEF freed
  <2> QED
    BY <2>1, <2>2 DEF Dropped, LinkTypes
<1>12. Connected'
  <2>1. aud' = aud /\ cmd' = cmd
    BY DEF micVars
  <2>2. pc'["bt"] \in OnTheLine => pc["bt"] \in OnTheLine
    BY <1>6 DEF AsideStep, Requesters
  <2> QED
    BY <1>0, <1>10, <1>11, <2>1, <2>2 DEF Connected
<1>13. Exclusion'
  <2>1. Job' => Job
    BY <1>6 DEF Job, AsideStep, micVars
  <2>2. Window' => Window
    BY <1>7, <1>10 DEF Window
  <2>3. \A u \in Requesters : pc'[u] = "check" => pc[u] = "check"
    BY <1>6 DEF OnTheLine, AsideStep
  <2> QED
    BY <1>0, <1>2, <1>8, <2>1, <2>2, <2>3, ExclusionKeeps
<1>14. Bounded'
  BY <1>0, <1>7, <1>10, <1>11 DEF Bounded
<1>15. recovery' \in BOOLEAN /\ timer' \in BOOLEAN
  BY <1>0, <1>2 DEF MicTypes
<1> QED
  BY <1>6, <1>12, <1>13, <1>14, <1>15, AsideKeeps

(* While busy is free nobody has a job or is on the way to one.            *)
LEMMA NobodyHolds ==
  ASSUME BusyExact, busy = 0
  PROVE  ~Job /\ \A t \in Requesters : pc[t] \notin Claimed
BY DEF BusyExact, Holds, Job, Parties, Requesters

(* A window is opened, or its replacement begun, while busy is free and no *)
(* restart is under way.                                                   *)
LEMMA OpenMic ==
  ASSUME EnrollInv, MicInv, UNCHANGED micVars,
         replace_begin \/ (command_open /\ WindowAllowed /\ enr.n < MaxWindows)
  PROVE  MicInv'
<1>0. /\ enr \in WindowTypes /\ MicTypes /\ Bounded /\ Connected /\ Exclusion /\ BusyExact
      /\ {"button", "shell", "bt"} \subseteq Threads \ {"mic"} /\ pc \in [Threads -> AllLabels]
  BY DEF EnrollInv, EnrollmentTypes, MicInv, Threads
<1>1. /\ busy = 0 /\ ~recovery /\ enr.n < MaxWindows /\ ~pairing_busy
      /\ busy' = busy /\ recovery' = recovery /\ loc' = loc /\ link' = link /\ timer' \in {TRUE, timer}
  BY DEF command_open, replace_begin, WindowAllowed
<1>2. ~Job /\ ~Job' /\ pc["shell"] \notin Restarting
  <2>1. ~Job
    BY <1>0, <1>1, NobodyHolds
  <2>2. pc'["mic"] = pc["mic"]
    BY <1>0 DEF command_open, replace_begin, Goto, Threads
  <2> QED
    BY <1>0, <1>1, <2>1, <2>2 DEF Job, micVars, Exclusion
<1>3. /\ {"idle", "close", "claim", "opening"} \subseteq AllLabels \ (OnTheLine \cup Restarting)
  BY DEF AllLabels, ShellLabels, ButtonLabels, OnTheLine, Restarting
<1>4. AsideStep /\ pc'["shell"] \notin Restarting /\ pc'["bt"] = pc["bt"]
      /\ (command_open => pc'["button"] = pc["button"])
  <2>2. CASE command_open /\ WindowAllowed /\ enr.n < MaxWindows
    <3>1. pc["shell"] = "opening" /\ \E k \in {"idle", "close"} : pc' = [pc EXCEPT !["shell"] = k]
      BY <2>2 DEF command_open, Goto
    <3>2. PICK k \in {"idle", "close"} : pc' = [pc EXCEPT !["shell"] = k]
      BY <3>1
    <3>3. AsideStep /\ pc'["shell"] = k /\ \A u \in Threads : u # "shell" => pc'[u] = pc[u]
      BY <1>0, <1>1, <1>3, <3>1, <3>2, MoveAside
    <3> QED
      BY <1>0, <1>3, <3>3
  <2>3. CASE replace_begin
    <3>1. pc["button"] = "idle" /\ pc' = [pc EXCEPT !["button"] = "claim"]
      BY <2>3 DEF replace_begin, Idle, Goto
    <3>2. AsideStep /\ \A u \in Threads : u # "button" => pc'[u] = pc[u]
      BY <1>0, <1>1, <1>3, <3>1, MoveAside
    <3>3. ~command_open
      BY <1>0, <3>1, <3>2 DEF command_open, Goto
    <3> QED
      BY <1>0, <1>2, <3>2, <3>3
  <2> QED
    BY <2>2, <2>3
<1>5. enr'.pending = enr.pending
  BY <1>0, <1>1, OpenFields DEF command_open, replace_begin, WindowTypes, WindowAllowed
<1>6. Connected'
  <2>1. aud' = aud /\ cmd' = cmd
    BY DEF micVars
  <2>2. LinkCalm
    BY <1>1 DEF LinkCalm
  <2> QED
    BY <1>0, <1>4, <1>5, <2>1, <2>2, ConnectedKeeps2
<1>7. Exclusion'
  BY <1>0, <1>1, <1>2, <1>4 DEF Exclusion, SawIdle, SawClosed
<1>8. Bounded'
  <2>0. enr.n \in Nat /\ enr.n < MaxWindows /\ MaxWindows \in Nat /\ link'.n <= MaxConns
    BY <1>0, <1>1, EnrollmentBounds DEF WindowTypes, Bounded
  <2>1. CASE replace_begin
    <3>1. enr'.n = enr.n
      BY <1>0, <2>1 DEF replace_begin, WindowTypes
    <3> QED
      BY <2>0, <3>1 DEF Bounded
  <2>2. CASE command_open /\ WindowAllowed /\ enr.n < MaxWindows
    <3>1. enr'.n = enr.n + 1
      BY <1>0, <2>2, OpenFields DEF command_open
    <3>2. pc'["button"] \notin Replacing
      <4>1. ~enr.closing
        BY <1>1 DEF pairing_busy
      <4>2. pc["button"] \notin Replacing
        BY <1>0, <4>1 DEF EnrollInv, ClosingExact, Closing
      <4> QED
        BY <1>4, <2>2, <4>2
    <3> QED
      BY <2>0, <3>1, <3>2 DEF Bounded
  <2> QED
    BY <2>1, <2>2
<1>9. recovery' \in BOOLEAN /\ timer' \in BOOLEAN
  BY <1>0, <1>1 DEF MicTypes
<1> QED
  BY <1>4, <1>6, <1>7, <1>8, <1>9, AsideKeeps

(* The rest of replace_local: the window stays what it was to the others.  *)
LEMMA ReplaceMic ==
  ASSUME EnrollInv, MicInv, UNCHANGED micVars, replace_claim \/ replace_unpair \/ replace_open
  PROVE  MicInv'
<1>0. /\ enr \in WindowTypes /\ link \in LinkTypes /\ MicTypes /\ Bounded
      /\ {"button", "shell", "bt"} \subseteq Threads \ {"mic"}
  BY DEF EnrollInv, EnrollmentTypes, MicInv, Threads
<1>1. pc["button"] \in Replacing /\ busy' = busy /\ recovery' = recovery /\ loc' = loc
  BY DEF replace_claim, replace_unpair, replace_open, Replacing
<1>2. timer' \in BOOLEAN
  BY <1>0 DEF replace_claim, replace_unpair, replace_open, MicTypes
<1>3. LinkCalm
  <2>1. link' = link \/ link' = Dropped(link)
    BY DEF replace_claim, replace_unpair, replace_open
  <2> QED
    BY <1>0, <2>1 DEF LinkCalm, Dropped, LinkTypes
<1>4. PICK l \in {"idle", "unpair", "open", "failed"} : pc' = [pc EXCEPT !["button"] = l]
  BY DEF replace_claim, replace_unpair, replace_open, Goto
<1>5. /\ {"idle", "unpair", "open", "failed"} \subseteq AllLabels \ OnTheLine
      /\ Replacing \cap OnTheLine = {} /\ "idle" \notin Replacing
  BY DEF AllLabels, ButtonLabels, OnTheLine, Replacing
<1>6. AsideStep /\ pc'["button"] = l /\ \A u \in Threads : u # "button" => pc'[u] = pc[u]
  BY <1>0, <1>1, <1>4, <1>5, MoveAside
<1>7. /\ enr'.pending = enr.pending
      /\ enr'.n = enr.n \/ (pc'["button"] = "idle" /\ enr'.n = enr.n + 1)
  <2>1. \/ enr' = enr \/ enr' = [enr EXCEPT !.closing = FALSE]
        \/ enr' = OpenWindow(enr) /\ pc' = [pc EXCEPT !["button"] = "idle"]
    BY DEF replace_claim, replace_unpair, replace_open, Goto
  <2>2. CASE enr' = enr \/ enr' = [enr EXCEPT !.closing = FALSE]
    BY <1>0, <2>2 DEF WindowTypes
  <2>3. CASE enr' = OpenWindow(enr) /\ pc' = [pc EXCEPT !["button"] = "idle"]
    <3>1. pc'["button"] = "idle"
      BY <1>0, <2>3 DEF EnrollInv, EnrollmentTypes
    <3> QED
      BY <1>0, <2>3, <3>1, OpenFields
  <2> QED
    BY <2>1, <2>2, <2>3
<1>8. Bounded'
  <2>0. /\ enr.n \in Nat /\ enr.n < MaxWindows /\ MaxWindows \in Nat /\ link'.n <= MaxConns
    BY <1>0, <1>1, <1>3, EnrollmentBounds DEF WindowTypes, Bounded, LinkCalm
  <2>1. enr'.n <= MaxWindows /\ (pc'["button"] \in Replacing => enr'.n < MaxWindows)
    BY <1>5, <1>7, <2>0
  <2> QED
    BY <2>0, <2>1 DEF Bounded
<1>9. Calm
  BY <1>0, <1>1, <1>2, <1>3, <1>6, <1>7 DEF Calm, Window
<1> QED
  BY <1>6, <1>8, <1>9, CalmKeeps

(* A new connection: the object is given to a peer only when nobody has a  *)
(* reference to it, and so nobody points to it.                            *)
LEMMA ConnectMic ==
  ASSUME EnrollInv, MicInv, UNCHANGED micVars,
         (\E p \in Peers : connected(p)) \/ connection_recycled \/ restart_advertising
  PROVE  MicInv'
<1>0. /\ enr \in WindowTypes /\ link \in LinkTypes /\ MicTypes /\ Bounded /\ Connected /\ Exclusion
      /\ link.n \in Nat /\ MaxConns \in Nat
  BY EnrollmentBounds DEF EnrollInv, EnrollmentTypes, MicInv, LinkTypes
<1>1. /\ UNCHANGED <<pc, loc, busy, recovery, timer>> /\ aud' = aud /\ cmd' = cmd
  BY DEF connected, connection_recycled, restart_advertising, micVars
<1>2. AsideStep
  BY <1>1, StillAside
<1>3. enr'.open <=> enr.open
  BY <1>0 DEF connected, connection_recycled, restart_advertising, WindowTypes
<1>4. enr'.n = enr.n
  BY <1>0 DEF connected, connection_recycled, restart_advertising, WindowTypes
<1>5. Exclusion'
  BY <1>0, <1>1, <1>3 DEF Exclusion, SawIdle, SawClosed, Job, Window
<1>6. Connected' /\ link'.n <= MaxConns
  <2>1. CASE \E p \in Peers : connected(p)
    <3>1. link.st = "adv" /\ link.n < MaxConns
      BY <2>1 DEF connected
    <3>2. aud.owner = 0 /\ ~aud.active /\ enr.pending = 0 /\ pc["bt"] \notin OnTheLine /\ link.refs = {}
      BY <1>0, <3>1 DEF Connected
    <3>3. ~(cmd.sem /\ cmd.mode = "BLE")
      BY <1>0, <3>2 DEF Connected
    <3>4. /\ link'.n = link.n + 1 /\ link'.st \in {"up", "dropping"}
          /\ \/ enr' = enr
             \/ enr' = [enr EXCEPT !.pending = link.n + 1] /\ "pending" \in link'.refs
      <4>1. PICK p \in Peers : connected(p)
        BY <2>1
      <4> DEFINE up(k) == [link EXCEPT !.st = "up", !.n = k, !.peer = p]
                 held(k) == [up(k) EXCEPT !.refs = @ \cup {"pending"}]
      <4>2. \A k \in Nat : /\ up(k).n = k /\ up(k).st = "up" /\ held(k).n = k /\ held(k).st = "up"
                           /\ "pending" \in held(k).refs
                           /\ Dropped(up(k)).n = k /\ Dropped(up(k)).st = "dropping"
        BY <1>0, <4>1 DEF LinkTypes, Dropped
      <4>3. \/ /\ link' = held(link.n + 1)
               /\ enr' = [enr EXCEPT !.pending = link.n + 1]
            \/ (link' = up(link.n + 1) \/ link' = Dropped(up(link.n + 1))) /\ enr' = enr
        BY <4>1 DEF connected
      <4>4. link.n + 1 \in Nat
        BY <1>0
      <4> HIDE DEF up, held
      <4> QED
        BY <4>2, <4>3, <4>4
    <3>5. enr'.pending = 0 \/ (enr'.pending = link.n + 1 /\ "pending" \in link'.refs)
      BY <1>0, <3>2, <3>4 DEF WindowTypes
    <3>6. link.n + 1 > 0 /\ link.n + 1 <= MaxConns
      BY <1>0, <3>1
    <3> QED
      BY <1>1, <3>2, <3>3, <3>4, <3>5, <3>6 DEF Connected
  <2>2. CASE connection_recycled \/ restart_advertising
    <3>1. link'.n = link.n /\ link'.refs = {} /\ link'.st \in {"recycled", "free", "adv"}
      BY <1>0, <2>2 DEF connection_recycled, restart_advertising, Connected, LinkTypes
    <3>2. enr' = enr /\ link.refs = {} /\ link.st \notin {"up", "dropping"}
      BY <1>0, <2>2 DEF connection_recycled, restart_advertising, Connected
    <3> QED
      BY <1>0, <1>1, <3>1, <3>2 DEF Connected, Bounded
  <2> QED
    BY <2>1, <2>2
<1>7. Bounded'
  BY <1>0, <1>1, <1>4, <1>6 DEF Bounded
<1>8. recovery' \in BOOLEAN /\ timer' \in BOOLEAN
  BY <1>0, <1>1 DEF MicTypes
<1> QED
  BY <1>2, <1>5, <1>6, <1>7, <1>8, AsideKeeps

(* The restart: the flag is raised, then busy and the window are looked at *)
(* again.                                                                  *)
LEMMA RestartMic ==
  ASSUME EnrollInv, MicInv, UNCHANGED micVars,
         \/ restart_look \/ restart_claim \/ restart_recheck \/ restart_bootmode
         \/ restart_abandon
  PROVE  MicInv'
<1>0. /\ MicTypes /\ Bounded /\ Connected /\ Exclusion /\ BusyExact
      /\ {"button", "shell", "bt"} \subseteq Threads \ {"mic"}
  BY DEF MicInv, Threads
<1>1. UNCHANGED <<loc, busy, enr, timer, sec, link>> /\ aud' = aud /\ cmd' = cmd
  BY DEF restart_look, restart_claim, restart_recheck, restart_bootmode, restart_abandon, micVars
<1> DEFINE Steps == {"looked", "recheck_busy", "recheck_pairing", "bootmode", "abandon", "idle"}
<1>2. PICK l \in Steps : pc' = [pc EXCEPT !["shell"] = l]
  BY DEF restart_look, restart_claim, restart_recheck, restart_bootmode, restart_abandon, Goto
<1>3. pc["shell"] \in Steps
  BY DEF restart_look, restart_claim, restart_recheck, restart_bootmode, restart_abandon, Idle
<1>4. Steps \subseteq AllLabels \ OnTheLine
  BY DEF AllLabels, ShellLabels, OnTheLine
<1> HIDE DEF Steps
<1>5. AsideStep /\ pc'["shell"] = l /\ \A u \in Threads : u # "shell" => pc'[u] = pc[u]
  BY <1>0, <1>1, <1>2, <1>3, <1>4, MoveAside
<1>p. \A k : pc' = [pc EXCEPT !["shell"] = k] => l = k
  BY <1>0, <1>5 DEF EnrollInv, EnrollmentTypes
<1>6. pc'["bt"] = pc["bt"] /\ pc'["button"] = pc["button"] /\ pc'["mic"] = pc["mic"]
  BY <1>0, <1>5 DEF AsideStep
<1>c. \A t \in Requesters : pc'[t] = "check" => pc[t] = "check"
  BY <1>2, <1>4, <1>5 DEF Requesters, Threads, OnTheLine
<1>7. Connected'
  <2>1. LinkCalm
    BY <1>1 DEF LinkCalm
  <2> QED
    BY <1>0, <1>1, <1>6, <2>1, ConnectedKeeps2
<1>8. Bounded'
  BY <1>0, <1>1, <1>6 DEF Bounded
<1>9. (Job' <=> Job) /\ (Window' <=> Window)
  BY <1>1, <1>6 DEF Job, Window
<1>10. Exclusion' /\ recovery' \in BOOLEAN
  <2>0. recovery \in BOOLEAN /\ pc'["shell"] = l
    BY <1>0, <1>5 DEF MicTypes
  <2>1. CASE restart_look
    <3>1. l = "looked" /\ recovery' = recovery /\ pc["shell"] = "idle"
      BY <1>p, <2>1 DEF restart_look, Goto, Idle
    <3> QED
      BY <1>0, <1>c, <1>9, <2>0, <3>1, ExclusionKeeps DEF Restarting
  <2>2. CASE restart_claim
    <3>1. l = (IF recovery THEN "idle" ELSE "recheck_busy") /\ recovery' = TRUE
          /\ pc["shell"] = "looked"
      BY <1>p, <2>2 DEF restart_claim, Goto
    <3>2. CASE recovery
      BY <1>0, <1>c, <1>9, <2>0, <3>1, <3>2, ExclusionKeeps DEF Restarting
    <3>3. CASE ~recovery
      BY <1>0, <1>9, <2>0, <3>1, <3>3 DEF Exclusion, SawIdle, SawClosed, Restarting
    <3> QED
      BY <3>2, <3>3
  <2>3. CASE restart_recheck /\ pc["shell"] = "recheck_busy"
    <3>1. l = (IF busy = 0 THEN "recheck_pairing" ELSE "abandon") /\ recovery' = recovery
      BY <1>p, <2>3 DEF restart_recheck, Goto
    <3>2. busy = 0 => ~Job /\ \A t \in Requesters : pc[t] # "check"
      BY <1>0, NobodyHolds DEF Claimed
    <3>3. recovery
      BY <1>0, <2>3 DEF Exclusion, Restarting
    <3> QED
      BY <1>0, <1>c, <1>9, <2>0, <3>1, <3>2, <3>3 DEF Exclusion, SawIdle, SawClosed, Restarting
  <2>4. CASE restart_recheck /\ pc["shell"] = "recheck_pairing"
    <3>1. l = (IF pairing_busy THEN "abandon" ELSE "bootmode") /\ recovery' = recovery
      BY <1>p, <2>4 DEF restart_recheck, Goto
    <3>2. ~pairing_busy => ~Window
      BY <1>0 DEF pairing_busy, Window, EnrollInv, ClosingExact, Closing
    <3>3. recovery /\ SawIdle
      BY <1>0, <2>4 DEF Exclusion, Restarting, SawIdle
    <3> QED
      BY <1>0, <1>c, <1>9, <2>0, <3>1, <3>2, <3>3 DEF Exclusion, SawIdle, SawClosed, Restarting
  <2>5. CASE restart_bootmode
    <3>1. l \in {"idle", "abandon"} /\ recovery' = recovery /\ pc["shell"] = "bootmode"
      BY <1>p, <2>5 DEF restart_bootmode, Goto
    <3>2. recovery /\ SawIdle /\ SawClosed
      BY <1>0, <3>1 DEF Exclusion, Restarting, SawIdle, SawClosed
    <3> QED
      BY <1>0, <1>c, <1>9, <2>0, <3>1, <3>2 DEF Exclusion, SawIdle, SawClosed, Restarting
  <2>6. CASE restart_abandon
    <3>1. l = "idle" /\ recovery' = FALSE
      BY <1>p, <2>6 DEF restart_abandon, Goto
    <3> QED
      BY <1>0, <1>9, <2>0, <3>1 DEF Exclusion, SawIdle, SawClosed, Restarting
  <2> QED
    BY <2>1, <2>2, <2>3, <2>4, <2>5, <2>6 DEF restart_recheck
<1>11. timer' \in BOOLEAN
  BY <1>0, <1>1 DEF MicTypes
<1> QED
  BY <1>5, <1>7, <1>8, <1>10, <1>11, AsideKeeps

(* Every step of enrollment and of the restart.                            *)
LEMMA EnrollmentMic ==
  ASSUME EnrollInv, MicInv, UNCHANGED micVars, EnrollmentNext
  PROVE  MicInv'
<1>0. /\ enr \in WindowTypes /\ link \in LinkTypes /\ loc \in [Threads -> LocalTypes] /\ MicTypes
      /\ OwnLabels /\ {"shell", "bt", "wq"} \subseteq Threads
  BY DEF EnrollInv, EnrollmentTypes, MicInv, Threads
<1>1. \A k \in {"idle", "close", "expire", "finish", "verify", "opening"} :
        k \in AllLabels \ (OnTheLine \cup Restarting) /\ k \notin OnTheLine \cup Restarting
  BY DEF AllLabels, ShellLabels, BtLabels, OnTheLine, Restarting
<1>2. link' = link \/ link' = Dropped(link) => LinkCalm
  BY <1>0 DEF LinkCalm, Dropped, LinkTypes
<1>3. CASE WindowLate
  <2>1. /\ (enr'.open <=> enr.open) /\ enr'.pending = enr.pending /\ enr'.n = enr.n
    BY <1>0, <1>3 DEF WindowLate, WindowTypes
  <2> QED
    BY <1>2, <1>3, <2>1, StillMic DEF WindowLate
<1>4. CASE ExpiryFires
  <2>1. /\ pc["wq"] = "idle" /\ pc' = [pc EXCEPT !["wq"] = "expire"] /\ timer' \in BOOLEAN
        /\ UNCHANGED <<loc, busy, recovery, enr, link>>
    BY <1>4 DEF ExpiryFires, Idle, Goto
  <2> QED
    BY <1>1, <1>2, <2>1, QuietMic
<1>5. CASE \E t \in Threads : expire_window(t)
  <2>1. PICK t \in Threads : expire_window(t)
    BY <1>5
  <2>2. t \in {"shell", "bt", "wq"} /\ pc[t] = "expire"
    BY <1>0, <2>1 DEF expire_window, OwnLabels, Threads, ButtonLabels, MicLabels, CodecLabels
  <2>3. /\ UNCHANGED <<busy, recovery, enr, link>> /\ timer' \in BOOLEAN
        /\ \A u \in Threads : u # t => loc'[u] = loc[u]
    BY <1>0, <2>1 DEF expire_window, MicTypes, WindowTypes
  <2>4. PICK l \in {"finish", "idle"} : pc' = [pc EXCEPT ![t] = l]
    BY <2>1 DEF expire_window, Goto
  <2> QED
    BY <1>1, <1>2, <2>2, <2>3, <2>4, QuietMic
<1>6. CASE \E t \in Threads : expire_finish(t)
  <2>1. PICK t \in Threads : expire_finish(t)
    BY <1>6
  <2>2. t \in {"shell", "bt", "wq"} /\ pc[t] = "finish"
    BY <1>0, <2>1 DEF expire_finish, OwnLabels, Threads, ButtonLabels, MicLabels, CodecLabels
  <2> QED
    BY <1>1, <2>1, <2>2, FinishCalm DEF expire_finish
<1>7. CASE \E t \in Threads : release_enrollment(t)
  BY <1>7, ReleaseMic
<1>8. CASE verify_owner
  <2>1. /\ pc["bt"] = "verify" /\ pc' = [pc EXCEPT !["bt"] = "idle"] /\ timer' = timer
        /\ UNCHANGED <<loc, busy, recovery, enr>> /\ (link' = link \/ link' = Dropped(link))
    BY <1>8 DEF verify_owner, Goto
  <2>2. timer' \in BOOLEAN
    BY <1>0, <2>1 DEF MicTypes
  <2> QED
    BY <1>1, <1>2, <2>1, <2>2, QuietMic
<1>9. CASE command_open \/ replace_begin
  <2>1. CASE command_open /\ ~(WindowAllowed /\ enr.n < MaxWindows)
    <3>1. /\ pc["shell"] = "opening" /\ pc' = [pc EXCEPT !["shell"] = "idle"] /\ timer' = timer
          /\ UNCHANGED <<loc, busy, recovery, enr, link>>
      BY <2>1 DEF command_open, Goto
    <3>2. timer' \in BOOLEAN
      BY <1>0, <3>1 DEF MicTypes
    <3> QED
      BY <1>1, <1>2, <3>1, <3>2, QuietMic
  <2> QED
    BY <1>9, <2>1, OpenMic
<1>10. CASE command_close
  <2>1. pc["shell"] \in {"idle", "close"}
    BY <1>10 DEF command_close, Idle
  <2> QED
    BY <1>1, <1>10, <2>1, FinishCalm DEF command_close
<1>11. CASE command_status \/ open_look
  <2>1. /\ pc["shell"] = "idle" /\ timer' = timer /\ UNCHANGED <<loc, busy, recovery, enr, link>>
    BY <1>11 DEF command_status, open_look, Idle
  <2>2. PICK k \in {"expire", "opening"} : pc' = [pc EXCEPT !["shell"] = k]
    BY <1>11 DEF command_status, open_look, Goto
  <2>3. timer' \in BOOLEAN
    BY <1>0, <2>1 DEF MicTypes
  <2> QED
    BY <1>1, <1>2, <2>1, <2>2, <2>3, QuietMic
<1>12. CASE replace_claim \/ replace_unpair \/ replace_open
  BY <1>12, ReplaceMic
<1>13. CASE (\E p \in Peers : connected(p)) \/ connection_recycled \/ restart_advertising
  BY <1>13, ConnectMic
<1>14. CASE \E abort, drop \in BOOLEAN : /\ Idle("bt") /\ finish_enrollment("bt", link.n, abort, 0, drop)
                                         /\ UNCHANGED <<busy, recovery, timer>>
  BY <1>1, <1>14, FinishCalm DEF Idle
<1>15. CASE security_failed \/ pairing_failed
  BY <1>14, <1>15 DEF security_failed, pairing_failed, CloseConn
<1>16. CASE security_changed
  <2>1. LinkCalm
    BY <1>0, <1>16 DEF security_changed, LinkCalm, LinkTypes
  <2> QED
    BY <1>16, <2>1, StillMic DEF security_changed
<1>17. CASE accept_pairing
  <2>1. CASE link' = [link EXCEPT !.smp = "accepted"] /\ UNCHANGED <<pc, loc, enr>>
    <3>1. LinkCalm
      BY <1>0, <2>1 DEF LinkCalm, LinkTypes
    <3> QED
      BY <1>17, <2>1, <3>1, StillMic DEF accept_pairing
  <2> QED
    BY <1>14, <1>17, <2>1 DEF accept_pairing
<1>18. CASE show_passkey
  <2>1. CASE /\ enr' = [enr EXCEPT !.code = TRUE]
             /\ link' = [link EXCEPT !.smp = "shown"] /\ UNCHANGED <<pc, loc>>
    <3>1. LinkCalm
      BY <1>0, <2>1 DEF LinkCalm, LinkTypes
    <3>2. /\ (enr'.open <=> enr.open) /\ enr'.pending = enr.pending /\ enr'.n = enr.n
      BY <1>0, <2>1 DEF WindowTypes
    <3> QED
      BY <1>18, <2>1, <3>1, <3>2, StillMic DEF show_passkey
  <2> QED
    BY <1>14, <1>18, <2>1 DEF show_passkey
<1>19. CASE pairing_complete
  <2>1. CASE CompletionExpected
    <3>1. /\ enr' = detach_enrollment_locked /\ pc["bt"] = "idle"
          /\ loc' = [loc EXCEPT !["bt"] = [NoLocals EXCEPT !.held = TRUE, !.verify = TRUE]]
          /\ pc' = [pc EXCEPT !["bt"] = "release"]
          /\ link' = [link EXCEPT !.smp = "none", !.secure = TRUE]
          /\ UNCHANGED <<busy, recovery, timer>>
      BY <1>19, <2>1 DEF pairing_complete, Goto, Idle
    <3>2. enr'.pending = 0 /\ ~enr'.open /\ enr'.n = enr.n
      BY <1>0, <3>1, DetachTyped
    <3>3. LinkCalm
      BY <1>0, <3>1 DEF LinkCalm, LinkTypes
    <3>4. "release" \in AllLabels \ OnTheLine /\ "bt" \in Threads \ {"mic"} /\ "button" \in Threads
          /\ "shell" \in Threads /\ "idle" \notin OnTheLine
      BY DEF AllLabels, ShellLabels, OnTheLine, Threads
    <3>5. \A u \in Threads : u # "bt" => loc'[u] = loc[u]
      BY <1>0, <3>1
    <3>6. AsideStep /\ \A u \in Threads : u # "bt" => pc'[u] = pc[u]
      BY <3>1, <3>4, <3>5, MoveAside
    <3>7. Bounded'
      BY <3>2, <3>3, <3>4, <3>6 DEF MicInv, Bounded, LinkCalm
    <3>8. Calm
      BY <1>0, <3>1, <3>2, <3>3, <3>4, <3>6 DEF Calm, Window, MicTypes
    <3> QED
      BY <3>6, <3>7, <3>8, CalmKeeps
  <2>2. CASE ~CompletionExpected
    BY <1>14, <1>19, <2>2 DEF pairing_complete
  <2> QED
    BY <2>1, <2>2
<1>20. CASE restart_look \/ restart_claim \/ restart_recheck \/ restart_bootmode \/ restart_abandon
  BY <1>20, RestartMic
<1> QED
  BY <1>3, <1>4, <1>5, <1>6, <1>7, <1>8, <1>9, <1>10, <1>11, <1>12, <1>13, <1>15, <1>16, <1>17, <1>18,
     <1>19, <1>20 DEF EnrollmentNext

-----------------------------------------------------------------------------
(* The session seen from the Bluetooth thread, and the clocks.             *)

SessionStep ==
  /\ UNCHANGED <<busy, recovery, timer, cmd, mic, w, button>>
  /\ pc'["mic"] = pc["mic"]
  /\ \A u \in Requesters \ {"bt"} : pc'[u] = pc[u] /\ loc'[u] = loc[u]
  /\ \/ pc'["bt"] = pc["bt"] /\ loc'["bt"] = loc["bt"]
     \/ pc["bt"] \notin Claimed /\ pc'["bt"] \notin Claimed
  /\ aud' \in SessionTypes /\ (aud'.active <=> aud.active) /\ aud'.tap = aud.tap
  /\ Shrinks(store, store')
  /\ link'.n = link.n /\ enr'.n = enr.n /\ (Window' => Window)

(* A step of the session keeps the invariant when what it points to stays  *)
(* connected.                                                              *)
LEMMA SessionKeeps ==
  ASSUME MicInv, SessionStep, Connected'
  PROVE  MicInv'
<1>0. MicTypes /\ Bounded /\ BusyExact /\ Exclusion /\ Peripheral /\ Tapped
  BY DEF MicInv
<1>1. /\ UNCHANGED <<busy, recovery, timer, cmd, mic, w, button>>
      /\ pc'["mic"] = pc["mic"] /\ pc'["shell"] = pc["shell"] /\ pc'["button"] = pc["button"]
  BY DEF SessionStep, Requesters
<1>2. MicTypes'
  BY <1>0 DEF MicTypes, SessionStep, Shrinks
<1>3. Bounded'
  BY <1>0, <1>1 DEF Bounded, SessionStep
<1>4. BusyExact'
  <2>1. \A t \in Requesters :
           \/ pc'[t] \notin Claimed /\ pc[t] \notin Claimed
           \/ pc'[t] \in Claimed /\ pc[t] \in Claimed /\ loc'[t].mode = loc[t].mode
    BY DEF SessionStep
  <2> QED
    BY <1>0, <1>1, <2>1, BusyKeeps
<1>5. Exclusion'
  <2>1. Job' => Job
    BY <1>1 DEF Job
  <2>2. \A u \in Requesters : pc'[u] = "check" => pc[u] = "check"
    BY DEF SessionStep, Claimed
  <2> QED
    BY <1>0, <1>1, <2>1, <2>2, ExclusionKeeps DEF SessionStep
<1>6. Peripheral'
  BY <1>0, <1>1, PeripheralKeeps DEF SessionStep, Shrinks
<1>7. Tapped'
  BY <1>0, <1>1, TappedKeeps DEF SessionStep, Shrinks
<1> QED
  BY <1>2, <1>3, <1>4, <1>5, <1>6, <1>7 DEF MicInv

(* Nothing is done to the session but that a clip may be gone.             *)
LEMMA SessionCalm ==
  ASSUME EnrollInv, MicInv, UNCHANGED <<loc, busy, recovery, enr, timer, link, cmd, mic, w, button>>,
         NEW t \in {"bt", "wq"}, NEW l \in AllLabels \ Claimed, pc[t] \notin Claimed,
         pc' = pc \/ pc' = [pc EXCEPT ![t] = l],
         l = "asked" => link.st \in {"up", "dropping"},
         SameSession(aud, aud'), Shrinks(store, store')
  PROVE  MicInv'
<1>0. Connected /\ {"mic", "shell", "button", "bt", "wq"} \subseteq Threads /\ pc \in [Threads -> AllLabels]
  BY DEF MicInv, EnrollInv, EnrollmentTypes, Threads
<1>1. /\ pc'["mic"] = pc["mic"] /\ pc'["shell"] = pc["shell"] /\ pc'["button"] = pc["button"]
      /\ pc'["bt"] = pc["bt"] \/ (pc'["bt"] = l /\ pc["bt"] \notin Claimed)
      /\ \A u \in Requesters \ {"bt"} : pc'[u] = pc[u]
  BY <1>0 DEF Requesters, Threads
<1>2. SessionStep
  BY <1>1 DEF SessionStep, SameSession, Window
<1>3. Connected'
  <2>1. LinkCalm
    BY DEF LinkCalm
  <2>2. pc'["bt"] \in OnTheLine => pc["bt"] \in OnTheLine \/ link.st \in {"up", "dropping"}
    BY <1>1 DEF OnTheLine, Claimed
  <2> QED
    BY <1>0, <2>1, <2>2, ConnectedKeeps2 DEF SameSession
<1> QED
  BY <1>2, <1>3, SessionKeeps

(* ble_audio_disconnected gives the reference up, unless the worker has to *)
(* finish with it.                                                         *)
LEMMA LoseMic ==
  ASSUME EnrollInv, MicInv, LoseConn, UNCHANGED <<busy, recovery, timer>>,
         link'.n = link.n, link'.refs = disconnected_refs(aud),
         \/ link'.st = link.st
         \/ link'.st = "down" /\ link.st \in {"up", "dropping"} /\ pc'["bt"] \notin OnTheLine,
         enr'.pending \in {0, enr.pending}, enr'.open => enr.open, enr'.n = enr.n,
         NEW l \in {"idle", "release"}, pc' = pc \/ pc' = [pc EXCEPT !["bt"] = l],
         pc["bt"] \notin OnTheLine, \A u \in Threads : u # "bt" => loc'[u] = loc[u]
  PROVE  MicInv'
<1>0. /\ MicTypes /\ Connected /\ {"mic", "shell", "button", "bt"} \subseteq Threads
      /\ pc \in [Threads -> AllLabels] /\ aud \in SessionTypes /\ GoodStore(store)
  BY DEF MicInv, MicTypes, EnrollInv, EnrollmentTypes, Threads
<1>1. /\ pc'["mic"] = pc["mic"] /\ pc'["shell"] = pc["shell"] /\ pc'["button"] = pc["button"]
      /\ pc'["bt"] = pc["bt"] \/ pc'["bt"] = l
      /\ \A u \in Requesters \ {"bt"} : pc'[u] = pc[u] /\ loc'[u] = loc[u]
  BY <1>0 DEF Requesters, Threads
<1>2. pc'["bt"] \notin OnTheLine
  BY <1>1 DEF OnTheLine
<1>3. /\ UNCHANGED <<cmd, mic, w, button>> /\ aud' = disconnected_aud(aud)
      /\ store' = cancel_store(aud, store)
  BY DEF LoseConn
<1>4. /\ aud' \in SessionTypes /\ (aud'.active <=> aud.active) /\ aud'.tap = aud.tap
      /\ aud'.owner = IF aud.active THEN aud.owner ELSE 0
  BY <1>0, <1>3, SessionStays
<1>5. Shrinks(store, store')
  BY <1>0, <1>3, SessionShrinks
<1>6. Window' => Window
  BY <1>1 DEF Window
<1>7. pc["bt"] \notin Claimed /\ pc'["bt"] \notin Claimed
  BY <1>2 DEF OnTheLine, Claimed
<1>8. SessionStep
  BY <1>0, <1>1, <1>3, <1>4, <1>5, <1>6, <1>7 DEF SessionStep
<1>9. Connected'
  <2>1. /\ link'.st \in {"adv", "recycled", "free"} => link'.refs = {}
        /\ link'.st \in {"up", "dropping"} => link'.n > 0
    BY <1>0 DEF Connected, disconnected_refs
  <2>2. aud'.owner # 0 => aud'.owner = link'.n /\ "audio" \in link'.refs
    BY <1>0, <1>4 DEF Connected, disconnected_refs
  <2>3. enr'.pending # 0 => enr'.pending = link'.n /\ "pending" \in link'.refs
    BY <1>0 DEF Connected, disconnected_refs
  <2>4. (aud'.active => aud'.owner # 0) /\ (cmd'.sem /\ cmd'.mode = "BLE" => aud'.active)
    BY <1>0, <1>3, <1>4 DEF Connected
  <2> QED
    BY <1>2, <2>1, <2>2, <2>3, <2>4 DEF Connected
<1> QED
  BY <1>8, <1>9, SessionKeeps

(* All that the Bluetooth thread, the clocks and the work queue do.        *)
LEMMA SessionMic ==
  ASSUME EnrollInv, MicInv,
         \/ StoreLate \/ StoreExpiryFires \/ expiry_handler \/ audio_begin \/ audio_status
         \/ audio_cancel \/ audio_chunk \/ audio_sent \/ audio_revoked \/ disconnected
         \/ WaitLate \/ UNCHANGED vars
  PROVE  MicInv'
<1>0. /\ MicTypes /\ Connected /\ {"mic", "shell", "button", "bt"} \subseteq Threads
      /\ aud \in SessionTypes /\ GoodStore(store) /\ link \in LinkTypes /\ enr \in WindowTypes
      /\ loc \in [Threads -> LocalTypes] /\ OwnLabels
  BY DEF MicInv, MicTypes, EnrollInv, EnrollmentTypes, Threads
<1>1. /\ SameSession(aud, aud) /\ Shrinks(store, store)
  BY <1>0, StoreShrinks DEF SameSession
<1>2. \A k \in {"idle", "asked", "send", "pcm"} : k \in AllLabels \ Claimed
  BY DEF AllLabels, ShellLabels, BtLabels, WqLabels, Claimed
<1>3. pc["wq"] \notin Claimed
  BY <1>0 DEF OwnLabels, WqLabels, Claimed
<1>4. CASE StoreLate
  <2>1. Shrinks(store, store')
    BY <1>0, <1>4 DEF StoreLate, Shrinks, GoodStore, StoreTypes, Live
  <2> QED
    BY <1>1, <1>2, <1>3, <1>4, <2>1, SessionCalm DEF StoreLate, enrVars
<1>5. CASE StoreExpiryFires
  BY <1>1, <1>2, <1>3, <1>5, SessionCalm DEF StoreExpiryFires, Goto, micVars
<1>6. CASE expiry_handler
  <2>1. Shrinks(store, store')
    BY <1>0, <1>6, StoreShrinks DEF expiry_handler
  <2> QED
    BY <1>1, <1>2, <1>3, <1>6, <2>1, SessionCalm DEF expiry_handler, Goto
<1>7. CASE audio_begin
  <2>1. /\ pc["bt"] = "idle" /\ pc' = [pc EXCEPT !["bt"] = "asked"] /\ link.st = "up"
        /\ UNCHANGED <<loc, busy, recovery, enr, timer, link, micVars>>
    BY <1>7 DEF audio_begin, Idle, Goto, authorized
  <2> QED
    BY <1>1, <1>2, <2>1, SessionCalm DEF micVars
<1>8. CASE audio_status \/ audio_cancel
  <2>1. /\ pc["bt"] = "idle" /\ pc' = pc
        /\ UNCHANGED <<loc, busy, recovery, enr, timer, link, cmd, mic, w, button>>
    BY <1>8 DEF audio_status, audio_cancel, Asked, Idle, enrVars
  <2>2. SameSession(aud, aud') /\ Shrinks(store, store')
    <3> DEFINE a == refresh_aud(aud, store)
               s == refresh_store(aud, store)
    <3>1. SameSession(aud, a) /\ Shrinks(store, s)
      BY <1>0, SessionStays, SessionShrinks
    <3>2. /\ aud' = a \/ aud' = cancel_aud(a)
          /\ store' = s \/ store' = cancel_store(a, s)
      BY <1>8 DEF audio_status, audio_cancel
    <3> HIDE DEF a, s
    <3>3. SameSession(a, cancel_aud(a)) /\ Shrinks(s, cancel_store(a, s))
      BY <3>1, SessionStays, SessionShrinks DEF SameSession, Shrinks
    <3>4. SameSession(aud, cancel_aud(a))
      BY <3>1, <3>3 DEF SameSession
    <3> QED
      BY <3>1, <3>2, <3>3, <3>4, ShrinksTwice
  <2> QED
    BY <1>2, <2>1, <2>2, SessionCalm
<1>9. CASE audio_chunk
  <2>1. /\ pc["bt"] = "idle" /\ pc' = [pc EXCEPT !["bt"] = "send"]
        /\ UNCHANGED <<loc, busy, recovery, enr, timer, link, cmd, mic, w, button>>
    BY <1>9 DEF audio_chunk, Asked, Idle, Goto, quietEnr
  <2>2. SameSession(aud, aud') /\ Shrinks(store, store')
    <3> DEFINE a == refresh_aud(aud, store)
               s == refresh_store(aud, store)
               t == PcmTake(s)
    <3>1. SameSession(aud, a) /\ Shrinks(store, s)
      BY <1>0, SessionStays, SessionShrinks
    <3>2. aud' = refresh_aud(a, t) /\ store' = refresh_store(a, t)
      BY <1>9 DEF audio_chunk
    <3> HIDE DEF a, s
    <3>3. Shrinks(s, t)
      BY <3>1, StoreShrinks DEF Shrinks
    <3> HIDE DEF t
    <3>4. SameSession(a, refresh_aud(a, t)) /\ Shrinks(t, refresh_store(a, t))
      BY <3>1, <3>3, SessionStays, SessionShrinks DEF SameSession, Shrinks
    <3>5. Shrinks(store, t)
      BY <3>1, <3>3, ShrinksTwice
    <3>6. SameSession(aud, refresh_aud(a, t))
      BY <3>1, <3>4 DEF SameSession
    <3> QED
      BY <3>2, <3>4, <3>5, <3>6, ShrinksTwice
  <2> QED
    BY <1>2, <2>1, <2>2, SessionCalm
<1>10. CASE WaitLate
  <2>1. SameSession(aud, aud')
    BY <1>0, <1>10 DEF WaitLate, SameSession, SessionTypes
  <2> QED
    BY <1>1, <1>2, <1>3, <1>10, <2>1, SessionCalm DEF WaitLate, enrVars
<1>11. CASE UNCHANGED vars
  BY <1>1, <1>2, <1>3, <1>11, SessionCalm DEF vars, enrVars, micVars
<1>12. \A r \in SUBSET {"pending", "audio", "worker"} :
         Unreferenced(r).n = link.n /\ Unreferenced(r).st = link.st /\ Unreferenced(r).refs = r
  BY <1>0 DEF Unreferenced, LinkTypes
<1>13. disconnected_refs(aud) \in SUBSET {"pending", "audio", "worker"}
  BY LinkMoves DEF disconnected_refs
<1>14. CASE audio_sent
  <2>1. /\ pc["bt"] = "send" /\ pc' = [pc EXCEPT !["bt"] = "idle"]
        /\ UNCHANGED <<loc, busy, recovery, enr, timer>>
    BY <1>14 DEF audio_sent, Goto, quietEnr
  <2>2. CASE UNCHANGED <<link, faults, micVars>>
    BY <1>1, <1>2, <2>1, <2>2, SessionCalm DEF micVars, Claimed
  <2>3. CASE LoseConn /\ link' = Unreferenced(disconnected_refs(aud))
    BY <1>12, <1>13, <2>1, <2>3, LoseMic DEF OnTheLine
  <2> QED
    BY <1>14, <2>2, <2>3 DEF audio_sent
<1>15. CASE audio_revoked
  <2>1. /\ pc["bt"] = "idle" /\ pc' = pc /\ LoseConn /\ link' = Unreferenced(disconnected_refs(aud))
        /\ UNCHANGED <<loc, busy, recovery, enr, timer>>
    BY <1>15 DEF audio_revoked, Asked, Idle, quietEnr
  <2> QED
    BY <1>12, <1>13, <2>1, LoseMic DEF OnTheLine
<1>16. CASE disconnected
  <2>1. /\ pc["bt"] = "idle" /\ link.st \in {"up", "dropping"} /\ LoseConn
        /\ link' = [link EXCEPT !.st = "down", !.refs = disconnected_refs(aud)]
        /\ UNCHANGED <<busy, recovery, timer>>
    BY <1>16 DEF disconnected, Idle
  <2>2. link'.n = link.n /\ link'.st = "down" /\ link'.refs = disconnected_refs(aud)
    BY <1>0, <2>1 DEF LinkTypes
  <2>3. \/ UNCHANGED <<pc, loc, enr>>
        \/ /\ enr' = detach_enrollment_locked /\ pc' = [pc EXCEPT !["bt"] = "release"]
           /\ loc' = [loc EXCEPT !["bt"] = [NoLocals EXCEPT !.held = enr.pending # 0]]
    BY <1>16 DEF disconnected, Goto
  <2>4. enr'.pending \in {0, enr.pending} /\ (enr'.open => enr.open) /\ enr'.n = enr.n
    BY <1>0, <2>3, DetachTyped
  <2>5. pc'["bt"] \notin OnTheLine /\ (pc' = pc \/ pc' = [pc EXCEPT !["bt"] = "release"])
        /\ pc["bt"] \notin OnTheLine
    BY <1>0, <2>1, <2>3 DEF OnTheLine, EnrollInv, EnrollmentTypes
  <2>6. \A u \in Threads : u # "bt" => loc'[u] = loc[u]
    BY <1>0, <2>3
  <2> QED
    BY <2>1, <2>2, <2>4, <2>5, <2>6, LoseMic
<1> QED
  BY <1>4, <1>5, <1>6, <1>7, <1>8, <1>9, <1>10, <1>11, <1>14, <1>15, <1>16

-----------------------------------------------------------------------------
(* The admission.                                                          *)

(* Who holds busy holds it alone.                                          *)
LEMMA OnlyHolder ==
  ASSUME BusyExact, NEW g \in Parties, Holds(g)
  PROVE  busy # 0 /\ w.job <= MaxJobs /\ \A h \in Parties : h # g => ~Holds(h)
BY DEF BusyExact

(* busy is passed on, or freed.                                            *)
LEMMA BusyPasses ==
  ASSUME NEW g \in Parties, \A h \in Parties : Holds(h)' <=> h = g, busy' # 0,
         w'.job <= MaxJobs, g = "sem" => w'.job < MaxJobs, g \in Requesters => Asks(g)'
  PROVE  BusyExact'
<1>1. /\ busy' # 0 <=> \E h \in Parties : Holds(h)'
      /\ \A h, k \in Parties : Holds(h)' /\ Holds(k)' => h = k
  OBVIOUS
<1>2. \A t \in Requesters : pc'[t] \in Claimed => t = g
  BY DEF Holds, Parties, Requesters
<1>3. cmd'.sem => g = "sem"
  BY DEF Holds, Parties
<1> QED
  BY <1>1, <1>2, <1>3 DEF BusyExact

(* busy is clear once nobody holds it (mic_commands.c, release).           *)
LEMMA BusyFreed ==
  ASSUME \A h \in Parties : ~Holds(h)', busy' = 0, w'.job <= MaxJobs
  PROVE  BusyExact'
<1>1. \A t \in Requesters : pc'[t] \notin Claimed
  BY DEF Holds, Parties, Requesters
<1>2. ~cmd'.sem
  BY DEF Holds, Parties
<1> QED
  BY <1>1, <1>2 DEF BusyExact

(* A thread goes on with its request; busy and its locals may change.      *)
LEMMA RequestKeeps ==
  ASSUME EnrollInv, MicInv, UNCHANGED <<recovery, enr, timer, link, micVars>>,
         NEW t \in Requesters, NEW l \in {"idle", "claimed", "check"},
         pc' = [pc EXCEPT ![t] = l], pc[t] \in {"idle", "asked", "claimed", "check"},
         t = "bt" => pc[t] \in OnTheLine, l = "check" => ~recovery,
         busy' \in 0..2, BusyExact'
  PROVE  MicInv'
<1>0. /\ MicTypes /\ Bounded /\ Connected /\ Exclusion /\ Peripheral /\ Tapped
      /\ pc \in [Threads -> AllLabels] /\ {"shell", "bt", "mic", "button"} \subseteq Threads
  BY DEF MicInv, EnrollInv, EnrollmentTypes, Threads
<1>1. /\ t \in Threads /\ pc'[t] = l /\ pc'["mic"] = pc["mic"]
      /\ \A u \in Threads : u # t => pc'[u] = pc[u]
  BY <1>0 DEF Requesters, Threads
<1>b. pc'["button"] \in Replacing <=> pc["button"] \in Replacing
  BY <1>0, <1>1 DEF Replacing
<1>2. cmd' = cmd /\ aud' = aud /\ mic' = mic /\ store' = store /\ w' = w /\ button' = button
  BY DEF micVars
<1>3. MicTypes' /\ Bounded'
  BY <1>0, <1>b, <1>2 DEF MicTypes, Bounded
<1>4. Connected'
  <2>1. LinkCalm
    BY DEF LinkCalm
  <2>2. pc'["bt"] \in OnTheLine => pc["bt"] \in OnTheLine
    BY <1>0, <1>1
  <2> QED
    BY <1>0, <1>2, <2>1, <2>2, ConnectedKeeps2
<1>5. Exclusion'
  <2>1. (Job' <=> Job) /\ (Window' <=> Window)
    BY <1>1, <1>2, <1>b DEF Job, Window
  <2>2. \/ pc'["shell"] = pc["shell"]
        \/ pc["shell"] \notin Restarting /\ pc'["shell"] \notin Restarting
    BY <1>0, <1>1 DEF Restarting
  <2>3. \A u \in Requesters : pc'[u] = "check" => pc[u] = "check" \/ ~recovery
    BY <1>1 DEF Requesters, Threads
  <2> QED
    BY <1>0, <2>1, <2>2, <2>3, ExclusionKeeps
<1>6. Peripheral' /\ Tapped'
  BY <1>0, <1>1, <1>2, PeripheralKeeps, TappedKeeps
<1> QED
  BY <1>3, <1>4, <1>5, <1>6 DEF MicInv

(* The compare-and-swap.                                                   *)
LEMMA ClaimMic ==
  ASSUME EnrollInv, MicInv, NEW t \in Requesters, NEW m \in Modes, Claim(t, m)
  PROVE  MicInv'
<1>0. /\ BusyExact /\ MicTypes /\ pc \in [Threads -> AllLabels]
      /\ loc \in [Threads -> LocalTypes] /\ Requesters \subseteq Threads /\ "mic" \in Threads
      /\ "mic" \notin Requesters
  BY DEF MicInv, EnrollInv, EnrollmentTypes, Threads, Requesters
<1>1. /\ UNCHANGED <<recovery, enr, timer, link, micVars>> /\ t \in Claimants(m)
      /\ pc[t] \in {"idle", "asked"}
      /\ t = "bt" => pc[t] = "asked"
  BY DEF Claim, Claimants
<1>2. CASE busy = 0 /\ (m = "BLE" => ~aud.active) /\ (m # "EXTERNAL" => w.job < MaxJobs)
  <2>1. /\ busy' \in {1, 2} /\ pc' = [pc EXCEPT ![t] = "claimed"]
        /\ loc' = [loc EXCEPT ![t].mode = m]
    BY <1>2 DEF Claim, Goto
  <2>2. \A h \in Parties : ~Holds(h)
    BY <1>0, <1>2 DEF BusyExact
  <2>3. /\ pc'[t] = "claimed" /\ \A u \in Threads : u # t => pc'[u] = pc[u]
    BY <1>0, <2>1
  <2>4. loc'[t].mode = m
    BY <1>0, <2>1 DEF LocalTypes
  <2>5. cmd' = cmd /\ w' = w
    BY <1>1 DEF micVars
  <2>6. t \in Parties /\ \A h \in Parties : Holds(h)' <=> h = t
    <3>1. t \in Parties
      BY DEF Parties, Requesters
    <3>2. Holds(t)'
      BY <2>3 DEF Holds, Claimed
    <3>3. \A h \in Parties : h # t => (Holds(h)' <=> Holds(h))
      BY <1>0, <2>3, <2>5 DEF Holds
    <3> QED
      BY <2>2, <3>1, <3>2, <3>3
  <2>7. BusyExact'
    <3>1. w'.job <= MaxJobs /\ busy' # 0
      BY <1>0, <2>1, <2>5 DEF BusyExact
    <3>2. Asks(t)' /\ t # "sem"
      BY <1>1, <1>2, <2>4, <2>5 DEF Asks, Requesters
    <3> QED
      BY <2>6, <3>1, <3>2, BusyPasses
  <2>8. busy' \in 0..2
    BY <2>1
  <2> QED
    BY <1>1, <2>1, <2>7, <2>8, RequestKeeps DEF OnTheLine
<1>3. CASE ~(busy = 0 /\ (m = "BLE" => ~aud.active) /\ (m # "EXTERNAL" => w.job < MaxJobs))
  <2>1. /\ pc' = [pc EXCEPT ![t] = "idle"] /\ UNCHANGED <<busy, loc>>
    BY <1>3 DEF Claim, Goto
  <2>2. pc'[t] = "idle" /\ \A u \in Threads : u # t => pc'[u] = pc[u]
    BY <1>0, <2>1
  <2>3. cmd' = cmd /\ w' = w
    BY <1>1 DEF micVars
  <2>4. BusyExact'
    <3>1. /\ (pc'["mic"] # "idle") <=> (pc["mic"] # "idle")
          /\ \A u \in Requesters :
               \/ pc'[u] \notin Claimed /\ pc[u] \notin Claimed
               \/ pc'[u] \in Claimed /\ pc[u] \in Claimed /\ loc'[u].mode = loc[u].mode
      BY <1>0, <1>1, <2>1, <2>2 DEF Claimed
    <3> QED
      BY <1>0, <2>1, <2>3, <3>1, BusyKeeps
  <2>5. busy' \in 0..2
    BY <1>0, <2>1 DEF MicTypes
  <2> QED
    BY <1>1, <2>1, <2>4, <2>5, RequestKeeps DEF OnTheLine
<1> QED
  BY <1>2, <1>3

(* The look at the restart.                                                *)
LEMMA CheckMic ==
  ASSUME EnrollInv, MicInv, NEW t \in Requesters, CheckRecovery(t)
  PROVE  MicInv'
<1>0. /\ BusyExact /\ MicTypes /\ pc \in [Threads -> AllLabels]
      /\ Requesters \subseteq Threads /\ "mic" \in Threads \ Requesters /\ t \in Parties
  BY DEF MicInv, EnrollInv, EnrollmentTypes, Threads, Parties, Requesters
<1>1. /\ UNCHANGED <<loc, recovery, enr, timer, link, micVars>> /\ pc[t] = "claimed"
  BY DEF CheckRecovery
<1>2. cmd' = cmd /\ w' = w
  BY <1>1 DEF micVars
<1>3. Holds(t)
  BY <1>1 DEF Holds, Claimed
<1>4. w.job <= MaxJobs /\ \A h \in Parties : h # t => ~Holds(h)
  BY <1>0, <1>3, OnlyHolder
<1>5. CASE recovery
  <2>1. busy' = 0 /\ pc' = [pc EXCEPT ![t] = "idle"]
    BY <1>5 DEF CheckRecovery, Goto
  <2>2. pc'[t] = "idle" /\ \A u \in Threads : u # t => pc'[u] = pc[u]
    BY <1>0, <2>1
  <2>3. \A h \in Parties : ~Holds(h)'
    BY <1>0, <1>2, <1>4, <2>2 DEF Holds, Claimed, Parties, Requesters
  <2>4. BusyExact'
    BY <1>2, <1>4, <2>1, <2>3, BusyFreed
  <2>5. busy' \in 0..2
    BY <2>1
  <2> QED
    BY <1>1, <2>1, <2>4, <2>5, RequestKeeps DEF OnTheLine
<1>6. CASE ~recovery
  <2>1. busy' = busy /\ pc' = [pc EXCEPT ![t] = "check"]
    BY <1>6 DEF CheckRecovery, Goto
  <2>2. pc'[t] = "check" /\ \A u \in Threads : u # t => pc'[u] = pc[u]
    BY <1>0, <2>1
  <2>3. BusyExact'
    <3>1. /\ (pc'["mic"] # "idle") <=> (pc["mic"] # "idle")
          /\ \A u \in Requesters :
               \/ pc'[u] \notin Claimed /\ pc[u] \notin Claimed
               \/ pc'[u] \in Claimed /\ pc[u] \in Claimed /\ loc'[u].mode = loc[u].mode
      BY <1>0, <1>1, <2>2 DEF Claimed
    <3> QED
      BY <1>0, <1>2, <2>1, <3>1, BusyKeeps
  <2>4. busy' \in 0..2
    BY <1>0, <2>1 DEF MicTypes
  <2> QED
    BY <1>1, <1>6, <2>1, <2>3, <2>4, RequestKeeps DEF OnTheLine
<1> QED
  BY <1>5, <1>6

(* The last look, at the window, and what follows: the job is handed to    *)
(* the worker, the reservation kept, or busy freed.                        *)
LEMMA CommitMic ==
  ASSUME EnrollInv, MicInv, NEW t \in Requesters, Commit(t)
  PROVE  MicInv'
<1> DEFINE m == loc[t].mode
           sampling == m \in {"POWER", "STATS", "RECORD", "BLE"}
<1>0. /\ BusyExact /\ MicTypes /\ Bounded /\ Connected /\ Exclusion /\ Peripheral /\ Tapped
      /\ pc \in [Threads -> AllLabels] /\ loc \in [Threads -> LocalTypes] /\ link \in LinkTypes
      /\ Requesters \subseteq Threads /\ "mic" \in Threads \ Requesters
      /\ {"shell", "bt", "button"} \subseteq Requesters /\ t \in Parties /\ ClosingExact
  BY DEF MicInv, EnrollInv, EnrollmentTypes, Threads, Parties, Requesters
<1>1. /\ pc[t] = "check" /\ pc' = [pc EXCEPT ![t] = "idle"]
      /\ loc' = [loc EXCEPT ![t].mode = "none"]
      /\ UNCHANGED <<recovery, enr, timer, sec, mic, store, w, button>>
  BY DEF Commit, Goto
<1>2. pc'[t] = "idle" /\ \A u \in Threads : u # t => pc'[u] = pc[u]
  BY <1>0, <1>1
<1>3. Holds(t)
  BY <1>1 DEF Holds, Claimed
<1>4. busy # 0 /\ w.job <= MaxJobs /\ \A h \in Parties : h # t => ~Holds(h)
  BY <1>0, <1>3, OnlyHolder
<1>5. ~cmd.sem /\ ~cmd.held /\ pc["mic"] = "idle" /\ pc'["mic"] = "idle" /\ ~Job
  BY <1>0, <1>2, <1>4 DEF Holds, Parties, Job, Requesters
<1>6. \A h \in Requesters : ~Holds(h)' /\ pc'[h] \notin Claimed
  <2>1. \A h \in Requesters : pc'[h] \notin Claimed
    BY <1>0, <1>2, <1>4 DEF Holds, Parties, Claimed, Requesters
  <2> QED
    BY <2>1 DEF Holds, Requesters
<1>7. /\ m \in Modes /\ (m # "EXTERNAL" => w.job < MaxJobs)
      /\ m = "BLE" => t = "bt"
      /\ m = "BLE" \/ m \in {"POWER", "STATS", "RECORD", "ARM_STATS", "ARM_RECORD", "EXTERNAL"}
  <2>1. Asks(t)
    BY <1>0, <1>1 DEF BusyExact, Claimed
  <2> QED
    BY <2>1, ModesAssumption DEF Asks, Claimants
<1>8. Peripheral'
  BY <1>0, <1>1, <1>5, PeripheralKeeps
<1>9. /\ pc'["button"] \in Replacing <=> pc["button"] \in Replacing
      /\ (Window' <=> Window)                        \* the window is where it was
  BY <1>0, <1>1, <1>2 DEF Window, Replacing
<1>10. /\ \/ pc'["shell"] = pc["shell"]
          \/ pc["shell"] \notin Restarting /\ pc'["shell"] \notin Restarting
       /\ pc'["bt"] \in OnTheLine => pc["bt"] \in OnTheLine
  BY <1>0, <1>1, <1>2 DEF Restarting, OnTheLine
<1>11. ~Live(store)
  BY <1>0, <1>5 DEF Tapped, Clip
<1>12. /\ w.gate = NoGate /\ w.gate.phase = 0
  BY <1>0, <1>5 DEF Tapped, Tapping, NoGate
<1> HIDE DEF m, sampling
<1>13. CASE Refused(m)
  <2>1. busy' = 0 /\ UNCHANGED <<cmd, aud, link>>
    BY <1>13 DEF Commit, m
  <2>2. \A h \in Parties : ~Holds(h)'
    BY <1>5, <1>6, <2>1 DEF Holds
  <2>3. BusyExact'
    BY <1>1, <1>4, <2>1, <2>2, BusyFreed
  <2>4. busy' \in 0..2 /\ UNCHANGED micVars
    BY <1>1, <2>1 DEF micVars
  <2>5. t = "bt" => pc[t] \in OnTheLine
    BY <1>1 DEF OnTheLine
  <2> QED
    BY <1>1, <2>1, <2>3, <2>4, <2>5, RequestKeeps
<1>14. CASE ~Refused(m)
  <2> DEFINE arms == m \in {"ARM_STATS", "ARM_RECORD"}
  <2>1. /\ busy' = IF arms THEN 0 ELSE busy
        /\ cmd'.armed \in 0..2 /\ cmd' \in CommandTypes
        /\ cmd'.mode = IF sampling THEN m ELSE cmd.mode
        /\ cmd'.sem <=> sampling
        /\ cmd'.held <=> m = "EXTERNAL"
    <3>1. /\ busy' = IF arms THEN 0 ELSE busy
          /\ cmd' = [armed |-> IF m = "ARM_STATS" THEN 1 ELSE IF m = "ARM_RECORD" THEN 2
                               ELSE IF sampling THEN 0 ELSE cmd.armed,
                     rail |-> cmd.rail /\ m # "POWER",
                     mode |-> IF sampling THEN m ELSE cmd.mode,
                     sem |-> cmd.sem \/ sampling,
                     held |-> cmd.held \/ m = "EXTERNAL"]
      BY <1>14 DEF Commit, m, sampling
    <3>2. cmd.armed \in 0..2 /\ cmd.rail \in BOOLEAN /\ cmd.mode \in ModeNames /\ m \in ModeNames
      BY <1>0, <1>7 DEF MicTypes, CommandTypes, ModeNames
    <3>3. /\ cmd'.armed = (IF m = "ARM_STATS" THEN 1 ELSE IF m = "ARM_RECORD" THEN 2
                           ELSE IF sampling THEN 0 ELSE cmd.armed)
          /\ cmd'.rail = (cmd.rail /\ m # "POWER")
          /\ cmd'.mode = (IF sampling THEN m ELSE cmd.mode)
          /\ cmd'.sem = (cmd.sem \/ sampling) /\ cmd'.held = (cmd.held \/ m = "EXTERNAL")
      BY <3>1
    <3>4. /\ cmd'.armed \in 0..2 /\ cmd'.rail \in BOOLEAN /\ cmd'.mode \in ModeNames
          /\ cmd'.sem \in BOOLEAN /\ cmd'.held \in BOOLEAN
      BY <3>2, <3>3 DEF sampling
    <3>5. cmd' \in CommandTypes
      BY <3>1, <3>3, <3>4 DEF CommandTypes
    <3> QED
      BY <1>5, <3>1, <3>3, <3>4, <3>5
  <2>2. sampling <=> m \in {"POWER", "STATS", "RECORD", "BLE"}
    BY DEF sampling
  <2>3. BusyExact'
    <3>1. CASE arms
      <4>1. ~cmd'.sem /\ ~cmd'.held /\ busy' = 0
        BY <2>1, <2>2, <3>1
      <4>2. \A h \in Parties : ~Holds(h)'
        BY <1>5, <1>6, <4>1 DEF Holds
      <4> QED
        BY <1>1, <1>4, <4>1, <4>2, BusyFreed
    <3>2. CASE sampling
      <4>1. cmd'.sem /\ ~cmd'.held /\ busy' # 0
        BY <1>4, <2>1, <2>2, <3>2
      <4>2. "sem" \in Parties /\ "sem" \notin Requesters /\ \A h \in Parties : Holds(h)' <=> h = "sem"
        BY <1>5, <1>6, <4>1 DEF Holds, Parties, Requesters
      <4> QED
        BY <1>1, <1>4, <1>7, <2>2, <3>2, <4>1, <4>2, BusyPasses
    <3>3. CASE m = "EXTERNAL"
      <4>1. ~cmd'.sem /\ cmd'.held /\ busy' # 0
        BY <1>4, <2>1, <2>2, <3>3
      <4>2. "held" \in Parties /\ "held" \notin Requesters /\ \A h \in Parties : Holds(h)' <=> h = "held"
        BY <1>5, <1>6, <4>1 DEF Holds, Parties, Requesters
      <4> QED
        BY <1>1, <1>4, <1>7, <4>1, <4>2, BusyPasses
    <3> QED
      BY <1>7, <2>2, <3>1, <3>2, <3>3
  <2>4. Exclusion'
    <3>1. ~pairing_busy
      BY <1>14 DEF Refused
    <3>2. ~Window
      BY <1>0, <3>1 DEF pairing_busy, Window, ClosingExact, Closing
    <3>3. ~SawIdle
      BY <1>0, <1>1 DEF Exclusion
    <3>4. ~SawIdle' /\ ~SawClosed' /\ (pc'["shell"] \in Restarting => recovery')
      BY <1>0, <1>1, <1>10, <3>3 DEF Exclusion, SawIdle, SawClosed, Restarting
    <3> QED
      BY <1>9, <3>2, <3>4 DEF Exclusion
  <2>5. busy' \in 0..2
    BY <1>0, <2>1 DEF MicTypes
  <2>6. CASE m = "BLE"
    <3>1. /\ aud' = [NoSession EXCEPT !.owner = link.n, !.st = "WAITING",
                                      !.active = TRUE, !.tap = IF button = 0 THEN 1 ELSE 0]
          /\ link' = Unreferenced(link.refs \cup {"audio"})
      BY <1>14, <2>6 DEF Commit, m
    <3>2. /\ aud' \in SessionTypes /\ aud'.owner = link.n /\ aud'.active
          /\ aud'.tap = IF button = 0 THEN 1 ELSE 0
      <4>1. \A n \in Nat, k \in {0, 1} :
              LET a == [NoSession EXCEPT !.owner = n, !.st = "WAITING", !.active = TRUE, !.tap = k]
              IN a \in SessionTypes /\ a.owner = n /\ a.active /\ a.tap = k
        <5> SUFFICES ASSUME NEW n \in Nat, NEW k \in {0, 1}
                     PROVE  LET a == [NoSession EXCEPT !.owner = n, !.st = "WAITING",
                                                       !.active = TRUE, !.tap = k]
                            IN a \in SessionTypes /\ a.owner = n /\ a.active /\ a.tap = k
          OBVIOUS
        <5> DEFINE a == [NoSession EXCEPT !.owner = n, !.st = "WAITING", !.active = TRUE, !.tap = k]
        <5>1. k \in 0..3 /\ 0 \in 0..3
          OBVIOUS
        <5>2. NoSession \in SessionTypes
          BY <5>1 DEF NoSession, SessionTypes
        <5>3. a \in SessionTypes /\ a.owner = n /\ a.active /\ a.tap = k
          BY <5>1, <5>2 DEF SessionTypes
        <5> QED
          BY <5>3
      <4>2. link.n \in Nat /\ (IF button = 0 THEN 1 ELSE 0) \in {0, 1}
        BY <1>0 DEF LinkTypes
      <4> QED
        BY <3>1, <4>1, <4>2
    <3>3. /\ link'.n = link.n /\ link'.st = link.st /\ link'.refs = link.refs \cup {"audio"}
      BY <1>0, <3>1 DEF Unreferenced, LinkTypes
    <3>4. link.st \in {"up", "dropping"} /\ link.n > 0 /\ link.n # 0
      BY <1>0, <1>1, <1>7, <2>6 DEF Connected, OnTheLine, LinkTypes
    <3>5. MicTypes' /\ Bounded'
      BY <1>0, <1>1, <1>9, <2>1, <2>5, <3>2, <3>3 DEF MicTypes, Bounded
    <3>6. Connected'
      BY <1>0, <1>1, <1>10, <3>2, <3>3, <3>4 DEF Connected
    <3>7. Tapped'
      <4>1. button \in {0, 1}
        BY <1>0 DEF MicTypes
      <4>2. /\ aud'.tap < 3 => ((button = 1) <=> aud'.tap \in {0, 2})
            /\ 0 <= aud'.tap
        BY <3>2, <4>1
      <4> QED
        BY <1>1, <1>5, <1>11, <1>12, <4>2 DEF Tapped, Tapping, Capturing, Aired
    <3> QED
      BY <1>8, <2>3, <2>4, <3>5, <3>6, <3>7 DEF MicInv
  <2>7. CASE m # "BLE"
    <3>1. aud' = aud /\ link' = link
      BY <1>14, <2>7 DEF Commit, m
    <3>2. MicTypes' /\ Bounded'
      BY <1>0, <1>1, <1>9, <2>1, <2>5, <3>1 DEF MicTypes, Bounded
    <3>3. Connected'
      BY <1>0, <1>1, <1>10, <2>1, <2>7, <3>1 DEF Connected
    <3>4. Tapped'
      BY <1>0, <1>1, <1>5, <3>1, TappedKeeps
    <3> QED
      BY <1>8, <2>3, <2>4, <3>2, <3>3, <3>4 DEF MicInv
  <2> QED
    BY <2>6, <2>7
<1> QED
  BY <1>13, <1>14

-----------------------------------------------------------------------------
(* The worker.                                                             *)

(* Only the worker moves.                                                  *)
LEMMA WorkerMoves ==
  ASSUME EnrollInv, NEW l, pc' = [pc EXCEPT !["mic"] = l]
  PROVE  /\ pc'["mic"] = l /\ pc'["shell"] = pc["shell"] /\ pc'["bt"] = pc["bt"]
         /\ pc'["button"] = pc["button"] /\ \A u \in Requesters : pc'[u] = pc[u]
BY DEF EnrollInv, EnrollmentTypes, Threads, Requesters

(* What is left to show of a step of the worker.                           *)
LEMMA WorkerKeeps ==
  ASSUME EnrollInv, MicInv, NEW l, pc' = [pc EXCEPT !["mic"] = l],
         UNCHANGED <<recovery, enr, timer, button>>, link'.n = link.n,
         busy' \in 0..2, cmd' \in CommandTypes, mic' \in PeripheralTypes, GoodStore(store'),
         aud' \in SessionTypes, w' \in JobTypes, Job' => Job,
         Connected', BusyExact', Peripheral', Tapped'
  PROVE  MicInv'
<1>0. MicTypes /\ Bounded /\ Exclusion
  BY DEF MicInv
<1>1. /\ pc'["mic"] = l /\ pc'["shell"] = pc["shell"] /\ pc'["bt"] = pc["bt"]
      /\ pc'["button"] = pc["button"] /\ \A u \in Requesters : pc'[u] = pc[u]
  BY WorkerMoves
<1>2. MicTypes' /\ Bounded'
  BY <1>0, <1>1 DEF MicTypes, Bounded
<1>3. Exclusion'
  <2>1. Window' => Window
    BY <1>1 DEF Window
  <2> QED
    BY <1>0, <1>1, <2>1, ExclusionKeeps
<1> QED
  BY <1>2, <1>3 DEF MicInv

(* The worker goes on with its job, and the link is left alone.            *)
LEMMA WorkerWorks ==
  ASSUME EnrollInv, MicInv, NEW l, l # "idle", pc["mic"] # "idle", pc' = [pc EXCEPT !["mic"] = l],
         UNCHANGED <<loc, busy, recovery, enr, timer, link, button>>,
         cmd' \in CommandTypes, cmd'.sem <=> cmd.sem, cmd'.held <=> cmd.held, cmd'.mode = cmd.mode,
         mic' \in PeripheralTypes, GoodStore(store'), SameSession(aud, aud'),
         w' \in JobTypes, w'.job = w.job, Peripheral', Tapped'
  PROVE  MicInv'
<1>0. MicTypes /\ Connected /\ BusyExact
  BY DEF MicInv
<1>1. /\ pc'["mic"] = l /\ pc'["shell"] = pc["shell"] /\ pc'["bt"] = pc["bt"]
      /\ \A u \in Requesters : pc'[u] = pc[u]
  BY WorkerMoves
<1>2. BusyExact'
  BY <1>0, <1>1, BusyKeeps
<1>3. Connected'
  <2>1. LinkCalm
    BY DEF LinkCalm
  <2> QED
    BY <1>0, <1>1, <2>1, ConnectedKeeps2 DEF SameSession
<1>4. Job' => Job
  BY DEF Job
<1>5. busy' \in 0..2 /\ aud' \in SessionTypes
  BY <1>0 DEF MicTypes, SameSession
<1> QED
  BY <1>2, <1>3, <1>4, <1>5, WorkerKeeps

(* Once the tap was waited for, the gate is back at the beginning.         *)
LEMMA TappedWorks ==
  ASSUME EnrollInv, MicInv, NEW l, pc' = [pc EXCEPT !["mic"] = l],
         pc["mic"] \notin Tapping, l \notin Tapping \cup {"auth1", "lock1"},
         button' = button, w'.gate = w.gate, w'.mode = w.mode, SameSession(aud, aud'),
         l \in Capturing /\ w.mode = "BLE" => aud.tap = 3, l \in Aired => w.mode = "BLE",
         l \in Aired \cup Capturing => pc["mic"] \in Aired \cup Capturing,
         Live(store)' => l \in Clip /\ Retains,
         Live(store)' /\ store'.for # 0 => w.mode = "BLE" /\ aud.tap = 3,
         l = "export" => store'.st # "CAPTURING"
  PROVE  Tapped'
<1>0. /\ aud.active /\ aud.tap < 3 => ((button = 1) <=> aud.tap \in {0, 2})
      /\ w.gate.phase <= aud.tap /\ w.gate = NoGate
      /\ pc["mic"] \in Aired \cup Capturing /\ w.mode = "BLE" => aud.active
  BY DEF MicInv, Tapped
<1>1. pc'["mic"] = l
  BY WorkerMoves
<1>2. aud'.tap = aud.tap /\ (aud'.active <=> aud.active)
  BY DEF SameSession
<1>3. Retains' <=> Retains
  BY DEF Retains
<1> QED
  BY <1>0, <1>1, <1>2, <1>3 DEF Tapped

(* The worker's locals.                                                    *)
LEMMA JobTyped ==
  ASSUME w \in JobTypes, NEW e \in {"ok", "io", "timeout", "cancel"}, NEW b \in BOOLEAN
  PROVE  /\ [w EXCEPT !.err = e] \in JobTypes /\ [w EXCEPT !.err = e].err = e
         /\ [w EXCEPT !.err = e].gate = w.gate /\ [w EXCEPT !.err = e].mode = w.mode
         /\ [w EXCEPT !.err = e].job = w.job
         /\ [w EXCEPT !.auth = b] \in JobTypes /\ [w EXCEPT !.auth = b].err = w.err
         /\ [w EXCEPT !.auth = b].gate = w.gate /\ [w EXCEPT !.auth = b].mode = w.mode
         /\ [w EXCEPT !.auth = b].job = w.job
BY DEF JobTypes

(* Prepare: an empty store, begun for the session that was tapped.         *)
LEMMA PrepareMic == ASSUME EnrollInv, MicInv, Prepare PROVE MicInv'
<1>0. /\ MicTypes /\ Peripheral /\ Tapped /\ w \in JobTypes /\ GoodStore(store) /\ aud \in SessionTypes
      /\ cmd \in CommandTypes /\ mic \in PeripheralTypes
  BY DEF MicInv, MicTypes
<1>1. /\ pc["mic"] = "prepare" /\ UNCHANGED <<loc, busy, recovery, enr, timer, link, cmd, mic, aud, button>>
      /\ store' = IF Retains THEN PcmBegin(store, IF w.mode = "BLE" THEN aud.owner ELSE 0)
                             ELSE Scrub(store)
  BY DEF Prepare, Worker, quietEnr
<1>2. PICK l \in {"start", "after"} : pc' = [pc EXCEPT !["mic"] = l]
  BY DEF Prepare, Goto
<1>3. w' = w \/ w' = [w EXCEPT !.err = "io"]
  BY DEF Prepare
<1>4. w' \in JobTypes /\ w'.job = w.job /\ w'.gate = w.gate /\ w'.mode = w.mode
  BY <1>0, <1>3, JobTyped
<1>5. w.mode = "BLE" => aud.tap = 3
  BY <1>0, <1>1 DEF Tapped, Capturing
<1>6. /\ GoodStore(store') /\ store'.st # "READY"
      /\ Live(store') => Retains
      /\ Live(store') /\ store'.for # 0 => w.mode = "BLE" /\ aud.tap = 3
  <2>1. CASE Retains
    <3> DEFINE n == IF w.mode = "BLE" THEN aud.owner ELSE 0
    <3>1. n \in Nat /\ (n # 0 => w.mode = "BLE")
      BY <1>0 DEF SessionTypes
    <3>2. store' = PcmBegin(store, n)
      BY <1>1, <2>1
    <3> HIDE DEF n
    <3> QED
      BY <1>0, <1>5, <2>1, <3>1, <3>2, BeginTyped
  <2>2. CASE ~Retains
    <3>1. store' = Scrub(store) /\ Shrinks(store, store') /\ store'.st = "EMPTY"
      BY <1>0, <1>1, <2>2, StoreShrinks, WipeFields DEF Scrub, GoodStore
    <3> QED
      BY <3>1 DEF Shrinks, Live
  <2> QED
    BY <2>1, <2>2
<1>7. pc'["mic"] = l
  BY <1>2, WorkerMoves
<1>8. Peripheral'
  <2>1. Quiet' /\ Quiet
    BY <1>0, <1>1 DEF Peripheral, Quiet
  <2> QED
    BY <1>6, <1>7, <2>1 DEF Peripheral
<1>9. Tapped'
  <2>1. /\ l \notin Tapping \cup {"auth1", "lock1"} /\ l \in Clip /\ l # "export"
        /\ pc["mic"] \notin Tapping /\ l \notin Aired /\ pc["mic"] \in Aired \cup Capturing
    BY <1>1 DEF Tapping, Clip, Aired, Capturing
  <2>2. SameSession(aud, aud')
    BY <1>0, <1>1 DEF SameSession
  <2> QED
    BY <1>1, <1>2, <1>4, <1>5, <1>6, <2>1, <2>2, TappedWorks
<1>10. SameSession(aud, aud')
  BY <1>0, <1>1 DEF SameSession
<1> QED
  BY <1>0, <1>1, <1>2, <1>4, <1>6, <1>8, <1>9, <1>10, WorkerWorks

(* Start, the blocks, the end of the capture and the cleanup.              *)
LEMMA CaptureMic ==
  ASSUME EnrollInv, MicInv, Start \/ Block \/ CaptureEnds \/ stop_and_scrub
  PROVE  MicInv'
<1>0. /\ MicTypes /\ Peripheral /\ Tapped /\ w \in JobTypes /\ GoodStore(store) /\ aud \in SessionTypes
      /\ cmd \in CommandTypes /\ mic \in PeripheralTypes
  BY DEF MicInv, MicTypes
<1>1. /\ pc["mic"] \in {"start", "running", "cleanup"}
      /\ UNCHANGED <<loc, busy, recovery, enr, timer, link, cmd, aud, button>>
  BY DEF Start, Block, CaptureEnds, stop_and_scrub, Worker, quietEnr
<1>2. PICK l \in {"running", "cleanup", "after"} : pc' = [pc EXCEPT !["mic"] = l]
  BY DEF Start, Block, CaptureEnds, stop_and_scrub, Goto
<1>p. \A k : pc' = [pc EXCEPT !["mic"] = k] => l = k
  BY <1>2 DEF EnrollInv, EnrollmentTypes, Threads
<1>3. w' \in JobTypes /\ w'.job = w.job /\ w'.gate = w.gate /\ w'.mode = w.mode
  <2>1. w' = w \/ \E e \in {"ok", "io", "timeout", "cancel"} : w' = [w EXCEPT !.err = e]
    <3>1. w.err \in {"ok", "io", "timeout", "cancel"}
      BY <1>0 DEF JobTypes
    <3> QED
      BY <3>1 DEF Start, Block, CaptureEnds, stop_and_scrub
  <2> QED
    BY <1>0, <2>1, JobTyped
<1>4. Shrinks(store, store')
  <2>1. store' = store \/ store' = PcmAppend(store)
    BY DEF Start, Block, CaptureEnds, stop_and_scrub
  <2> QED
    BY <1>0, <2>1, StoreShrinks
<1>5. /\ mic' \in PeripheralTypes /\ (l \in {"running", "cleanup"} => ~mic'.fault)
      /\ l = "after" => Quiet' \/ mic'.fault
  <2>1. ~mic.fault
    BY <1>0, <1>1 DEF Peripheral, Quiet
  <2>2. CASE Start
    <3>1. l \in {"running", "cleanup"}
      BY <1>p, <2>2 DEF Start, Goto
    <3>2. \/ mic' = mic
          \/ \E a, b \in BOOLEAN : mic' = [mic EXCEPT !.powered = TRUE, !.stopped = a, !.scrubbed = b]
      BY <2>2 DEF Start
    <3> QED
      BY <1>0, <2>1, <3>1, <3>2 DEF PeripheralTypes
  <2>3. CASE Block \/ CaptureEnds
    <3>1. mic' = mic /\ l \in {"running", "cleanup"}
      BY <1>p, <2>3 DEF Block, CaptureEnds, Goto
    <3> QED
      BY <1>0, <2>1, <3>1
  <2>4. CASE stop_and_scrub
    <3>1. l = "after"
      BY <1>p, <2>4 DEF stop_and_scrub, Goto
    <3>2. \/ mic' = [mic EXCEPT !.powered = FALSE, !.stopped = TRUE, !.scrubbed = TRUE]
          \/ mic' = [mic EXCEPT !.powered = FALSE, !.fault = TRUE]
          \/ mic' = [mic EXCEPT !.stopped = TRUE, !.scrubbed = TRUE, !.fault = TRUE]
      BY <2>4 DEF stop_and_scrub
    <3> QED
      BY <1>0, <2>1, <3>1, <3>2 DEF PeripheralTypes, Quiet
  <2> QED
    BY <2>2, <2>3, <2>4
<1>6. pc'["mic"] = l
  BY <1>2, WorkerMoves
<1>7. Peripheral'
  <2>1. store'.st # "READY"
    BY <1>0, <1>1, <1>4 DEF Peripheral, Shrinks
  <2> QED
    BY <1>5, <1>6, <2>1 DEF Peripheral
<1>8. SameSession(aud, aud')
  BY <1>0, <1>1 DEF SameSession
<1>9. Tapped'
  <2>1. /\ l \notin Tapping \cup {"auth1", "lock1"} /\ l \in Clip /\ l # "export"
        /\ pc["mic"] \notin Tapping /\ pc["mic"] \in Capturing /\ l \notin Aired
    BY <1>1 DEF Tapping, Clip, Capturing, Aired
  <2>2. /\ w.mode = "BLE" => aud.tap = 3
        /\ Live(store) => Retains
        /\ Live(store) /\ store.for # 0 => w.mode = "BLE" /\ aud.tap = 3
    BY <1>0, <2>1 DEF Tapped
  <2> QED
    BY <1>1, <1>2, <1>3, <1>4, <1>8, <2>1, <2>2, TappedWorks DEF Shrinks
<1> QED
  BY <1>0, <1>1, <1>2, <1>3, <1>4, <1>5, <1>7, <1>8, <1>9, WorkerWorks DEF Shrinks

(* After: what was captured is sealed, or erased.                          *)
LEMMA AfterMic == ASSUME EnrollInv, MicInv, After PROVE MicInv'
<1>0. /\ MicTypes /\ Peripheral /\ Tapped /\ w \in JobTypes /\ GoodStore(store) /\ aud \in SessionTypes
      /\ cmd \in CommandTypes /\ mic \in PeripheralTypes
  BY DEF MicInv, MicTypes
<1>1. /\ pc["mic"] = "after" /\ UNCHANGED <<loc, busy, recovery, enr, timer, link, mic, aud, button>>
      /\ ~mic.fault
  BY DEF After, Worker, quietEnr
<1>2. PICK dark \in {TRUE, FALSE} :
        LET ok == w.err = "ok" /\ dark
            sealed == IF ok /\ Retains THEN PcmSeal(store) ELSE IF ok THEN store ELSE Scrub(store)
            ready == sealed.st = "READY"
        IN /\ store' = IF Retains /\ ~ready THEN Scrub(sealed) ELSE sealed
           /\ w' = [w EXCEPT !.err = IF ~ok THEN "io"
                                     ELSE IF Retains /\ sealed.st = "EXPIRED" THEN "timeout"
                                     ELSE IF Retains /\ ~ready THEN "io" ELSE @]
           /\ cmd' = [cmd EXCEPT !.rail = @ \/ (w.mode = "POWER" /\ ok)]
           /\ pc' = [pc EXCEPT !["mic"] = IF w.mode = "BLE" THEN "auth2"
                                          ELSE IF ready THEN "export" ELSE "hand_back"]
  BY DEF After, Goto
<1> DEFINE ok == w.err = "ok" /\ dark
           sealed == IF ok /\ Retains THEN PcmSeal(store) ELSE IF ok THEN store ELSE Scrub(store)
           ready == sealed.st = "READY"
           l == IF w.mode = "BLE" THEN "auth2" ELSE IF ready THEN "export" ELSE "hand_back"
<1>3. /\ store' = IF Retains /\ ~ready THEN Scrub(sealed) ELSE sealed
      /\ pc' = [pc EXCEPT !["mic"] = l]
  BY <1>2
<1>4. w' \in JobTypes /\ w'.job = w.job /\ w'.gate = w.gate /\ w'.mode = w.mode
  <2>1. \E e \in {"ok", "io", "timeout", "cancel"} : w' = [w EXCEPT !.err = e]
    <3>1. w.err \in {"ok", "io", "timeout", "cancel"}
      BY <1>0 DEF JobTypes
    <3> QED
      BY <1>2, <3>1
  <2> QED
    BY <1>0, <2>1, JobTyped
<1>5. /\ cmd' \in CommandTypes /\ cmd'.mode = cmd.mode
      /\ cmd'.sem <=> cmd.sem
      /\ cmd'.held <=> cmd.held
  <2>1. \E b \in BOOLEAN : cmd' = [cmd EXCEPT !.rail = b]
    <3>1. cmd' = [cmd EXCEPT !.rail = @ \/ (w.mode = "POWER" /\ ok)]
      BY <1>2
    <3>2. (cmd.rail \/ (w.mode = "POWER" /\ ok)) \in BOOLEAN
      OBVIOUS
    <3> QED
      BY <3>1, <3>2
  <2> QED
    BY <1>0, <2>1 DEF CommandTypes
<1>6. GoodStore(sealed) /\ sealed.for = store.for /\ (Live(sealed) => Live(store))
      /\ (~Retains => Shrinks(store, sealed))
  BY <1>0, StoreShrinks, SealTyped DEF Shrinks
<1>7. Quiet
  BY <1>0, <1>1 DEF Peripheral
<1>8. w.mode = "BLE" => Retains
  BY DEF Retains
<1> HIDE DEF sealed
<1>9. /\ GoodStore(store') /\ store'.for = store.for /\ (Live(store') => Live(store))
      /\ Retains /\ ~ready => store'.st = "EMPTY"
      /\ ~(Retains /\ ~ready) => store' = sealed
  BY <1>3, <1>6, StoreShrinks, WipeFields DEF Shrinks, Scrub, GoodStore
<1>10. l \in {"auth2", "export", "hand_back"} /\ (l = "export" => ready)
       /\ (l = "hand_back" => ~ready)
  OBVIOUS
<1>11. (Live(store) => Retains) /\ (Live(store) /\ store.for # 0 => w.mode = "BLE" /\ aud.tap = 3)
  BY <1>0 DEF Tapped
<1>12. /\ Live(store') => l \in Clip /\ Retains
       /\ l = "export" => store'.st # "CAPTURING"
  <2>1. l = "hand_back" => ~Live(store')
    BY <1>9, <1>10, <1>11 DEF Live
  <2>2. l = "export" => store'.st = "READY"
    BY <1>9, <1>10
  <2> QED
    BY <1>9, <1>10, <1>11, <2>1, <2>2 DEF Clip
<1>l. l = "auth2" => w.mode = "BLE"
  OBVIOUS
<1> HIDE DEF l, ready
<1>13. pc'["mic"] = l
  BY <1>3, WorkerMoves
<1>14. Peripheral'
  <2>1. Quiet'
    BY <1>1, <1>7 DEF Quiet
  <2> QED
    BY <1>10, <1>13, <2>1 DEF Peripheral
<1>15. SameSession(aud, aud')
  BY <1>0, <1>1 DEF SameSession
<1>16. Tapped'
  <2>1. /\ l \notin Tapping \cup {"auth1", "lock1"} /\ l \notin Capturing /\ pc["mic"] \notin Tapping
        /\ l \in Aired => w.mode = "BLE"
        /\ pc["mic"] \in Aired \cup Capturing
    BY <1>1, <1>10, <1>l DEF Tapping, Capturing, Aired
  <2> QED
    BY <1>1, <1>3, <1>4, <1>9, <1>11, <1>12, <1>15, <2>1, TappedWorks
<1>17. l # "idle" /\ pc["mic"] # "idle" /\ mic' \in PeripheralTypes
  BY <1>0, <1>1, <1>10
<1> QED
  BY <1>1, <1>3, <1>4, <1>5, <1>9, <1>14, <1>15, <1>16, <1>17, WorkerWorks

(* The export over USB, and the offer to the phone.                        *)
LEMMA ExportMic == ASSUME EnrollInv, MicInv, Export \/ OfferClip PROVE MicInv'
<1>0. /\ MicTypes /\ Peripheral /\ Tapped /\ w \in JobTypes /\ GoodStore(store) /\ aud \in SessionTypes
      /\ cmd \in CommandTypes /\ mic \in PeripheralTypes
  BY DEF MicInv, MicTypes
<1>1. /\ pc["mic"] \in {"export", "lock2"}
      /\ UNCHANGED <<loc, busy, recovery, enr, timer, link, cmd, mic, button>>
  BY DEF Export, OfferClip, Worker, quietEnr
<1>2. Shrinks(store, store')
  <2>1. store' \in {store, Scrub(store), PcmTake(store)}
    BY DEF Export, OfferClip
  <2> QED
    BY <1>0, <2>1, StoreShrinks
<1>3. w' \in JobTypes /\ w'.job = w.job /\ w'.gate = w.gate /\ w'.mode = w.mode
  <2>1. w' = w \/ \E e \in {"ok", "io", "timeout", "cancel"} : w' = [w EXCEPT !.err = e]
    <3>1. w.err \in {"ok", "io", "timeout", "cancel"}
      BY <1>0 DEF JobTypes
    <3> QED
      BY <3>1 DEF Export, OfferClip
  <2> QED
    BY <1>0, <2>1, JobTyped
<1>4. SameSession(aud, aud')
  <2>1. aud' = aud \/ \E k \in {"READY", "CANCELLED", "EXPIRED", "ERROR"} : aud' = [aud EXCEPT !.st = k]
    BY DEF Export, OfferClip
  <2>2. \A k \in {"READY", "CANCELLED", "EXPIRED", "ERROR"} : SameSession(aud, [aud EXCEPT !.st = k])
    BY <1>0 DEF SameSession, SessionTypes
  <2> QED
    BY <1>0, <2>1, <2>2 DEF SameSession
<1>5. PICK l \in {"export", "hand_back", "auth3"} :
        /\ pc' = [pc EXCEPT !["mic"] = l]
        /\ l = "hand_back" => store'.st # "READY" /\ pc["mic"] = "export"
        /\ l = "export" => pc["mic"] = "export"
        /\ l = "auth3" => pc["mic"] = "lock2"
  BY DEF Export, OfferClip, Goto, Worker
<1>6. pc'["mic"] = l
  BY <1>5, WorkerMoves
<1>7. Peripheral'
  <2>1. Quiet'
    BY <1>0, <1>1 DEF Peripheral, Quiet
  <2> QED
    BY <1>6, <2>1 DEF Peripheral
<1>8. /\ Live(store) => Retains
      /\ Live(store) /\ store.for # 0 => w.mode = "BLE" /\ aud.tap = 3
      /\ pc["mic"] = "export" => store.st # "CAPTURING"
  BY <1>0 DEF Tapped
<1>9. Tapped'
  <2>1. /\ l \notin Tapping \cup {"auth1", "lock1"} /\ l \notin Capturing /\ pc["mic"] \notin Tapping
        /\ l \in Aired => w.mode = "BLE"
        /\ l \in Aired \cup Capturing => pc["mic"] \in Aired \cup Capturing
    BY <1>0, <1>1, <1>5 DEF Tapping, Capturing, Aired, Tapped
  <2>2. /\ Live(store') => l \in Clip /\ Retains
        /\ l = "export" => store'.st # "CAPTURING"
    BY <1>2, <1>5, <1>8 DEF Shrinks, Clip, Live
  <2> QED
    BY <1>1, <1>2, <1>3, <1>4, <1>5, <1>8, <2>1, <2>2, TappedWorks DEF Shrinks
<1>10. l # "idle" /\ pc["mic"] # "idle" /\ GoodStore(store')
  BY <1>1, <1>2 DEF Shrinks
<1> QED
  BY <1>0, <1>1, <1>3, <1>4, <1>5, <1>7, <1>9, <1>10, WorkerWorks

(* A poll of the button never takes the gate past the edges made.          *)
LEMMA TapStepBounded ==
  ASSUME NEW g \in GateTypes, NEW v \in {0, 1}, NEW long \in BOOLEAN, NEW k \in 0..3, g.phase <= k,
         k < 3 => ((v = 1) <=> k \in {0, 2})
  PROVE  TapStep(g, v, long) \in GateTypes /\ TapStep(g, v, long).phase <= k
<1> DEFINE phase == IF g.phase = 2 /\ long THEN 0 ELSE g.phase
           settled == g.raw = v /\ g.stable # v
           p == IF ~settled THEN phase
                ELSE IF phase = 0 /\ v = 0 THEN 1
                ELSE IF phase = 1 /\ v = 1 THEN 2
                ELSE IF phase = 2 /\ v = 0 THEN 3 ELSE phase
           rearmed == p = 0 /\ g.raw = v /\ v = 0
           last == IF rearmed THEN 1 ELSE p
           stab == IF settled THEN v ELSE g.stable
<1>0. g.phase \in 0..3 /\ g.stable \in 0..2 /\ v \in 0..2
  BY DEF GateTypes
<1>1. TapStep(g, v, long) = [raw |-> v, stable |-> stab, phase |-> last]
  BY DEF TapStep
<1>2. phase \in 0..3 /\ phase <= k
  BY <1>0
<1>3. v = 0 => k \in {1, 3}
  OBVIOUS
<1>4. v = 1 => k \in {0, 2, 3}
  OBVIOUS
<1> HIDE DEF phase
<1>5. p \in 0..3 /\ p <= k
  <2>1. CASE v = 0
    <3>1. k \in {1, 3}
      BY <1>3, <2>1
    <3> QED
      BY <1>2, <2>1, <3>1
  <2>2. CASE v = 1
    <3>1. k \in {0, 2, 3}
      BY <1>4, <2>2
    <3> QED
      BY <1>2, <2>2, <3>1
  <2> QED
    BY <2>1, <2>2
<1> HIDE DEF p
<1>6. last \in 0..3 /\ last <= k
  BY <1>3, <1>5
<1>7. stab \in 0..2
  BY <1>0
<1> HIDE DEF last, stab
<1>8. TapStep(g, v, long).phase = last
  BY <1>1
<1> QED
  BY <1>0, <1>1, <1>6, <1>7, <1>8 DEF GateTypes

(* Waiting for the tap.                                                    *)
LEMMA WaitMic == ASSUME EnrollInv, MicInv, wait_for_tap PROVE MicInv'
<1>0. /\ MicTypes /\ Peripheral /\ Tapped /\ w \in JobTypes /\ GoodStore(store) /\ aud \in SessionTypes
      /\ cmd \in CommandTypes /\ mic \in PeripheralTypes /\ button \in {0, 1}
  BY DEF MicInv, MicTypes
<1>1. /\ pc["mic"] = "tap"
      /\ UNCHANGED <<loc, busy, recovery, enr, timer, link, cmd, mic, store, aud, button>>
  BY DEF wait_for_tap, Worker, quietEnr
<1>2. PICK long, broken \in {TRUE, FALSE} :
        LET g == TapStep(w.gate, button, long)
            over == broken \/ WaitVerdict # "ok" \/ g.phase = 3
        IN /\ w' = [w EXCEPT !.gate = IF over THEN NoGate ELSE g,
                             !.err = IF broken THEN "io" ELSE WaitVerdict]
           /\ pc' = [pc EXCEPT !["mic"] = IF over THEN "auth1" ELSE "tap_auth"]
  BY DEF wait_for_tap, Goto
<1> DEFINE g == TapStep(w.gate, button, long)
           err == IF broken THEN "io" ELSE WaitVerdict
           over == broken \/ WaitVerdict # "ok" \/ g.phase = 3
           l == IF over THEN "auth1" ELSE "tap_auth"
           gate == IF over THEN NoGate ELSE g
<1>3. /\ w' = [w EXCEPT !.gate = gate, !.err = err]
      /\ pc' = [pc EXCEPT !["mic"] = l]
  BY <1>2
<1>4. /\ w.gate \in GateTypes /\ aud.tap \in 0..3
  BY <1>0 DEF JobTypes, SessionTypes
<1>5. aud.active /\ w.mode = "BLE" /\ ~Live(store) /\ w.gate.phase <= aud.tap
      /\ (aud.tap < 3 => ((button = 1) <=> aud.tap \in {0, 2}))
  BY <1>0, <1>1 DEF Tapped, Tapping, Clip, Aired
<1>6. g \in GateTypes /\ g.phase <= aud.tap
  BY <1>0, <1>4, <1>5, TapStepBounded
<1> HIDE DEF g
<1>7. NoGate \in GateTypes /\ NoGate.phase = 0
  BY DEF NoGate, GateTypes
<1>8. gate \in GateTypes /\ gate.phase <= aud.tap /\ (over => gate = NoGate)
  BY <1>4, <1>6, <1>7
<1>9. err \in {"ok", "io", "cancel", "timeout"}
  BY DEF WaitVerdict
<1>10. g.phase \in 0..3 /\ (over /\ err = "ok" => aud.tap = 3)
  BY <1>4, <1>6 DEF GateTypes
<1>12. l \in {"auth1", "tap_auth"} /\ (l = "auth1" => over)
  OBVIOUS
<1> HIDE DEF gate, over, l, err
<1>13. /\ w' \in JobTypes /\ w'.gate = gate /\ w'.err = err /\ w'.mode = w.mode
       /\ w'.job = w.job
  BY <1>0, <1>3, <1>8, <1>9 DEF JobTypes
<1>14. pc'["mic"] = l
  BY <1>3, WorkerMoves
<1>15. Peripheral'
  <2>1. Quiet'
    BY <1>0, <1>1 DEF Peripheral, Quiet
  <2> QED
    BY <1>12, <1>14, <2>1 DEF Peripheral
<1>16. Tapped'
  <2>1. ~Live(store)' /\ aud' = aud /\ button' = button
    BY <1>1, <1>5
  <2> QED
    BY <1>5, <1>8, <1>10, <1>12, <1>13, <1>14, <2>1 DEF Tapped, Tapping, Capturing, Aired
<1>17. SameSession(aud, aud') /\ l # "idle" /\ pc["mic"] # "idle" /\ GoodStore(store')
  BY <1>0, <1>1, <1>12 DEF SameSession
<1> QED
  BY <1>0, <1>1, <1>3, <1>13, <1>15, <1>16, <1>17, WorkerWorks

(* The authorization is read; the capture is committed.                    *)
LEMMA AuthMic == ASSUME EnrollInv, MicInv, ReadAuthorized \/ CommitCapture PROVE MicInv'
<1>0. /\ MicTypes /\ Peripheral /\ Tapped /\ w \in JobTypes /\ GoodStore(store) /\ aud \in SessionTypes
      /\ cmd \in CommandTypes /\ mic \in PeripheralTypes /\ button \in {0, 1}
  BY DEF MicInv, MicTypes
<1>1. UNCHANGED <<loc, busy, recovery, enr, timer, link, cmd, mic, store, button>>
  BY DEF ReadAuthorized, CommitCapture, quietEnr
<1>2. CASE ReadAuthorized
  <2>1. PICK l \in {"tap", "lock1", "lock2", "lock3"} :
          /\ pc["mic"] = CASE l = "tap" -> "tap_auth" [] l = "lock1" -> "auth1"
                           [] l = "lock2" -> "auth2" [] OTHER -> "auth3"
          /\ w' = [w EXCEPT !.auth = authorized]
          /\ pc' = [pc EXCEPT !["mic"] = l] /\ aud' = aud
    BY <1>2 DEF ReadAuthorized, Worker, Goto
  <2>2. authorized \in BOOLEAN
    BY DEF authorized
  <2>3. w' \in JobTypes /\ w'.job = w.job /\ w'.gate = w.gate /\ w'.mode = w.mode /\ w'.err = w.err
    BY <1>0, <2>1, <2>2, JobTyped
  <2>4. pc'["mic"] = l
    BY <2>1, WorkerMoves
  <2>5. \/ pc["mic"] = "tap_auth" /\ l = "tap"
        \/ pc["mic"] = "auth1" /\ l = "lock1"
        \/ pc["mic"] = "auth2" /\ l = "lock2"
        \/ pc["mic"] = "auth3" /\ l = "lock3"
    BY <2>1
  <2>6. Peripheral'
    <3>1. Quiet'
      BY <1>0, <1>1, <2>5 DEF Peripheral, Quiet
    <3> QED
      BY <2>4, <2>5, <3>1 DEF Peripheral
  <2>7. Tapped'
    <3>1. (Live(store)' <=> Live(store)) /\ aud' = aud /\ button' = button /\ store' = store
      BY <1>1, <2>1
    <3>2. Retains' <=> Retains
      BY <2>3 DEF Retains
    <3>3. CASE pc["mic"] = "tap_auth" /\ l = "tap"
      BY <1>0, <2>3, <2>4, <3>1, <3>2, <3>3 DEF Tapped, Tapping, Capturing, Clip, Aired
    <3>4. CASE pc["mic"] = "auth1" /\ l = "lock1"
      BY <1>0, <2>3, <2>4, <3>1, <3>2, <3>4 DEF Tapped, Tapping, Capturing, Clip, Aired
    <3>5. CASE \/ pc["mic"] = "auth2" /\ l = "lock2"
               \/ pc["mic"] = "auth3" /\ l = "lock3"
      BY <1>0, <2>3, <2>4, <3>1, <3>2, <3>5 DEF Tapped, Tapping, Capturing, Clip, Aired
    <3> QED
      BY <2>5, <3>3, <3>4, <3>5
  <2>8. SameSession(aud, aud') /\ l # "idle" /\ pc["mic"] # "idle" /\ GoodStore(store')
    BY <1>0, <1>1, <2>1, <2>5 DEF SameSession
  <2> QED
    BY <1>0, <1>1, <2>1, <2>3, <2>6, <2>7, <2>8, WorkerWorks
<1>3. CASE CommitCapture
  <2> DEFINE err == IF Stopped THEN "cancel" ELSE w.err
             l == IF err = "ok" THEN "prepare" ELSE "auth2"
  <2>1. /\ pc["mic"] = "lock1" /\ pc' = [pc EXCEPT !["mic"] = l] /\ w' = [w EXCEPT !.err = err]
        /\ aud' = [aud EXCEPT !.st = IF err = "ok" THEN "RECORDING" ELSE @]
    BY <1>3 DEF CommitCapture, Worker, Goto
  <2>2. err \in {"ok", "io", "timeout", "cancel"} /\ (err = "ok" => w.err = "ok")
    BY <1>0 DEF JobTypes
  <2>3. l \in {"prepare", "auth2"} /\ (l = "prepare" => err = "ok")
    OBVIOUS
  <2>4. SameSession(aud, aud')
    <3>1. aud' = [aud EXCEPT !.st = aud.st] \/ aud' = [aud EXCEPT !.st = "RECORDING"]
      BY <2>1
    <3> QED
      BY <1>0, <3>1 DEF SameSession, SessionTypes
  <2> HIDE DEF err, l
  <2>5. w' \in JobTypes /\ w'.job = w.job /\ w'.gate = w.gate /\ w'.mode = w.mode
    BY <1>0, <2>1, <2>2, JobTyped
  <2>6. pc'["mic"] = l
    BY <2>1, WorkerMoves
  <2>7. Peripheral'
    <3>1. Quiet'
      BY <1>0, <1>1, <2>1 DEF Peripheral, Quiet
    <3> QED
      BY <2>3, <2>6, <3>1 DEF Peripheral
  <2>8. Tapped'
    <3>1. /\ ~Live(store) /\ (w.err = "ok" => aud.tap = 3)
      BY <1>0, <2>1 DEF Tapped, Clip
    <3>2. ~Live(store)' /\ button' = button
      BY <1>1, <3>1
    <3>3. /\ pc["mic"] \notin Tapping /\ l \notin Tapping \cup {"auth1", "lock1"} /\ l # "export"
          /\ w.mode = "BLE" /\ pc["mic"] \in Aired \cup Capturing
      BY <1>0, <2>1, <2>3 DEF Tapping, Aired, Tapped
    <3> QED
      BY <2>1, <2>2, <2>3, <2>4, <2>5, <3>1, <3>2, <3>3, TappedWorks DEF Capturing
  <2>9. l # "idle" /\ pc["mic"] # "idle" /\ GoodStore(store')
    BY <1>0, <1>1, <2>1, <2>3
  <2> QED
    BY <1>0, <1>1, <2>1, <2>4, <2>5, <2>7, <2>8, <2>9, WorkerWorks
<1> QED
  BY <1>2, <1>3

(* The semaphore is taken: busy passes from the request to the worker.     *)
LEMMA TakeMic == ASSUME EnrollInv, MicInv, MicTake PROVE MicInv'
<1>0. /\ MicTypes /\ Peripheral /\ Tapped /\ BusyExact /\ Connected /\ w \in JobTypes
      /\ GoodStore(store) /\ aud \in SessionTypes /\ cmd \in CommandTypes /\ link \in LinkTypes
      /\ mic \in PeripheralTypes
  BY DEF MicInv, MicTypes, EnrollInv, EnrollmentTypes
<1> DEFINE l == IF cmd.mode = "BLE" THEN "tap_auth" ELSE "prepare"
           job == IF cmd.mode = "POWER" THEN w.job ELSE w.job + 1
<1>1. /\ pc["mic"] = "idle" /\ cmd.sem /\ cmd' = [cmd EXCEPT !.sem = FALSE]
      /\ w' = [w EXCEPT !.mode = cmd.mode, !.err = "ok", !.job = job]
      /\ pc' = [pc EXCEPT !["mic"] = l]
      /\ UNCHANGED <<loc, busy, recovery, enr, timer, mic, store, aud, button>>
  BY DEF MicTake, Worker, Goto, quietEnr
<1>2. link' = link \/ link' = Unreferenced(link.refs \cup {"worker"})
  BY DEF MicTake
<1>3. /\ link'.n = link.n /\ link'.st = link.st
      /\ link'.refs = link.refs \/ (link'.refs = link.refs \cup {"worker"} /\ cmd.mode = "BLE")
  <2>1. CASE cmd.mode = "BLE"
    BY <1>0, <1>2, <2>1 DEF Unreferenced, LinkTypes
  <2>2. CASE cmd.mode # "BLE"
    BY <1>0, <2>2 DEF MicTake
  <2> QED
    BY <2>1, <2>2
<1>4. Holds("sem") /\ "sem" \in Parties
  BY <1>1 DEF Holds, Parties
<1>5. busy # 0 /\ w.job < MaxJobs /\ \A h \in Parties : h # "sem" => ~Holds(h)
  BY <1>0, <1>1, <1>4, OnlyHolder DEF BusyExact
<1>6. job \in Nat /\ job <= MaxJobs
  <2>1. w.job \in Nat /\ MaxJobs \in Nat
    BY <1>0, MicrophoneBounds DEF JobTypes
  <2> QED
    BY <1>5, <2>1
<1>7. l \in {"tap_auth", "prepare"} /\ (l = "tap_auth" => cmd.mode = "BLE")
      /\ (cmd.mode = "BLE" => l = "tap_auth") /\ l # "idle"
  OBVIOUS
<1> HIDE DEF job, l
<1>8. w' \in JobTypes /\ w'.mode = cmd.mode /\ w'.gate = w.gate /\ w'.job = job
  <2>1. cmd.mode \in ModeNames
    BY <1>0 DEF CommandTypes
  <2> QED
    BY <1>0, <1>1, <1>6, <2>1 DEF JobTypes
<1>9. /\ cmd' \in CommandTypes /\ ~cmd'.sem /\ cmd'.mode = cmd.mode
      /\ cmd'.held <=> cmd.held
  BY <1>0, <1>1 DEF CommandTypes
<1>10. /\ pc'["mic"] = l /\ pc'["shell"] = pc["shell"] /\ pc'["bt"] = pc["bt"]
       /\ \A u \in Requesters : pc'[u] = pc[u]
  BY <1>1, WorkerMoves
<1>11. BusyExact'
  <2>1. "mic" \in Parties /\ \A h \in Parties : Holds(h)' <=> h = "mic"
    BY <1>5, <1>7, <1>9, <1>10 DEF Holds, Parties, Requesters
  <2> QED
    BY <1>1, <1>5, <1>6, <1>8, <2>1, BusyPasses DEF Requesters
<1>12. Connected'
  <2>1. cmd.mode = "BLE" => aud.active
    BY <1>0, <1>1 DEF Connected
  <2>2. link.st \in {"adv", "recycled", "free"} => link'.refs = {}
    BY <1>0, <1>3, <2>1 DEF Connected
  <2> QED
    BY <1>0, <1>1, <1>3, <1>9, <1>10, <2>2 DEF Connected
<1>13. ~Live(store) /\ ~Live(store)' /\ w.gate = NoGate /\ w.gate.phase <= aud.tap
  BY <1>0, <1>1 DEF Tapped, Clip, Tapping
<1>14. Peripheral'
  <2>1. Quiet'
    BY <1>0, <1>1 DEF Peripheral, Quiet
  <2> QED
    BY <1>7, <1>10, <2>1 DEF Peripheral
<1>15. Tapped'
  <2>1. /\ aud.active /\ aud.tap < 3 => ((button = 1) <=> aud.tap \in {0, 2})
        /\ cmd.mode = "BLE" => aud.active
    BY <1>0, <1>1 DEF Tapped, Connected
  <2>2. l \in {"tap_auth", "prepare"} /\ (l = "prepare" => w'.mode # "BLE")
        /\ (l = "tap_auth" => w'.mode = "BLE")
    BY <1>7, <1>8
  <2>3. aud' = aud /\ button' = button
    BY <1>1
  <2> QED
    BY <1>7, <1>8, <1>10, <1>13, <2>1, <2>2, <2>3 DEF Tapped, Tapping, Capturing, Aired
<1>16. Job' => Job
  BY <1>1 DEF Job
<1>17. busy' \in 0..2 /\ GoodStore(store') /\ aud' \in SessionTypes /\ mic' \in PeripheralTypes
  BY <1>0, <1>1 DEF MicTypes
<1> QED
  BY <1>1, <1>3, <1>8, <1>9, <1>11, <1>12, <1>14, <1>15, <1>16, <1>17, WorkerKeeps

(* The end of a job: the device is given back.                             *)
LEMMA EndMic == ASSUME EnrollInv, MicInv, Finish \/ EndSession PROVE MicInv'
<1>0. /\ MicTypes /\ Peripheral /\ Tapped /\ BusyExact /\ Connected /\ w \in JobTypes
      /\ GoodStore(store) /\ aud \in SessionTypes /\ cmd \in CommandTypes /\ link \in LinkTypes
      /\ mic \in PeripheralTypes
  BY DEF MicInv, MicTypes, EnrollInv, EnrollmentTypes
<1>1. /\ pc["mic"] \in {"hand_back", "unref"} /\ pc' = [pc EXCEPT !["mic"] = "idle"] /\ busy' = 0
      /\ UNCHANGED <<loc, recovery, enr, timer, cmd, mic, aud, w, button>>
  BY DEF Finish, EndSession, Worker, Goto, quietEnr
<1>2. Shrinks(store, store')
  <2>1. store' = store \/ store' = Scrub(store)
    BY DEF Finish, EndSession
  <2> QED
    BY <1>0, <2>1, StoreShrinks
<1>3. /\ link'.n = link.n /\ link'.st = link.st
      /\ link'.refs = link.refs \/ link'.refs = link.refs \ {"worker"}
  <2>1. link' = link \/ link' = Unreferenced(link.refs \ {"worker"})
    BY DEF Finish, EndSession
  <2> QED
    BY <1>0, <2>1 DEF Unreferenced, LinkTypes
<1>4. /\ pc'["mic"] = "idle" /\ pc'["shell"] = pc["shell"] /\ pc'["bt"] = pc["bt"]
      /\ \A u \in Requesters : pc'[u] = pc[u]
  BY <1>1, WorkerMoves
<1>5. Holds("mic") /\ "mic" \in Parties
  BY <1>1 DEF Holds, Parties
<1>6. w.job <= MaxJobs /\ \A h \in Parties : h # "mic" => ~Holds(h)
  BY <1>0, <1>5, OnlyHolder
<1>7. BusyExact'
  <2>1. \A h \in Parties : ~Holds(h)'
    BY <1>1, <1>4, <1>6 DEF Holds, Parties, Requesters
  <2> QED
    BY <1>1, <1>6, <2>1, BusyFreed
<1>8. Connected'
  BY <1>0, <1>1, <1>3, <1>4 DEF Connected
<1>9. ~Live(store)' /\ w.gate = NoGate
  BY <1>0, <1>1, <1>2 DEF Tapped, Clip, Tapping, Shrinks
<1>10. Peripheral'
  <2>1. Quiet'
    BY <1>0, <1>1 DEF Peripheral, Quiet
  <2> QED
    BY <1>4, <2>1 DEF Peripheral
<1>11. Tapped'
  <2>1. aud' = aud /\ button' = button /\ w' = w
    BY <1>1
  <2> QED
    BY <1>0, <1>4, <1>9, <2>1 DEF Tapped, Tapping, Capturing, Aired
<1>12. Job' => Job
  BY <1>1, <1>4 DEF Job
<1>13. busy' \in 0..2 /\ GoodStore(store')
  BY <1>1, <1>2 DEF Shrinks
<1> QED
  BY <1>0, <1>1, <1>3, <1>7, <1>8, <1>10, <1>11, <1>12, <1>13, WorkerKeeps

(* The last loop of a session over the air.                                *)
LEMMA ServeMic == ASSUME EnrollInv, MicInv, ServeClip PROVE MicInv'
<1>0. /\ MicTypes /\ Peripheral /\ Tapped /\ BusyExact /\ Connected /\ w \in JobTypes
      /\ GoodStore(store) /\ aud \in SessionTypes /\ cmd \in CommandTypes /\ link \in LinkTypes
      /\ mic \in PeripheralTypes
  BY DEF MicInv, MicTypes, EnrollInv, EnrollmentTypes
<1> DEFINE cut == ~w.auth \/ aud.disc
           a1 == IF cut THEN cancel_aud(aud) ELSE aud
           s1 == IF cut THEN cancel_store(aud, store) ELSE store
           a2 == refresh_aud(a1, s1)
           over == Terminal(a2.st)
           gone == over /\ aud.disc
           l == IF over THEN "unref" ELSE "auth3"
<1>1. /\ pc["mic"] = "lock3" /\ pc' = [pc EXCEPT !["mic"] = l]
      /\ aud' = [a2 EXCEPT !.active = ~over, !.owner = IF gone THEN 0 ELSE @]
      /\ store' = IF over THEN Scrub(s1) ELSE refresh_store(a1, s1)
      /\ link' = IF gone THEN Unreferenced(link.refs \ {"audio"}) ELSE link
      /\ UNCHANGED <<loc, busy, recovery, enr, timer, cmd, mic, w, button>>
  BY DEF ServeClip, Worker, Goto, quietEnr
<1>2. SameSession(aud, a1) /\ Shrinks(store, s1)
  BY <1>0, SessionStays, SessionShrinks, StoreShrinks DEF SameSession
<1> HIDE DEF a1, s1
<1>3. SameSession(aud, a2)
  <2>1. SameSession(a1, a2)
    BY <1>2, SessionStays DEF SameSession
  <2> QED
    BY <1>2, <2>1 DEF SameSession
<1>4. over \in BOOLEAN /\ gone \in BOOLEAN /\ (gone => over) /\ l \in {"unref", "auth3"}
      /\ (l = "unref" <=> over)
  BY DEF Terminal
<1> HIDE DEF a2, gone, over, l
<1>5. Shrinks(store, store') /\ (over => store'.st = "EMPTY")
  <2>1. GoodStore(s1)
    BY <1>2 DEF Shrinks
  <2>2. Shrinks(s1, Scrub(s1)) /\ Shrinks(s1, refresh_store(a1, s1)) /\ Scrub(s1).st = "EMPTY"
    BY <2>1, StoreShrinks, SessionShrinks, WipeFields DEF Scrub, GoodStore
  <2>3. Shrinks(store, Scrub(s1)) /\ Shrinks(store, refresh_store(a1, s1))
    BY <1>2, <2>2, ShrinksTwice
  <2> QED
    BY <1>1, <2>2, <2>3
<1>6. /\ aud' \in SessionTypes /\ (aud'.active <=> ~over) /\ aud'.tap = aud.tap
      /\ aud'.owner = IF gone THEN 0 ELSE aud.owner
  <2>1. /\ a2 \in SessionTypes /\ a2.owner = aud.owner /\ a2.tap = aud.tap /\ aud.owner \in Nat
    BY <1>0, <1>3 DEF SameSession, SessionTypes
  <2>2. \A b \in BOOLEAN, n \in Nat : LET a == [a2 EXCEPT !.active = b, !.owner = n]
                                      IN a \in SessionTypes /\ a.active = b /\ a.tap = a2.tap
                                         /\ a.owner = n
    BY <2>1 DEF SessionTypes
  <2>3. aud' = [a2 EXCEPT !.active = ~over, !.owner = IF gone THEN 0 ELSE aud.owner]
    BY <1>1, <2>1
  <2>4. (~over) \in BOOLEAN /\ (IF gone THEN 0 ELSE aud.owner) \in Nat
    BY <1>4, <2>1
  <2> QED
    BY <2>1, <2>2, <2>3, <2>4
<1>7. /\ link'.n = link.n /\ link'.st = link.st
      /\ link'.refs = IF gone THEN link.refs \ {"audio"} ELSE link.refs
  BY <1>0, <1>1 DEF Unreferenced, LinkTypes
<1>8. /\ pc'["mic"] = l /\ pc'["shell"] = pc["shell"] /\ pc'["bt"] = pc["bt"]
      /\ \A u \in Requesters : pc'[u] = pc[u]
  BY <1>1, WorkerMoves
<1>9. aud.active /\ w.mode = "BLE" /\ w.gate = NoGate /\ ~cmd.sem
  <2>1. Holds("mic") /\ "mic" \in Parties /\ "sem" \in Parties
    BY <1>1 DEF Holds, Parties
  <2>2. ~Holds("sem")
    BY <1>0, <2>1, OnlyHolder
  <2>3. ~cmd.sem
    BY <2>2 DEF Holds
  <2>4. w.mode = "BLE" /\ aud.active /\ w.gate = NoGate
    BY <1>0, <1>1 DEF Tapped, Aired, Tapping
  <2> QED
    BY <2>3, <2>4
<1>10. BusyExact'
  BY <1>0, <1>1, <1>4, <1>8, BusyKeeps
<1>11. Connected'
  BY <1>0, <1>1, <1>4, <1>6, <1>7, <1>8, <1>9 DEF Connected
<1>12. Peripheral'
  <2>1. Quiet'
    BY <1>0, <1>1 DEF Peripheral, Quiet
  <2> QED
    BY <1>4, <1>8, <2>1 DEF Peripheral
<1>13. Tapped'
  <2>1. /\ Live(store)' => Live(store) /\ ~over
        /\ store'.for = store.for
    BY <1>5 DEF Shrinks, Live
  <2>2. button' = button /\ w' = w /\ (Retains' <=> Retains)
    BY <1>1 DEF Retains
  <2>3. /\ aud.tap < 3 => ((button = 1) <=> aud.tap \in {0, 2})
        /\ w.gate.phase <= aud.tap
        /\ Live(store) => Retains
        /\ Live(store) /\ store.for # 0 => aud.tap = 3
    BY <1>0, <1>9 DEF Tapped
  <2>4. /\ l \notin Tapping \cup Capturing \cup {"auth1", "lock1", "export"}
        /\ ~over => l \in Clip
        /\ l \in Aired => ~over
    BY <1>4 DEF Tapping, Capturing, Clip, Aired
  <2> QED
    BY <1>6, <1>8, <1>9, <2>1, <2>2, <2>3, <2>4 DEF Tapped
<1>14. Job' => Job
  BY <1>1 DEF Job
<1>15. busy' \in 0..2 /\ GoodStore(store')
  BY <1>0, <1>1, <1>5 DEF MicTypes, Shrinks
<1> QED
  BY <1>0, <1>1, <1>6, <1>7, <1>10, <1>11, <1>12, <1>13, <1>14, <1>15, WorkerKeeps

(* The shell gives up its arming, the holder its reservation, the user     *)
(* moves the button.                                                       *)
LEMMA OtherMic ==
  ASSUME EnrollInv, MicInv, command_disarm \/ release_external \/ ButtonEdge
  PROVE  MicInv'
<1>0. /\ MicTypes /\ Bounded /\ Peripheral /\ Tapped /\ BusyExact /\ Connected /\ Exclusion
      /\ w \in JobTypes /\ GoodStore(store) /\ aud \in SessionTypes /\ cmd \in CommandTypes
      /\ button \in {0, 1} /\ aud.tap \in 0..3
  BY DEF MicInv, MicTypes, SessionTypes
<1>1. UNCHANGED <<pc, loc, recovery, enr, timer, link, mic, store, w>>
  BY DEF command_disarm, release_external, ButtonEdge, enrVars
<1>2. /\ cmd' \in CommandTypes /\ cmd'.mode = cmd.mode
      /\ cmd'.sem <=> cmd.sem
      /\ cmd'.held => cmd.held
  <2>1. cmd' = cmd \/ cmd' = [cmd EXCEPT !.armed = 0] \/ cmd' = [cmd EXCEPT !.held = FALSE]
    BY DEF command_disarm, release_external, ButtonEdge
  <2>2. CASE cmd' = cmd
    BY <1>0, <2>2
  <2>3. CASE cmd' = [cmd EXCEPT !.armed = 0]
    BY <1>0, <2>3 DEF CommandTypes
  <2>4. CASE cmd' = [cmd EXCEPT !.held = FALSE]
    BY <1>0, <2>4 DEF CommandTypes
  <2> QED
    BY <2>1, <2>2, <2>3, <2>4
<1>3. /\ aud' \in SessionTypes /\ aud'.owner = aud.owner
      /\ aud'.active <=> aud.active
  <2>1. aud' = aud \/ \E k \in 0..3 : aud' = [aud EXCEPT !.tap = k]
    <3>1. aud.tap < 3 => aud.tap + 1 \in 0..3
      BY <1>0
    <3> QED
      BY <1>0, <3>1 DEF command_disarm, release_external, ButtonEdge
  <2> QED
    BY <1>0, <2>1 DEF SessionTypes
<1>4. Connected'
  <2>1. LinkCalm
    BY <1>1 DEF LinkCalm
  <2> QED
    BY <1>0, <1>1, <1>2, <1>3, <2>1, ConnectedKeeps2
<1>5. Exclusion'
  BY <1>0, <1>1, <1>2 DEF Exclusion, SawIdle, SawClosed, Job, Window
<1>6. Peripheral'
  BY <1>0, <1>1, PeripheralKeeps
<1>7. BusyExact' /\ busy' \in 0..2
  <2>1. CASE release_external
    <3>1. cmd.held /\ ~cmd'.held /\ busy' = 0
      BY <1>0, <2>1 DEF release_external, CommandTypes
    <3>2. Holds("held") /\ "held" \in Parties
      BY <3>1 DEF Holds, Parties
    <3>3. w.job <= MaxJobs /\ \A h \in Parties : h # "held" => ~Holds(h)
      BY <1>0, <3>2, OnlyHolder
    <3>4. \A h \in Parties : ~Holds(h)'
      BY <1>1, <1>2, <3>1, <3>3 DEF Holds, Parties, Requesters
    <3> QED
      BY <1>1, <3>1, <3>3, <3>4, BusyFreed
  <2>2. CASE command_disarm \/ ButtonEdge
    <3>1. busy' = busy /\ (cmd'.held <=> cmd.held)
      BY <1>0, <2>2 DEF command_disarm, ButtonEdge, enrVars, CommandTypes
    <3> QED
      BY <1>0, <1>1, <1>2, <3>1, BusyKeeps DEF MicTypes
  <2> QED
    BY <2>1, <2>2
<1>8. Tapped' /\ button' \in {0, 1}
  <2>1. CASE command_disarm \/ release_external
    <3>1. aud' = aud /\ button' = button
      BY <2>1 DEF command_disarm, release_external
    <3> QED
      BY <1>0, <1>1, <3>1, TappedKeeps
  <2>2. CASE ButtonEdge
    <3>1. /\ aud.active /\ button' = 1 - button
          /\ aud' = [aud EXCEPT !.tap = IF (aud.tap \in {0, 2}) = (button = 1) /\ aud.tap < 3
                                        THEN aud.tap + 1 ELSE aud.tap]
      BY <1>0, <2>2 DEF ButtonEdge, SessionTypes
    <3>2. aud.tap < 3 => ((button = 1) <=> aud.tap \in {0, 2})
      BY <1>0, <3>1 DEF Tapped
    <3>3. aud' = [aud EXCEPT !.tap = IF aud.tap < 3 THEN aud.tap + 1 ELSE aud.tap]
      BY <3>1, <3>2
    <3>4. aud'.tap = IF aud.tap < 3 THEN aud.tap + 1 ELSE aud.tap
      BY <1>0, <3>3 DEF SessionTypes
    <3>5. /\ button' \in {0, 1}
          /\ aud'.tap < 3 => ((button' = 1) <=> aud'.tap \in {0, 2})
          /\ aud.tap <= aud'.tap /\ (aud.tap = 3 => aud'.tap = 3)
      BY <1>0, <3>1, <3>2, <3>4
    <3>6. w.gate.phase <= aud'.tap
      <4>1. w.gate.phase \in 0..3 /\ w.gate.phase <= aud.tap
        BY <1>0 DEF Tapped, JobTypes, GateTypes
      <4>2. aud'.tap \in 0..3
        BY <1>3 DEF SessionTypes
      <4> QED
        BY <1>0, <3>5, <4>1, <4>2
    <3>7. (Retains' <=> Retains) /\ (Live(store)' <=> Live(store))
      BY <1>1 DEF Retains
    <3> QED
      BY <1>0, <1>1, <1>3, <3>5, <3>6, <3>7 DEF Tapped
  <2> QED
    BY <2>1, <2>2
<1>9. MicTypes' /\ Bounded'
  BY <1>0, <1>1, <1>2, <1>3, <1>7, <1>8 DEF MicTypes, Bounded
<1> QED
  BY <1>4, <1>5, <1>6, <1>7, <1>8, <1>9 DEF MicInv

-----------------------------------------------------------------------------
(* The state after a reset, and the initial one.                           *)
Fresh ==
  /\ Rebooted /\ busy = 0 /\ recovery = FALSE /\ timer = FALSE
  /\ cmd = NoCmd /\ mic = MicOff /\ store = NoClip /\ aud = NoSession /\ w = NoJob
  /\ button \in {0, 1}

(* Nobody holds anything at first.                                         *)
LEMMA FreshInv == Fresh => MicInv
<1> SUFFICES ASSUME Fresh PROVE MicInv
  OBVIOUS
<1>0. /\ \A t \in Threads : pc[t] = "idle"
      /\ {"shell", "bt", "mic", "button"} \subseteq Threads /\ Requesters \subseteq Threads
      /\ enr = NoWindow /\ link = Free
  BY DEF Fresh, Rebooted, Threads, Requesters
<1>1. pc["shell"] = "idle" /\ pc["bt"] = "idle" /\ pc["mic"] = "idle" /\ pc["button"] = "idle"
  BY <1>0
<1>2. /\ enr.n = 0 /\ enr.pending = 0 /\ enr.open = FALSE /\ link.n = 0 /\ link.refs = {} /\ link.st = "adv"
  BY <1>0 DEF NoWindow, Free
<1>3. MicTypes
  <2>0. "none" \in ModeNames /\ 0 \in 0..Chunks /\ 0 \in 0..3 /\ 0 \in 0..2 /\ 2 \in 0..2
    BY MicrophoneBounds DEF ModeNames
  <2>1. cmd \in CommandTypes /\ mic \in PeripheralTypes
    BY <2>0 DEF Fresh, NoCmd, MicOff, CommandTypes, PeripheralTypes
  <2>2. GoodStore(store)
    BY <2>0 DEF Fresh, NoClip, GoodStore, StoreTypes
  <2>3. aud \in SessionTypes
    BY <2>0 DEF Fresh, NoSession, SessionTypes
  <2>4. w \in JobTypes
    <3>1. NoGate \in GateTypes
      BY <2>0 DEF NoGate, GateTypes
    <3> QED
      BY <2>0, <3>1 DEF Fresh, NoJob, JobTypes
  <2> QED
    BY <2>0, <2>1, <2>2, <2>3, <2>4 DEF MicTypes, Fresh
<1>4. Bounded
  BY <1>1, <1>2, EnrollmentBounds DEF Bounded, Replacing
<1>5. Connected
  BY <1>1, <1>2 DEF Connected, OnTheLine, Fresh, NoSession, NoCmd
<1>6. BusyExact
  <2>1. \A h \in Parties : ~Holds(h)
    BY <1>0, <1>1 DEF Holds, Fresh, NoCmd, Claimed
  <2>2. w.job = 0 /\ 0 <= MaxJobs /\ busy = 0
    BY MicrophoneBounds DEF Fresh, NoJob
  <2> QED
    BY <1>0, <2>1, <2>2 DEF BusyExact, Claimed, Fresh, NoCmd
<1>7. Exclusion
  BY <1>1, <1>2 DEF Exclusion, SawIdle, SawClosed, Job, Window, Restarting, Replacing, Fresh, NoCmd
<1>8. Peripheral
  BY <1>1 DEF Peripheral, Quiet, Fresh, MicOff
<1>9. Tapped
  BY <1>1 DEF Tapped, Tapping, Capturing, Aired, Live, Fresh, NoSession, NoJob, NoGate, NoClip
<1> QED
  BY <1>3, <1>4, <1>5, <1>6, <1>7, <1>8, <1>9 DEF MicInv

(* The same after a step.                                                  *)
LEMMA FreshNext == Fresh' => MicInv'
BY FreshInv, PTL

(* Every step keeps the invariant.                                         *)
LEMMA MicInvKeeps ==
  ASSUME EnrollInv, MicInv, [Next]_vars
  PROVE  MicInv'
<1>1. CASE EnrollmentNext /\ UNCHANGED micVars
  BY <1>1, EnrollmentMic
<1>2. CASE \E t \in Threads : Request(t)
  BY <1>2, OnlyRequesters, ClaimMic, CheckMic, CommitMic DEF Request
<1>3. CASE WorkerStep
  BY <1>3, TakeMic, PrepareMic, CaptureMic, AfterMic, ExportMic, EndMic, AuthMic, WaitMic, ServeMic
     DEF WorkerStep
<1>4. CASE Reset
  <2>1. sec.bond \in Peers \cup {"none"} /\ button \in {0, 1}
    BY DEF EnrollInv, EnrollmentTypes, SecTypes, MicInv, MicTypes
  <2>2. Fresh'
    BY <1>4, <2>1 DEF Reset, EnrollmentReset, Fresh, Rebooted
  <2> QED
    BY <2>2, FreshNext
<1> QED
  BY <1>1, <1>2, <1>3, <1>4, SessionMic, OtherMic DEF Next, Request

(* busy is a lock, and the flags of the window and the restart do what     *)
(* they are for, in every reachable state.                                 *)
THEOREM MicrophoneInvariant == Spec => []MicInv
<1>1. Init => MicInv
  <2>1. Init => Fresh
    BY DEF Init, EnrollmentInit, Fresh, Rebooted
  <2> QED
    BY <2>1, FreshInv
<1>2. EnrollInv /\ MicInv /\ [Next]_vars => MicInv'
  BY MicInvKeeps
<1> QED
  BY <1>1, <1>2, EnrollmentInvariant, PTL DEF Spec

(* The microphone worker, the external reservation, an enrollment and a    *)
(* committed restart never overlap, in whatever order shell, main loop,    *)
(* recorder and Bluetooth thread raise their flag and look at the others'  *)
(* (queue_test, queue_ble, reserve_external, command_open, replace_local   *)
(* and command_restart), also in the half second before the reset.         *)
THEOREM ExclusiveHolds == Spec => []Exclusive
<1>1. EnrollInv /\ MicInv => Exclusive
  BY InvExclusive
<1> QED
  BY <1>1, EnrollmentInvariant, MicrophoneInvariant, PTL

(* The connection an enrollment or an audio session points to is never     *)
(* recycled for the next peer (ble_audio_disconnected, ble_audio_worker,   *)
(* release_enrollment), and every variable keeps its type.                 *)
THEOREM NoDanglingHolds == Spec => []NoDangling
<1>1. EnrollInv /\ MicInv => NoDangling
  BY InvNoDangling
<1> QED
  BY <1>1, EnrollmentInvariant, MicrophoneInvariant, PTL

(* A clip can be taken only from a quiet microphone, and over the air only *)
(* after a whole tap of that session and by its peer.                      *)
THEOREM ClipsAreConsentedHolds == Spec => []ClipsAreConsented
<1>1. EnrollInv /\ MicInv => ClipsAreConsented
  BY InvConsented
<1> QED
  BY <1>1, EnrollmentInvariant, MicrophoneInvariant, PTL
=============================================================================
