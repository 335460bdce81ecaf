-------------------------- MODULE EnrollmentProofs --------------------------
(***************************************************************************)
(* Enrollment, for any set of phones, any number of connections, windows   *)
(* and failures, and with everything the microphone does in between.       *)
(*                                                                         *)
(* Both properties rest on closing being a lock: it is set exactly while   *)
(* one thread is between detach_enrollment_locked (or the beginning of     *)
(* replace_local) and its release, so that nobody else closes, opens or    *)
(* joins a window meanwhile (ClosingExact).                                *)
(***************************************************************************)
EXTENDS Microphone, TLAPS

AllLabels == ShellLabels \cup BtLabels \cup WqLabels \cup ButtonLabels \cup MicLabels
             \cup CodecLabels

ModeNames == Modes \cup {"none"}
LocalTypes == [held : BOOLEAN, abort : BOOLEAN, drop : BOOLEAN, verify : BOOLEAN,
               deadline : Nat, mode : ModeNames]
WindowTypes == [open : BOOLEAN, closing : BOOLEAN, pending : Nat, code : BOOLEAN,
                deadline : Nat, late : BOOLEAN, n : Nat]
SecTypes == [ok : BOOLEAN, owners : {0, 1}, bond : Peers \cup {"none"}]
LinkTypes == [st : {"adv", "up", "dropping", "down", "recycled", "free"}, n : Nat,
              peer : Peers \cup {Free.peer}, secure : BOOLEAN,
              smp : {"none", "accepted", "shown"},
              refs : SUBSET {"pending", "audio", "worker"}]

(* Every thread is at a label of its own calls, with typed locals.         *)
EnrollmentTypes ==
  /\ pc \in [Threads -> AllLabels]
  /\ loc \in [Threads -> LocalTypes]
  /\ enr \in WindowTypes
  /\ sec \in SecTypes
  /\ link \in LinkTypes

OwnLabels ==
  /\ pc["shell"] \in ShellLabels /\ pc["bt"] \in BtLabels /\ pc["wq"] \in WqLabels
  /\ pc["button"] \in ButtonLabels /\ pc["mic"] \in MicLabels /\ pc["codec"] \in CodecLabels
  /\ \A t \in Threads : loc[t].verify => t = "bt"
  /\ link.st = "up" => link.peer \in Peers

(* The threads that have closing to themselves.                            *)
Replacing == {"claim", "unpair", "open", "failed"}
Closing(t) == pc[t] \in {"release"} \cup Replacing

ClosingExact ==
  /\ enr.closing <=> \E t \in Threads : Closing(t)
  /\ \A t, u \in Threads : Closing(t) /\ Closing(u) => t = u
  /\ enr.closing => ~enr.open
  /\ enr.pending # 0 => enr.open

(* A window has a deadline, and who goes to close one brings it.           *)
Deadlines ==
  /\ enr.open => enr.deadline = enr.n /\ enr.n > 0
  /\ enr.deadline \in {0, enr.n}
  /\ \A t \in Threads : pc[t] = "finish" => loc[t].deadline # 0

(* Once the old bond is gone no peer is connected until the new window.    *)
Ownership ==
  /\ pc["button"] = "open" => sec.bond = "none" /\ link.st # "up"
  /\ OwnerIsBond

EnrollInv == EnrollmentTypes /\ OwnLabels /\ ClosingExact /\ Deadlines /\ Ownership

-----------------------------------------------------------------------------
(* What the updates of a window leave: its fields, and the type.           *)
LEMMA WindowTyped ==
  ASSUME NEW e \in WindowTypes, NEW k \in Nat
  PROVE  /\ [e EXCEPT !.late = TRUE] \in WindowTypes
         /\ [e EXCEPT !.closing = TRUE] \in WindowTypes
         /\ [e EXCEPT !.closing = FALSE] \in WindowTypes
         /\ [e EXCEPT !.code = TRUE] \in WindowTypes
         /\ [e EXCEPT !.pending = k] \in WindowTypes
         /\ OpenWindow(e) \in WindowTypes
         /\ NoWindow \in WindowTypes
<1>1. e.n + 1 \in Nat
  BY DEF WindowTypes
<1>2. \A j \in Nat : [e EXCEPT !.open = TRUE, !.code = FALSE, !.deadline = j, !.n = j,
                               !.late = FALSE, !.closing = FALSE] \in WindowTypes
  BY DEF WindowTypes
<1>3. OpenWindow(e) \in WindowTypes
  BY <1>1, <1>2 DEF OpenWindow
<1>4. NoWindow \in WindowTypes
  BY DEF WindowTypes, NoWindow
<1> QED
  BY <1>3, <1>4 DEF WindowTypes

(* Detaching a window.                                                     *)
LEMMA DetachTyped ==
  ASSUME enr \in WindowTypes
  PROVE  /\ detach_enrollment_locked \in WindowTypes
         /\ ~detach_enrollment_locked.open /\ detach_enrollment_locked.closing
         /\ detach_enrollment_locked.pending = 0 /\ detach_enrollment_locked.deadline = 0
         /\ detach_enrollment_locked.n = enr.n
BY DEF WindowTypes, detach_enrollment_locked

(* Opening a window.                                                       *)
LEMMA OpenFields ==
  ASSUME NEW e \in WindowTypes
  PROVE  /\ OpenWindow(e).open /\ ~OpenWindow(e).closing
         /\ OpenWindow(e).pending = e.pending /\ OpenWindow(e).deadline = e.n + 1
         /\ OpenWindow(e).n = e.n + 1
BY DEF WindowTypes, OpenWindow

(* The locals of a call.                                                   *)
LEMMA LocalTyped ==
  ASSUME NEW r \in [Threads -> LocalTypes], NEW t \in Threads, NEW k \in Nat,
         NEW l \in LocalTypes, NEW m \in ModeNames
  PROVE  /\ [r EXCEPT ![t] = l] \in [Threads -> LocalTypes]
         /\ [r EXCEPT ![t].deadline = k] \in [Threads -> LocalTypes]
         /\ [r EXCEPT ![t].mode = m] \in [Threads -> LocalTypes]
         /\ NoLocals \in LocalTypes
BY DEF LocalTypes, NoLocals, ModeNames

(* The links of the model.                                                 *)
LEMMA LinkTyped ==
  ASSUME NEW l \in LinkTypes, NEW r \in SUBSET {"pending", "audio", "worker"}, NEW p \in Peers,
         NEW n \in Nat
  PROVE  /\ Dropped(l) \in LinkTypes /\ Dropped(l).st # "up"
         /\ Dropped(l).peer = l.peer /\ Dropped(l).n = l.n /\ Dropped(l).refs = l.refs
         /\ [l EXCEPT !.refs = r] \in LinkTypes
         /\ [l EXCEPT !.refs = r].st = l.st /\ [l EXCEPT !.refs = r].peer = l.peer
         /\ [l EXCEPT !.st = "up", !.n = n, !.peer = p] \in LinkTypes
BY DEF LinkTypes, Dropped

(* One thread moves.                                                       *)
LEMMA PcMoves ==
  ASSUME EnrollInv, NEW t \in Threads, NEW l \in AllLabels, pc' = [pc EXCEPT ![t] = l]
  PROVE  /\ pc' \in [Threads -> AllLabels] /\ pc'[t] = l
         /\ \A u \in Threads : u # t => pc'[u] = pc[u]
BY DEF EnrollInv, EnrollmentTypes

LabelsOf == [t \in Threads |->
               CASE t = "shell" -> ShellLabels [] t = "bt" -> BtLabels [] t = "wq" -> WqLabels
                 [] t = "button" -> ButtonLabels [] t = "codec" -> CodecLabels
                 [] OTHER -> MicLabels]

(* The labels of a thread, one by one.                                     *)
LEMMA LabelsOfThreads ==
  /\ LabelsOf["shell"] = ShellLabels /\ LabelsOf["bt"] = BtLabels /\ LabelsOf["wq"] = WqLabels
  /\ LabelsOf["button"] = ButtonLabels /\ LabelsOf["mic"] = MicLabels
  /\ LabelsOf["codec"] = CodecLabels
  /\ \A t \in Threads : LabelsOf[t] \subseteq AllLabels
BY DEF LabelsOf, Threads, AllLabels

(* OwnLabels, when one thread moves.                                       *)
LEMMA OwnLabelsKeeps ==
  ASSUME OwnLabels, NEW t \in Threads, pc'[t] \in LabelsOf[t],
         \A u \in Threads : u # t => pc'[u] = pc[u],
         \A u \in Threads : u # t => loc'[u] = loc[u],
         loc'[t].verify => t = "bt",
         link'.st = "up" => link'.peer \in Peers
  PROVE  OwnLabels'
<1>1. \A u \in Threads : pc[u] \in LabelsOf[u]
  BY LabelsOfThreads DEF OwnLabels, Threads
<1>2. \A u \in Threads : pc'[u] \in LabelsOf[u]
  BY <1>1
<1>3. /\ pc'["shell"] \in ShellLabels /\ pc'["bt"] \in BtLabels /\ pc'["wq"] \in WqLabels
      /\ pc'["button"] \in ButtonLabels /\ pc'["mic"] \in MicLabels /\ pc'["codec"] \in CodecLabels
  BY <1>2, LabelsOfThreads DEF Threads
<1>4. \A u \in Threads : loc'[u].verify => u = "bt"
  BY DEF OwnLabels
<1> QED
  BY <1>3, <1>4 DEF OwnLabels

(* ClosingExact, when one thread moves: it touches closing only to take it *)
(* free or to give back what it holds.                                     *)
LEMMA ClosingKeeps ==
  ASSUME ClosingExact, NEW t \in Threads,
         \A u \in Threads : u # t => pc'[u] = pc[u],
         \/ (enr'.closing <=> enr.closing) /\ (Closing(t)' <=> Closing(t))
         \/ ~enr.closing /\ enr'.closing /\ Closing(t)'
         \/ Closing(t) /\ ~enr'.closing /\ ~Closing(t)',
         enr'.closing => ~enr'.open,
         enr'.pending # 0 => enr'.open
  PROVE  ClosingExact'
<1>1. \A u \in Threads : u # t => (Closing(u)' <=> Closing(u))
  BY DEF Closing
<1>2. /\ enr.closing <=> \E u \in Threads : Closing(u)
      /\ \A u, v \in Threads : Closing(u) /\ Closing(v) => u = v
  BY DEF ClosingExact
<1>3. /\ enr'.closing <=> \E u \in Threads : Closing(u)'
      /\ \A u, v \in Threads : Closing(u)' /\ Closing(v)' => u = v
  <2>1. CASE (enr'.closing <=> enr.closing) /\ (Closing(t)' <=> Closing(t))
    BY <1>1, <1>2, <2>1
  <2>2. CASE ~enr.closing /\ enr'.closing /\ Closing(t)'
    BY <1>1, <1>2, <2>2
  <2>3. CASE Closing(t) /\ ~enr'.closing /\ ~Closing(t)'
    BY <1>1, <1>2, <2>3
  <2> QED
    BY <2>1, <2>2, <2>3
<1> QED
  BY <1>3 DEF ClosingExact

(* Deadlines, when one thread moves.                                       *)
LEMMA DeadlinesKeeps ==
  ASSUME Deadlines, NEW t \in Threads,
         \A u \in Threads : u # t => pc'[u] = pc[u],
         \A u \in Threads : u # t => loc'[u] = loc[u],
         pc'[t] = "finish" => loc'[t].deadline # 0,
         enr'.open => enr'.deadline = enr'.n /\ enr'.n > 0,
         enr'.deadline \in {0, enr'.n}
  PROVE  Deadlines'
BY DEF Deadlines

(* Ownership, when neither owner nor bond changes and no peer comes up.    *)
LEMMA OwnerStays ==
  ASSUME Ownership, sec' = sec,
         pc'["button"] = "open" => pc["button"] = "open",
         pc["button"] \in {"open", "failed"} => pc'["button"] \in {"open", "failed"},
         link'.st = "up" => link.st = "up"
  PROVE  Ownership'
BY DEF Ownership, OwnerIsBond

(* A step that neither closes, opens nor joins a window: every step of the *)
(* microphone but a lost connection and a reset, and many of enrollment.   *)
Elsewhere == {"release", "finish"} \cup Replacing
Beside(t) ==
  /\ \E l \in LabelsOf[t] : /\ pc' = [pc EXCEPT ![t] = l]
                            /\ l = pc[t] \/ (l \notin Elsewhere /\ pc[t] \notin Elsewhere)
  /\ loc' \in [Threads -> LocalTypes] /\ \A u \in Threads : u # t => loc'[u] = loc[u]
  /\ loc'[t].verify = loc[t].verify /\ loc'[t].deadline = loc[t].deadline
  /\ enr' \in WindowTypes
  /\ enr'.open = enr.open /\ enr'.closing = enr.closing /\ enr'.pending = enr.pending
  /\ enr'.deadline = enr.deadline /\ enr'.n = enr.n
  /\ sec' = sec
  /\ link' \in LinkTypes
  /\ link'.st = "up" => link.st = "up" /\ link'.peer = link.peer

(* A step beside enrollment (the microphone's worker, its clip and session *)
(* code in mic_commands.c and ble_audio.c) keeps the invariant.            *)
LEMMA BesideKeeps == ASSUME EnrollInv, NEW t \in Threads, Beside(t) PROVE EnrollInv'
<1>0. EnrollmentTypes /\ OwnLabels /\ ClosingExact /\ Deadlines /\ Ownership
  BY DEF EnrollInv
<1>1. PICK l \in LabelsOf[t] : /\ pc' = [pc EXCEPT ![t] = l]
                               /\ l = pc[t] \/ (l \notin Elsewhere /\ pc[t] \notin Elsewhere)
  BY DEF Beside
<1>2. /\ pc' \in [Threads -> AllLabels] /\ pc'[t] = l
      /\ \A u \in Threads : u # t => pc'[u] = pc[u]
  BY <1>1, PcMoves, LabelsOfThreads
<1>3. /\ \A u \in Threads : u # t => loc'[u] = loc[u]
      /\ loc'[t].verify = loc[t].verify /\ loc'[t].deadline = loc[t].deadline
  BY DEF Beside
<1>4. EnrollmentTypes'
  BY <1>0, <1>2 DEF Beside, EnrollmentTypes
<1>5. OwnLabels'
  <2>1. loc'[t].verify => t = "bt"
    BY <1>0, <1>3 DEF OwnLabels
  <2>2. link'.st = "up" => link'.peer \in Peers
    BY <1>0 DEF Beside, OwnLabels
  <2> QED
    BY <1>0, <1>2, <1>3, <2>1, <2>2, OwnLabelsKeeps
<1>6. ClosingExact'
  <2>1. /\ (enr'.closing <=> enr.closing) /\ (Closing(t)' <=> Closing(t))
    BY <1>1, <1>2 DEF Beside, Closing, Elsewhere, Replacing
  <2>2. (enr'.closing => ~enr'.open) /\ (enr'.pending # 0 => enr'.open)
    BY <1>0 DEF Beside, ClosingExact
  <2> QED
    BY <1>0, <1>2, <2>1, <2>2, ClosingKeeps
<1>7. Deadlines'
  <2>1. /\ enr'.open => enr'.deadline = enr'.n /\ enr'.n > 0
        /\ enr'.deadline \in {0, enr'.n}
    BY <1>0 DEF Beside, Deadlines
  <2>2. pc'[t] = "finish" => loc'[t].deadline # 0
    BY <1>0, <1>1, <1>2, <1>3 DEF Deadlines, Elsewhere
  <2> QED
    BY <1>0, <1>2, <1>3, <2>1, <2>2, DeadlinesKeeps
<1>8. Ownership'
  <2>1. /\ pc'["button"] = "open" => pc["button"] = "open"
        /\ pc["button"] \in {"open", "failed"} => pc'["button"] \in {"open", "failed"}
    BY <1>1, <1>2 DEF Elsewhere, Replacing, Threads
  <2> QED
    BY <1>0, <2>1, OwnerStays DEF Beside
<1> QED
  BY <1>4, <1>5, <1>6, <1>7, <1>8 DEF EnrollInv

(* finish_enrollment, from the shell, the Bluetooth thread or the work     *)
(* queue: closing is taken only free, and left to the caller's release.    *)
LEMMA FinishKeeps ==
  ASSUME EnrollInv, NEW t \in {"shell", "bt", "wq"}, pc[t] # "release",
         NEW expected, NEW abort \in BOOLEAN, NEW expired, NEW drop \in BOOLEAN,
         finish_enrollment(t, expected, abort, expired, drop),
         sec' \in SecTypes, Ownership'
  PROVE  EnrollInv'
<1>0. /\ EnrollmentTypes /\ OwnLabels /\ ClosingExact /\ Deadlines /\ t \in Threads
      /\ ~Closing(t) /\ t # "button"
  BY DEF EnrollInv, Threads, Closing, OwnLabels, ShellLabels, BtLabels, WqLabels, Replacing
<1>1. {"idle", "release"} \subseteq LabelsOf[t] /\ {"idle", "release"} \subseteq AllLabels
  BY LabelsOfThreads DEF ShellLabels, BtLabels, WqLabels, AllLabels
<1>2. link' \in LinkTypes /\ (link'.st = "up" => link'.peer \in Peers)
  <2>1. link \in LinkTypes /\ (link.st = "up" => link.peer \in Peers)
    BY <1>0 DEF EnrollmentTypes, OwnLabels
  <2>2. Dropped(link) \in LinkTypes /\ Dropped(link).st # "up"
    BY <2>1 DEF LinkTypes, Dropped
  <2> QED
    BY <2>1, <2>2 DEF finish_enrollment
<1>3. CASE FinishRefused(expected, expired)
  <2>1. /\ pc' = [pc EXCEPT ![t] = "idle"] /\ loc' = loc /\ enr' = enr
    BY <1>3 DEF finish_enrollment, Goto
  <2>2. /\ pc' \in [Threads -> AllLabels] /\ pc'[t] = "idle"
        /\ \A u \in Threads : u # t => pc'[u] = pc[u]
    BY <1>0, <1>1, <2>1, PcMoves
  <2>3. EnrollmentTypes'
    BY <1>0, <1>2, <2>1, <2>2 DEF EnrollmentTypes
  <2>4. OwnLabels'
    <3>1. loc'[t].verify => t = "bt"
      BY <1>0, <2>1 DEF OwnLabels
    <3> QED
      BY <1>0, <1>1, <1>2, <2>1, <2>2, <3>1, OwnLabelsKeeps
  <2>5. ClosingExact'
    <3>1. ~Closing(t)'
      BY <2>2 DEF Closing, Replacing
    <3> QED
      BY <1>0, <2>1, <2>2, <3>1, ClosingKeeps DEF ClosingExact
  <2>6. Deadlines'
    BY <1>0, <2>1, <2>2, DeadlinesKeeps DEF Deadlines
  <2> QED
    BY <2>3, <2>4, <2>5, <2>6 DEF EnrollInv
<1>4. CASE ~FinishRefused(expected, expired)
  <2> DEFINE mine == [held |-> enr.pending # 0, abort |-> abort, drop |-> drop,
                      verify |-> FALSE, deadline |-> 0, mode |-> "none"]
  <2>1. /\ pc' = [pc EXCEPT ![t] = "release"] /\ enr' = detach_enrollment_locked
        /\ loc' = [loc EXCEPT ![t] = mine]
    BY <1>4 DEF finish_enrollment, Goto
  <2>2. /\ pc' \in [Threads -> AllLabels] /\ pc'[t] = "release"
        /\ \A u \in Threads : u # t => pc'[u] = pc[u]
    BY <1>0, <1>1, <2>1, PcMoves
  <2>3. mine \in LocalTypes /\ mine.verify = FALSE
    BY DEF LocalTypes, ModeNames
  <2>4. loc \in [Threads -> LocalTypes]
    BY <1>0 DEF EnrollmentTypes
  <2> HIDE DEF mine
  <2>5. /\ loc' \in [Threads -> LocalTypes] /\ loc'[t].verify = FALSE
        /\ \A u \in Threads : u # t => loc'[u] = loc[u]
    BY <1>0, <2>1, <2>3, <2>4
  <2>6. /\ enr' \in WindowTypes /\ ~enr'.open /\ enr'.closing
        /\ enr'.pending = 0 /\ enr'.deadline = 0
    BY <1>0, <2>1, DetachTyped DEF EnrollmentTypes
  <2>7. EnrollmentTypes'
    BY <1>0, <1>2, <2>2, <2>5, <2>6 DEF EnrollmentTypes
  <2>8. OwnLabels'
    BY <1>0, <1>1, <1>2, <2>2, <2>5, OwnLabelsKeeps
  <2>9. ClosingExact'
    <3>1. ~enr.closing /\ Closing(t)'
      BY <1>4, <2>2 DEF FinishRefused, Closing
    <3> QED
      BY <1>0, <2>2, <2>6, <3>1, ClosingKeeps
  <2>10. Deadlines'
    BY <1>0, <2>2, <2>5, <2>6, DeadlinesKeeps
  <2> QED
    BY <2>7, <2>8, <2>9, <2>10 DEF EnrollInv
<1> QED
  BY <1>3, <1>4

(* The same where the owner does not change.                               *)
LEMMA FinishStays ==
  ASSUME EnrollInv, NEW t \in {"shell", "bt", "wq"}, pc[t] # "release",
         NEW expected, NEW abort \in BOOLEAN, NEW expired, NEW drop \in BOOLEAN,
         finish_enrollment(t, expected, abort, expired, drop), sec' = sec
  PROVE  EnrollInv'
<1>1. pc'["button"] = pc["button"]
  BY DEF finish_enrollment, Goto, EnrollInv, EnrollmentTypes, Threads
<1>a. Ownership /\ sec \in SecTypes
  BY DEF EnrollInv, EnrollmentTypes
<1>2. link'.st = "up" => link.st = "up"
  BY DEF finish_enrollment, EnrollInv, EnrollmentTypes, LinkTypes, Dropped
<1>3. Ownership' /\ sec' \in SecTypes
  BY <1>1, <1>2, <1>a, OwnerStays
<1> QED
  BY <1>3, FinishKeeps

-----------------------------------------------------------------------------
(* The steps that touch the window, one by one.                            *)

(* The tail of finish_enrollment, which gives closing back.                *)
LEMMA ReleaseKeeps ==
  ASSUME EnrollInv, NEW t \in Threads, release_enrollment(t)
  PROVE  EnrollInv'
<1>0. EnrollmentTypes /\ OwnLabels /\ ClosingExact /\ Deadlines /\ Ownership
  BY DEF EnrollInv
<1> DEFINE l == IF loc[t].verify THEN "verify" ELSE "idle"
           freed == [link EXCEPT !.refs = unref_pending(loc[t].held)]
<1>1. /\ pc[t] = "release" /\ pc' = [pc EXCEPT ![t] = l]
      /\ link' = freed \/ link' = Dropped(freed)
      /\ enr' = [enr EXCEPT !.closing = FALSE] /\ loc' = [loc EXCEPT ![t] = NoLocals]
      /\ sec' = sec
  BY DEF release_enrollment, Goto
<1>2. t \in {"shell", "bt", "wq"}
  BY <1>0, <1>1 DEF OwnLabels, Threads, ButtonLabels, MicLabels, CodecLabels
<1>3. l \in LabelsOf[t] /\ l \in AllLabels /\ l \in {"verify", "idle"}
  BY <1>0, <1>2, LabelsOfThreads DEF OwnLabels, Threads, ShellLabels, BtLabels, WqLabels, AllLabels
<1>4. /\ pc' \in [Threads -> AllLabels] /\ pc'[t] = l
      /\ \A u \in Threads : u # t => pc'[u] = pc[u]
  BY <1>1, <1>3, PcMoves
<1> HIDE DEF l
<1>5. /\ loc' \in [Threads -> LocalTypes] /\ loc'[t] = NoLocals
      /\ \A u \in Threads : u # t => loc'[u] = loc[u]
  <2>1. loc \in [Threads -> LocalTypes] /\ NoLocals \in LocalTypes
    BY <1>0 DEF EnrollmentTypes, LocalTypes, NoLocals, ModeNames
  <2> QED
    BY <1>1, <2>1
<1>6. link' \in LinkTypes /\ (link'.st = "up" => link.st = "up" /\ link'.peer = link.peer)
  <2>1. link \in LinkTypes /\ unref_pending(loc[t].held) \in SUBSET {"pending", "audio", "worker"}
    BY <1>0 DEF EnrollmentTypes, LinkTypes, unref_pending
  <2>2. freed \in LinkTypes /\ freed.st = link.st /\ freed.peer = link.peer
    BY <2>1 DEF LinkTypes
  <2> HIDE DEF freed
  <2>3. Dropped(freed) \in LinkTypes /\ Dropped(freed).st # "up"
    BY <2>2 DEF LinkTypes, Dropped
  <2> QED
    BY <1>1, <2>2, <2>3
<1>7. /\ enr' \in WindowTypes /\ ~enr'.closing /\ enr'.open = enr.open
      /\ enr'.pending = enr.pending /\ enr'.deadline = enr.deadline /\ enr'.n = enr.n
  <2>1. enr \in WindowTypes
    BY <1>0 DEF EnrollmentTypes
  <2> QED
    BY <1>1, <2>1 DEF WindowTypes
<1>8. EnrollmentTypes'
  BY <1>0, <1>1, <1>4, <1>5, <1>6, <1>7 DEF EnrollmentTypes
<1>9. OwnLabels'
  <2>1. loc'[t].verify => t = "bt"
    BY <1>5 DEF NoLocals
  <2>2. link'.st = "up" => link'.peer \in Peers
    BY <1>0, <1>6 DEF OwnLabels
  <2> QED
    BY <1>0, <1>3, <1>4, <1>5, <2>1, <2>2, OwnLabelsKeeps
<1>10. ClosingExact'
  <2>1. Closing(t) /\ ~Closing(t)'
    BY <1>1, <1>3, <1>4 DEF Closing, Replacing
  <2>2. enr'.pending # 0 => enr'.open
    BY <1>0, <1>7 DEF ClosingExact
  <2> QED
    BY <1>0, <1>4, <1>7, <2>1, <2>2, ClosingKeeps
<1>11. Deadlines'
  <2>1. /\ enr'.open => enr'.deadline = enr'.n /\ enr'.n > 0
        /\ enr'.deadline \in {0, enr'.n}
    BY <1>0, <1>7 DEF Deadlines
  <2> QED
    BY <1>0, <1>3, <1>4, <1>5, <2>1, DeadlinesKeeps
<1>12. Ownership'
  <2>1. pc'["button"] = pc["button"]
    BY <1>2, <1>4 DEF Threads
  <2> QED
    BY <1>0, <1>1, <1>6, <2>1, OwnerStays
<1> QED
  BY <1>8, <1>9, <1>10, <1>11, <1>12 DEF EnrollInv

(* The expiry reads the deadline it will close by.                         *)
LEMMA ExpireWindowKeeps ==
  ASSUME EnrollInv, NEW t \in Threads, expire_window(t)
  PROVE  EnrollInv'
<1>0. EnrollmentTypes /\ OwnLabels /\ ClosingExact /\ Deadlines /\ Ownership
  BY DEF EnrollInv
<1>1. pc[t] = "expire" /\ enr' = enr /\ sec' = sec /\ link' = link
  BY DEF expire_window
<1>2. t \in {"shell", "wq"}
  BY <1>0, <1>1 DEF OwnLabels, Threads, ButtonLabels, MicLabels, BtLabels, CodecLabels
<1>3. {"idle", "finish"} \subseteq LabelsOf[t] /\ {"idle", "finish"} \subseteq AllLabels
  BY <1>2, LabelsOfThreads DEF ShellLabels, WqLabels, AllLabels
<1>4. CASE enr.open /\ enr.late
  <2>1. pc' = [pc EXCEPT ![t] = "finish"] /\ loc' = [loc EXCEPT ![t].deadline = enr.deadline]
    BY <1>4 DEF expire_window, Goto
  <2>2. /\ pc' \in [Threads -> AllLabels] /\ pc'[t] = "finish"
        /\ \A u \in Threads : u # t => pc'[u] = pc[u]
    BY <1>3, <2>1, PcMoves
  <2>3. enr.deadline \in Nat /\ enr.deadline # 0 /\ loc \in [Threads -> LocalTypes]
    BY <1>0, <1>4 DEF EnrollmentTypes, WindowTypes, Deadlines
  <2>4. /\ loc' \in [Threads -> LocalTypes] /\ loc'[t].deadline = enr.deadline
        /\ loc'[t].verify = loc[t].verify /\ \A u \in Threads : u # t => loc'[u] = loc[u]
    BY <2>1, <2>3 DEF LocalTypes
  <2>5. EnrollmentTypes'
    BY <1>0, <1>1, <2>2, <2>4 DEF EnrollmentTypes
  <2>6. OwnLabels'
    <3>1. (loc'[t].verify => t = "bt") /\ (link'.st = "up" => link'.peer \in Peers)
      BY <1>0, <1>1, <2>4 DEF OwnLabels
    <3> QED
      BY <1>0, <1>3, <2>2, <2>4, <3>1, OwnLabelsKeeps
  <2>7. ClosingExact'
    <3>1. ~Closing(t) /\ ~Closing(t)'
      BY <1>1, <2>2 DEF Closing, Replacing
    <3> QED
      BY <1>0, <1>1, <2>2, <3>1, ClosingKeeps DEF ClosingExact
  <2>8. Deadlines'
    BY <1>0, <1>1, <2>2, <2>3, <2>4, DeadlinesKeeps DEF Deadlines
  <2>9. Ownership'
    <3>1. pc'["button"] = pc["button"]
      BY <1>2, <2>2 DEF Threads
    <3> QED
      BY <1>0, <1>1, <3>1, OwnerStays
  <2> QED
    BY <2>5, <2>6, <2>7, <2>8, <2>9 DEF EnrollInv
<1>5. CASE ~(enr.open /\ enr.late)
  <2>1. pc' = [pc EXCEPT ![t] = "idle"] /\ loc' = loc
    BY <1>5 DEF expire_window, Goto
  <2>2. "idle" \notin Elsewhere /\ "expire" \notin Elsewhere
    BY DEF Elsewhere, Replacing
  <2>3. Beside(t)
    BY <1>0, <1>1, <1>3, <2>1, <2>2 DEF Beside, EnrollmentTypes
  <2> QED
    BY <2>3, BesideKeeps
<1> QED
  BY <1>4, <1>5

(* enroll open, at the USB shell, when it opens the window.                *)
LEMMA CommandOpenKeeps ==
  ASSUME EnrollInv, command_open, WindowAllowed, enr.n < MaxWindows
  PROVE  EnrollInv'
<1>0. EnrollmentTypes /\ OwnLabels /\ ClosingExact /\ Deadlines /\ Ownership
  BY DEF EnrollInv
<1>1. PICK l \in {"idle", "close"} : pc' = [pc EXCEPT !["shell"] = l]
  BY <1>0 DEF command_open, Goto, Idle, EnrollmentTypes
<1>2. /\ pc["shell"] = "opening" /\ ~enr.open /\ enr.pending = 0 /\ ~enr.closing
      /\ enr' = OpenWindow(enr) /\ loc' = loc /\ sec' = sec /\ link' = link
  BY DEF command_open, WindowAllowed, pairing_busy, Idle
<1>3. l \in LabelsOf["shell"] /\ l \in AllLabels /\ "shell" \in Threads
  BY LabelsOfThreads DEF ShellLabels, AllLabels, Threads
<1>4. /\ pc' \in [Threads -> AllLabels] /\ pc'["shell"] = l
      /\ \A u \in Threads : u # "shell" => pc'[u] = pc[u]
  BY <1>1, <1>3, PcMoves
<1>5. /\ enr' \in WindowTypes /\ enr'.open /\ ~enr'.closing /\ enr'.pending = 0
      /\ enr'.deadline = enr'.n /\ enr'.n > 0
  <2>1. enr \in WindowTypes /\ enr.n \in Nat
    BY <1>0 DEF EnrollmentTypes, WindowTypes
  <2>2. OpenWindow(enr) \in WindowTypes
    BY <2>1, WindowTyped
  <2>3. /\ enr'.open /\ ~enr'.closing /\ enr'.pending = 0 /\ enr'.deadline = enr.n + 1
        /\ enr'.n = enr.n + 1
    BY <1>2, <2>1, OpenFields
  <2> QED
    BY <1>2, <2>1, <2>2, <2>3
<1>6. EnrollmentTypes'
  BY <1>0, <1>2, <1>4, <1>5 DEF EnrollmentTypes
<1>7. OwnLabels'
  <2>1. (loc'["shell"].verify => "shell" = "bt") /\ (link'.st = "up" => link'.peer \in Peers)
    BY <1>0, <1>2, <1>3 DEF OwnLabels
  <2> QED
    BY <1>0, <1>2, <1>3, <1>4, <2>1, OwnLabelsKeeps
<1>8. ClosingExact'
  <2>1. ~Closing("shell") /\ ~Closing("shell")'
    BY <1>1, <1>2, <1>4 DEF Closing, Replacing
  <2> QED
    BY <1>0, <1>2, <1>3, <1>4, <1>5, <2>1, ClosingKeeps
<1>9. Deadlines'
  BY <1>0, <1>1, <1>2, <1>3, <1>4, <1>5, DeadlinesKeeps
<1>10. Ownership'
  <2>1. pc'["button"] = pc["button"]
    BY <1>4 DEF Threads
  <2> QED
    BY <1>0, <1>2, <2>1, OwnerStays
<1> QED
  BY <1>6, <1>7, <1>8, <1>9, <1>10 DEF EnrollInv

(* replace_local takes closing, so that no window opens while it works.    *)
LEMMA ReplaceBeginKeeps ==
  ASSUME EnrollInv, replace_begin
  PROVE  EnrollInv'
<1>0. EnrollmentTypes /\ OwnLabels /\ ClosingExact /\ Deadlines /\ Ownership
  BY DEF EnrollInv
<1>2. /\ pc["button"] = "idle" /\ ~enr.open /\ enr.pending = 0 /\ ~enr.closing
      /\ pc' = [pc EXCEPT !["button"] = "claim"]
      /\ enr' = [enr EXCEPT !.closing = TRUE] /\ loc' = loc /\ sec' = sec /\ link' = link
  BY DEF replace_begin, WindowAllowed, pairing_busy, Idle, Goto
<1>3. "claim" \in LabelsOf["button"] /\ "claim" \in AllLabels /\ "button" \in Threads
  BY LabelsOfThreads DEF ButtonLabels, AllLabels, Threads
<1>4. /\ pc' \in [Threads -> AllLabels] /\ pc'["button"] = "claim"
      /\ \A u \in Threads : u # "button" => pc'[u] = pc[u]
  BY <1>2, <1>3, PcMoves
<1>5. /\ enr' \in WindowTypes /\ ~enr'.open /\ enr'.closing /\ enr'.pending = 0
      /\ enr'.deadline = enr.deadline /\ enr'.n = enr.n
  <2>1. enr \in WindowTypes
    BY <1>0 DEF EnrollmentTypes
  <2> QED
    BY <1>2, <2>1 DEF WindowTypes
<1>6. EnrollmentTypes'
  BY <1>0, <1>2, <1>4, <1>5 DEF EnrollmentTypes
<1>7. OwnLabels'
  <2>1. (loc'["button"].verify => "button" = "bt") /\ (link'.st = "up" => link'.peer \in Peers)
    BY <1>0, <1>2, <1>3 DEF OwnLabels
  <2> QED
    BY <1>0, <1>2, <1>3, <1>4, <2>1, OwnLabelsKeeps
<1>8. ClosingExact'
  <2>1. Closing("button")'
    BY <1>4 DEF Closing, Replacing
  <2> QED
    BY <1>0, <1>2, <1>3, <1>4, <1>5, <2>1, ClosingKeeps
<1>9. Deadlines'
  <2>1. enr'.deadline \in {0, enr'.n}
    BY <1>0, <1>5 DEF Deadlines
  <2> QED
    BY <1>0, <1>2, <1>3, <1>4, <1>5, <2>1, DeadlinesKeeps
<1>10. Ownership'
  BY <1>0, <1>2, <1>4, OwnerStays
<1> QED
  BY <1>6, <1>7, <1>8, <1>9, <1>10 DEF EnrollInv

(* The rest of replace_local: while it holds closing it may lose the bond, *)
(* and it gives closing back with the window open or not at all.           *)
LEMMA ReplacingKeeps ==
  ASSUME EnrollInv, pc["button"] \in Replacing, NEW l \in ButtonLabels,
         pc' = [pc EXCEPT !["button"] = l], loc' = loc,
         enr' \in WindowTypes, sec' \in SecTypes, link' \in LinkTypes,
         link'.st = "up" => link.st = "up" /\ link'.peer = link.peer,
         \/ l \in Replacing /\ enr' = enr
         \/ l \notin Replacing /\ ~enr'.closing,
         enr'.pending # 0 => enr'.open,
         enr'.open => enr'.deadline = enr'.n /\ enr'.n > 0,
         enr'.deadline \in {0, enr'.n},
         Ownership'
  PROVE  EnrollInv'
<1>0. EnrollmentTypes /\ OwnLabels /\ ClosingExact /\ Deadlines
  BY DEF EnrollInv
<1>3. l \in LabelsOf["button"] /\ l \in AllLabels /\ "button" \in Threads
  BY LabelsOfThreads DEF AllLabels, Threads
<1>4. /\ pc' \in [Threads -> AllLabels] /\ pc'["button"] = l
      /\ \A u \in Threads : u # "button" => pc'[u] = pc[u]
  BY <1>3, PcMoves
<1>6. EnrollmentTypes'
  BY <1>0, <1>4 DEF EnrollmentTypes
<1>7. OwnLabels'
  <2>1. (loc'["button"].verify => "button" = "bt") /\ (link'.st = "up" => link'.peer \in Peers)
    BY <1>0, <1>3 DEF OwnLabels
  <2> QED
    BY <1>0, <1>3, <1>4, <2>1, OwnLabelsKeeps
<1>8. ClosingExact'
  <2>1. Closing("button") /\ enr.closing
    BY <1>0, <1>3 DEF Closing, ClosingExact
  <2>2. l # "release"
    BY DEF ButtonLabels
  <2>3. Closing("button")' <=> l \in Replacing
    BY <1>4, <2>2 DEF Closing
  <2>4. \/ (enr'.closing <=> enr.closing) /\ (Closing("button")' <=> Closing("button"))
        \/ Closing("button") /\ ~enr'.closing /\ ~Closing("button")'
    BY <2>1, <2>3
  <2>5. enr'.closing => ~enr'.open
    BY <1>0 DEF ClosingExact
  <2> QED
    BY <1>0, <1>3, <1>4, <2>4, <2>5, ClosingKeeps
<1>9. Deadlines'
  <2>1. l # "finish"
    BY DEF ButtonLabels
  <2> QED
    BY <1>0, <1>3, <1>4, <2>1, DeadlinesKeeps
<1> QED
  BY <1>6, <1>7, <1>8, <1>9 DEF EnrollInv

(* replace_claim: the recorder may refuse.                                 *)
LEMMA ReplaceClaimKeeps ==
  ASSUME EnrollInv, replace_claim
  PROVE  EnrollInv'
<1>0. /\ EnrollmentTypes /\ ClosingExact /\ Deadlines /\ Ownership /\ enr \in WindowTypes
      /\ sec \in SecTypes /\ link \in LinkTypes /\ pc \in [Threads -> AllLabels]
  BY DEF EnrollInv, EnrollmentTypes
<1>1. pc["button"] = "claim" /\ loc' = loc /\ sec' = sec /\ link' = link
  BY DEF replace_claim
<1>2. CASE Goto("button", "unpair") /\ enr' = enr
  <2>1. Ownership'
    BY <1>0, <1>1, <1>2, OwnerStays DEF Goto, Threads
  <2>2. pc["button"] \in Replacing /\ "unpair" \in Replacing /\ "unpair" \in ButtonLabels
    BY <1>1 DEF Replacing, ButtonLabels
  <2> QED
    BY <1>0, <1>1, <1>2, <2>1, <2>2, ReplacingKeeps DEF Goto, ClosingExact, Deadlines
<1>3. CASE Goto("button", "idle") /\ enr' = [enr EXCEPT !.closing = FALSE]
  <2>1. Ownership'
    BY <1>0, <1>1, <1>3, OwnerStays DEF Goto, Threads
  <2>2. pc["button"] \in Replacing /\ "idle" \notin Replacing /\ "idle" \in ButtonLabels
    BY <1>1 DEF Replacing, ButtonLabels
  <2>3. /\ enr' \in WindowTypes /\ enr'.open = enr.open /\ ~enr'.closing
        /\ enr'.pending = enr.pending /\ enr'.deadline = enr.deadline /\ enr'.n = enr.n
    BY <1>0, <1>3 DEF WindowTypes
  <2>4. (enr'.pending # 0 => enr'.open) /\ enr'.deadline \in {0, enr'.n}
        /\ (enr'.open => enr'.deadline = enr'.n /\ enr'.n > 0)
    BY <1>0, <2>3 DEF ClosingExact, Deadlines
  <2> QED
    BY <1>0, <1>1, <1>3, <2>1, <2>2, <2>3, <2>4, ReplacingKeeps DEF Goto
<1> QED
  BY <1>2, <1>3 DEF replace_claim

(* replace_unpair: the peer is dropped with its bond.                      *)
LEMMA ReplaceUnpairKeeps ==
  ASSUME EnrollInv, replace_unpair
  PROVE  EnrollInv'
<1>0. /\ EnrollmentTypes /\ ClosingExact /\ Deadlines /\ Ownership /\ enr \in WindowTypes
      /\ sec \in SecTypes /\ link \in LinkTypes /\ pc \in [Threads -> AllLabels]
  BY DEF EnrollInv, EnrollmentTypes
<1>1. /\ pc["button"] = "unpair" /\ loc' = loc /\ enr' = enr /\ link' = Dropped(link)
  BY DEF replace_unpair
<1>2. link' \in LinkTypes /\ link'.st # "up"
  BY <1>0, <1>1 DEF LinkTypes, Dropped
<1>3. PICK l \in {"open", "failed"}, b \in {sec.bond, "none"} :
        /\ pc' = [pc EXCEPT !["button"] = l] /\ sec' = [sec EXCEPT !.bond = b]
        /\ l = "open" => b = "none"
  BY DEF replace_unpair, Goto
<1>4. sec' \in SecTypes /\ sec'.bond = b
  BY <1>0, <1>3 DEF SecTypes
<1>5. pc'["button"] = l
  BY <1>0, <1>3 DEF Threads
<1>6. Ownership'
  BY <1>2, <1>3, <1>4, <1>5 DEF Ownership, OwnerIsBond
<1>7. pc["button"] \in Replacing /\ l \in Replacing /\ l \in ButtonLabels
  BY <1>1 DEF Replacing, ButtonLabels
<1> QED
  BY <1>0, <1>1, <1>2, <1>3, <1>4, <1>6, <1>7, ReplacingKeeps DEF ClosingExact, Deadlines

(* replace_open: the new window, or the radio closed for this boot.        *)
LEMMA ReplaceOpenKeeps ==
  ASSUME EnrollInv, replace_open
  PROVE  EnrollInv'
<1>0. /\ EnrollmentTypes /\ ClosingExact /\ Deadlines /\ Ownership /\ enr \in WindowTypes
      /\ sec \in SecTypes /\ link \in LinkTypes /\ pc \in [Threads -> AllLabels]
  BY DEF EnrollInv, EnrollmentTypes
<1>1. /\ pc["button"] \in {"open", "failed"} /\ loc' = loc /\ link' = link
      /\ pc' = [pc EXCEPT !["button"] = "idle"]
  BY DEF replace_open, Goto
<1>2. pc'["button"] = "idle"
  BY <1>0, <1>1 DEF Threads
<1>3. pc["button"] \in Replacing /\ "idle" \notin Replacing /\ "idle" \in ButtonLabels
  BY <1>1 DEF Replacing, ButtonLabels
<1>4. enr.closing /\ enr.pending = 0 /\ ~enr.open
  <2>1. Closing("button") /\ "button" \in Threads
    BY <1>3 DEF Closing, Threads
  <2> QED
    BY <1>0, <2>1 DEF ClosingExact
<1>5. CASE /\ pc["button"] = "open" /\ enr' = OpenWindow(enr)
           /\ sec' = [sec EXCEPT !.owners = 0]
  <2>1. enr.n \in Nat /\ OpenWindow(enr) \in WindowTypes
    BY <1>0, WindowTyped DEF WindowTypes
  <2>2. /\ enr'.open /\ ~enr'.closing /\ enr'.pending = 0 /\ enr'.deadline = enr.n + 1
        /\ enr'.n = enr.n + 1
    BY <1>0, <1>4, <1>5, OpenFields
  <2>3. sec' \in SecTypes /\ sec'.owners = 0 /\ sec'.bond = sec.bond
    BY <1>0, <1>5 DEF SecTypes
  <2>4. Ownership'
    BY <1>0, <1>2, <1>5, <2>3 DEF Ownership, OwnerIsBond
  <2>5. enr' \in WindowTypes /\ enr'.deadline = enr'.n /\ enr'.n > 0
    BY <1>5, <2>1, <2>2
  <2> QED
    BY <1>0, <1>1, <1>3, <2>2, <2>3, <2>4, <2>5, ReplacingKeeps
<1>6. CASE /\ enr' = [enr EXCEPT !.closing = FALSE]
           /\ \/ sec' = [sec EXCEPT !.ok = FALSE, !.owners = 0]
              \/ sec' = [sec EXCEPT !.ok = FALSE]
  <2>1. /\ enr' \in WindowTypes /\ enr'.open = enr.open /\ ~enr'.closing
        /\ enr'.pending = enr.pending /\ enr'.deadline = enr.deadline /\ enr'.n = enr.n
    BY <1>0, <1>6 DEF WindowTypes
  <2>2. sec' \in SecTypes /\ ~sec'.ok
    BY <1>0, <1>6 DEF SecTypes
  <2>3. Ownership'
    BY <1>2, <2>2 DEF Ownership, OwnerIsBond
  <2>4. (enr'.pending # 0 => enr'.open) /\ enr'.deadline \in {0, enr'.n}
        /\ (enr'.open => enr'.deadline = enr'.n /\ enr'.n > 0)
    BY <1>0, <2>1 DEF ClosingExact, Deadlines
  <2> QED
    BY <1>0, <1>1, <1>3, <2>1, <2>2, <2>3, <2>4, ReplacingKeeps
<1> QED
  BY <1>5, <1>6 DEF replace_open

(* connected: a peer comes up, never between the unpairing and the new     *)
(* window, and joins a window only when nobody is closing it.              *)
LEMMA ConnectedKeeps ==
  ASSUME EnrollInv, NEW p \in Peers, connected(p)
  PROVE  EnrollInv'
<1>0. /\ EnrollmentTypes /\ OwnLabels /\ ClosingExact /\ Deadlines /\ Ownership /\ enr \in WindowTypes
      /\ sec \in SecTypes /\ link \in LinkTypes /\ pc \in [Threads -> AllLabels]
  BY DEF EnrollInv, EnrollmentTypes
<1>1. pc' = pc /\ loc' = loc /\ sec' = sec
  BY DEF connected
<1> DEFINE n == link.n + 1
           up == [link EXCEPT !.st = "up", !.n = n, !.peer = p]
           known == sec.owners = 1 /\ sec.bond = p
<1>2. n \in Nat
  BY <1>0 DEF LinkTypes
<1> HIDE DEF n
<1>3. up \in LinkTypes /\ up.peer = p
  BY <1>0, <1>2 DEF LinkTypes
<1>4. pc["button"] = "open" => ~known /\ enr.closing
  <2>1. pc["button"] = "open" => Closing("button") /\ "button" \in Threads
    BY DEF Closing, Replacing, Threads
  <2> QED
    BY <1>0, <2>1, PeersAssumption DEF Ownership, ClosingExact
<1>5. CASE /\ enr.open /\ ~enr.closing /\ enr' = [enr EXCEPT !.pending = n]
           /\ link' = [up EXCEPT !.refs = @ \cup {"pending"}]
  <2>1. /\ enr' \in WindowTypes /\ enr'.open /\ ~enr'.closing
        /\ enr'.deadline = enr.deadline /\ enr'.n = enr.n
    BY <1>0, <1>2, <1>5 DEF WindowTypes
  <2>2. link' \in LinkTypes /\ link'.peer = p
    <3> HIDE DEF up
    <3> QED
      BY <1>3, <1>5 DEF LinkTypes
  <2>3. EnrollmentTypes'
    BY <1>0, <1>1, <2>1, <2>2 DEF EnrollmentTypes
  <2>4. OwnLabels'
    BY <1>0, <1>1, <2>2 DEF OwnLabels
  <2>5. ClosingExact'
    <3>1. \A t \in Threads : Closing(t)' <=> Closing(t)
      BY <1>1 DEF Closing
    <3> QED
      BY <1>0, <1>5, <2>1, <3>1 DEF ClosingExact
  <2>6. Deadlines'
    BY <1>0, <1>1, <1>5, <2>1 DEF Deadlines
  <2>7. Ownership'
    BY <1>0, <1>1, <1>4, <1>5 DEF Ownership, OwnerIsBond
  <2> QED
    BY <2>3, <2>4, <2>5, <2>6, <2>7 DEF EnrollInv
<1>6. CASE enr' = enr /\ ((known /\ link' = up) \/ link' = Dropped(up))
  <2>1. Dropped(up) \in LinkTypes /\ Dropped(up).st # "up"
    <3> HIDE DEF up
    <3> QED
      BY <1>3 DEF LinkTypes, Dropped
  <2>2. link' \in LinkTypes /\ (link'.st = "up" => known /\ link'.peer = p)
    BY <1>3, <1>6, <2>1
  <2>3. EnrollmentTypes'
    BY <1>0, <1>1, <1>6, <2>2 DEF EnrollmentTypes
  <2>4. OwnLabels'
    BY <1>0, <1>1, <2>2 DEF OwnLabels
  <2>5. ClosingExact'
    BY <1>0, <1>1, <1>6 DEF ClosingExact, Closing
  <2>6. Deadlines'
    BY <1>0, <1>1, <1>6 DEF Deadlines
  <2>7. Ownership'
    BY <1>0, <1>1, <1>4, <2>2 DEF Ownership, OwnerIsBond
  <2> QED
    BY <2>3, <2>4, <2>5, <2>6, <2>7 DEF EnrollInv
<1> QED
  BY <1>5, <1>6 DEF connected, n

(* pairing_complete: the stored bond becomes the owner, or the radio is    *)
(* closed for this boot.                                                   *)
LEMMA CompleteKeeps ==
  ASSUME EnrollInv, pairing_complete
  PROVE  EnrollInv'
<1>0. /\ EnrollmentTypes /\ OwnLabels /\ ClosingExact /\ Deadlines /\ Ownership /\ enr \in WindowTypes
      /\ sec \in SecTypes /\ link \in LinkTypes /\ pc \in [Threads -> AllLabels]
      /\ loc \in [Threads -> LocalTypes]
  BY DEF EnrollInv, EnrollmentTypes
<1>1. pc["bt"] = "idle" /\ link.st = "up" /\ link.peer \in Peers
  BY <1>0 DEF pairing_complete, Idle, OwnLabels
<1>2. pc["button"] # "open"
  BY <1>0, <1>1 DEF Ownership
<1>3. CASE CompletionExpected
  <2> DEFINE mine == [NoLocals EXCEPT !.held = TRUE, !.verify = TRUE]
  <2>1. /\ sec' = [sec EXCEPT !.owners = 1, !.bond = link.peer]
        /\ enr' = detach_enrollment_locked /\ loc' = [loc EXCEPT !["bt"] = mine]
        /\ pc' = [pc EXCEPT !["bt"] = "release"]
        /\ link' = [link EXCEPT !.smp = "none", !.secure = TRUE]
    BY <1>3 DEF pairing_complete, Goto
  <2>2. "release" \in LabelsOf["bt"] /\ "release" \in AllLabels /\ "bt" \in Threads
    BY LabelsOfThreads DEF BtLabels, AllLabels, Threads
  <2>3. /\ pc' \in [Threads -> AllLabels] /\ pc'["bt"] = "release"
        /\ \A u \in Threads : u # "bt" => pc'[u] = pc[u]
    BY <2>1, <2>2, PcMoves
  <2>4. mine \in LocalTypes
    BY DEF LocalTypes, NoLocals, ModeNames
  <2> HIDE DEF mine
  <2>5. /\ loc' \in [Threads -> LocalTypes] /\ \A u \in Threads : u # "bt" => loc'[u] = loc[u]
    BY <1>0, <2>1, <2>4
  <2>6. /\ enr' \in WindowTypes /\ ~enr'.open /\ enr'.closing
        /\ enr'.pending = 0 /\ enr'.deadline = 0
    BY <1>0, <2>1, DetachTyped
  <2>7. sec' \in SecTypes /\ sec'.owners = 1 /\ sec'.bond = link.peer
    BY <1>0, <1>1, <2>1 DEF SecTypes
  <2>8. link' \in LinkTypes /\ link'.peer = link.peer
    BY <1>0, <2>1 DEF LinkTypes
  <2>9. EnrollmentTypes'
    BY <2>3, <2>5, <2>6, <2>7, <2>8 DEF EnrollmentTypes
  <2>10. OwnLabels'
    BY <1>0, <1>1, <2>2, <2>3, <2>5, <2>8, OwnLabelsKeeps
  <2>11. ClosingExact'
    <3>1. ~enr.closing /\ Closing("bt")'
      BY <1>3, <2>3 DEF CompletionExpected, Closing
    <3> QED
      BY <1>0, <2>2, <2>3, <2>6, <3>1, ClosingKeeps
  <2>12. Deadlines'
    BY <1>0, <2>2, <2>3, <2>5, <2>6, DeadlinesKeeps
  <2>13. Ownership'
    <3>1. pc'["button"] = pc["button"]
      BY <2>3 DEF Threads
    <3>2. sec'.bond # "none"
      BY <1>1, <2>7, PeersAssumption
    <3> QED
      BY <1>2, <2>7, <3>1, <3>2 DEF Ownership, OwnerIsBond
  <2> QED
    BY <2>9, <2>10, <2>11, <2>12, <2>13 DEF EnrollInv
<1>4. CASE ~CompletionExpected
  <2>1. sec' = CompletionRefused /\ finish_enrollment("bt", link.n, FALSE, 0, TRUE)
    BY <1>4 DEF pairing_complete
  <2>2. sec' \in SecTypes /\ ~sec'.ok
    BY <1>0, <1>1, <2>1 DEF CompletionRefused, SecTypes
  <2>3. pc'["button"] = pc["button"]
    BY <1>0, <2>1 DEF finish_enrollment, Goto, Threads
  <2>4. Ownership'
    BY <1>2, <2>2, <2>3 DEF Ownership, OwnerIsBond
  <2> QED
    BY <1>1, <2>1, <2>2, <2>4, FinishKeeps
<1> QED
  BY <1>3, <1>4

(* disconnected: the enrollment of the lost connection is closed.          *)
LEMMA DisconnectedKeeps ==
  ASSUME EnrollInv, disconnected
  PROVE  EnrollInv'
<1>0. /\ EnrollmentTypes /\ OwnLabels /\ ClosingExact /\ Deadlines /\ Ownership /\ enr \in WindowTypes
      /\ sec \in SecTypes /\ link \in LinkTypes /\ pc \in [Threads -> AllLabels]
      /\ loc \in [Threads -> LocalTypes]
  BY DEF EnrollInv, EnrollmentTypes
<1>1. /\ pc["bt"] = "idle" /\ sec' = sec
      /\ link' = [link EXCEPT !.st = "down", !.refs = disconnected_refs(aud)]
  BY DEF disconnected, Idle
<1>2. link' \in LinkTypes /\ link'.st # "up"
  <2>1. disconnected_refs(aud) \in SUBSET {"pending", "audio", "worker"}
    BY <1>0 DEF disconnected_refs, LinkTypes
  <2> QED
    BY <1>0, <1>1, <2>1 DEF LinkTypes
<1>3. CASE FinishRefused(link.n, 0)
  <2>1. pc' = pc /\ loc' = loc /\ enr' = enr
    BY <1>3 DEF disconnected
  <2>2. EnrollmentTypes' /\ OwnLabels' /\ Deadlines'
    BY <1>0, <1>1, <1>2, <2>1 DEF EnrollmentTypes, OwnLabels, Deadlines
  <2>3. ClosingExact'
    BY <1>0, <2>1 DEF ClosingExact, Closing
  <2>4. Ownership'
    BY <1>0, <1>1, <1>2, <2>1 DEF Ownership, OwnerIsBond
  <2> QED
    BY <2>2, <2>3, <2>4 DEF EnrollInv
<1>4. CASE ~FinishRefused(link.n, 0)
  <2> DEFINE mine == [NoLocals EXCEPT !.held = enr.pending # 0]
  <2>1. /\ enr' = detach_enrollment_locked /\ loc' = [loc EXCEPT !["bt"] = mine]
        /\ pc' = [pc EXCEPT !["bt"] = "release"]
    BY <1>4 DEF disconnected, Goto
  <2>2. "release" \in LabelsOf["bt"] /\ "release" \in AllLabels /\ "bt" \in Threads
    BY LabelsOfThreads DEF BtLabels, AllLabels, Threads
  <2>3. /\ pc' \in [Threads -> AllLabels] /\ pc'["bt"] = "release"
        /\ \A u \in Threads : u # "bt" => pc'[u] = pc[u]
    BY <2>1, <2>2, PcMoves
  <2>4. mine \in LocalTypes
    <3>1. \A b \in BOOLEAN : [NoLocals EXCEPT !.held = b] \in LocalTypes
      BY DEF LocalTypes, NoLocals, ModeNames
    <3> QED
      BY <3>1
  <2> HIDE DEF mine
  <2>5. /\ loc' \in [Threads -> LocalTypes] /\ \A u \in Threads : u # "bt" => loc'[u] = loc[u]
    BY <1>0, <2>1, <2>4
  <2>6. /\ enr' \in WindowTypes /\ ~enr'.open /\ enr'.closing
        /\ enr'.pending = 0 /\ enr'.deadline = 0
    BY <1>0, <2>1, DetachTyped
  <2>9. EnrollmentTypes'
    BY <1>0, <1>1, <1>2, <2>3, <2>5, <2>6 DEF EnrollmentTypes
  <2>10. OwnLabels'
    BY <1>0, <1>2, <2>2, <2>3, <2>5, OwnLabelsKeeps
  <2>11. ClosingExact'
    <3>1. ~enr.closing /\ Closing("bt")'
      BY <1>4, <2>3 DEF FinishRefused, Closing
    <3> QED
      BY <1>0, <2>2, <2>3, <2>6, <3>1, ClosingKeeps
  <2>12. Deadlines'
    BY <1>0, <2>2, <2>3, <2>5, <2>6, DeadlinesKeeps
  <2>13. Ownership'
    <3>1. pc'["button"] = pc["button"]
      BY <2>3 DEF Threads
    <3> QED
      BY <1>0, <1>1, <1>2, <3>1, OwnerStays
  <2> QED
    BY <2>9, <2>10, <2>11, <2>12, <2>13 DEF EnrollInv
<1> QED
  BY <1>3, <1>4

(* The state after a reset, and the initial one: the bond in flash is the  *)
(* owner, and nobody is in a call.                                         *)
Rebooted ==
  /\ pc = [t \in Threads |-> "idle"] /\ loc = [t \in Threads |-> NoLocals]
  /\ enr = NoWindow /\ link = Free
  /\ \E b \in Peers \cup {"none"} : sec = Booted(b)

(* Whatever a reset leaves satisfies the invariant.                        *)
LEMMA RebootedInv == Rebooted => EnrollInv
<1> SUFFICES ASSUME Rebooted PROVE EnrollInv
  OBVIOUS
<1>1. PICK b \in Peers \cup {"none"} : sec = Booted(b)
  BY DEF Rebooted
<1>2. sec \in SecTypes /\ sec.bond = b /\ sec.owners = (IF b = "none" THEN 0 ELSE 1)
  BY <1>1 DEF SecTypes, Booted
<1>3. \A t \in Threads : pc[t] = "idle" /\ loc[t] = NoLocals
  BY DEF Rebooted
<1>4. link \in LinkTypes /\ link.st = "adv"
  BY DEF Rebooted, Free, LinkTypes
<1>5. EnrollmentTypes
  <2>1. NoLocals \in LocalTypes /\ NoWindow \in WindowTypes /\ "idle" \in AllLabels
    BY DEF LocalTypes, NoLocals, ModeNames, WindowTypes, NoWindow, AllLabels, ShellLabels
  <2>2. pc \in [Threads -> AllLabels] /\ loc \in [Threads -> LocalTypes]
    BY <2>1 DEF Rebooted
  <2> QED
    BY <1>2, <1>4, <2>1, <2>2 DEF Rebooted, EnrollmentTypes
<1>6. OwnLabels
  BY <1>3, <1>4 DEF OwnLabels, NoLocals, Threads, ShellLabels, BtLabels, WqLabels, ButtonLabels,
       MicLabels, CodecLabels
<1>7. ClosingExact
  BY <1>3 DEF Rebooted, NoWindow, ClosingExact, Closing, Replacing
<1>8. Deadlines
  BY <1>3 DEF Rebooted, NoWindow, Deadlines
<1>9. Ownership
  BY <1>2, <1>3 DEF Ownership, OwnerIsBond, Threads
<1> QED
  BY <1>5, <1>6, <1>7, <1>8, <1>9 DEF EnrollInv

(* The same after a step.                                                  *)
LEMMA RebootedNext == Rebooted' => EnrollInv'
BY RebootedInv, PTL

-----------------------------------------------------------------------------
(* Steps beside the window.                                                *)

(* A call that moves one thread and nothing of the enrollment.             *)
LEMMA QuietBeside ==
  ASSUME EnrollInv, NEW t \in Threads, NEW l \in LabelsOf[t] \ Elsewhere, pc[t] \notin Elsewhere,
         pc' = [pc EXCEPT ![t] = l], UNCHANGED <<loc, enr, sec>>,
         link' \in LinkTypes, link'.st = "up" => link.st = "up" /\ link'.peer = link.peer
  PROVE  EnrollInv'
<1>1. Beside(t)
  BY DEF Beside, EnrollInv, EnrollmentTypes
<1> QED
  BY <1>1, BesideKeeps

(* A step that moves no thread.                                            *)
LEMMA StillBeside ==
  ASSUME EnrollInv, UNCHANGED <<pc, loc, enr, sec>>,
         link' \in LinkTypes, link'.st = "up" => link.st = "up" /\ link'.peer = link.peer
  PROVE  EnrollInv'
<1>0. /\ EnrollmentTypes /\ OwnLabels /\ ClosingExact /\ Deadlines /\ Ownership
  BY DEF EnrollInv
<1>1. EnrollmentTypes'
  BY <1>0 DEF EnrollmentTypes
<1>2. OwnLabels' /\ Deadlines'
  BY <1>0 DEF OwnLabels, Deadlines
<1>3. ClosingExact'
  BY <1>0 DEF ClosingExact, Closing
<1>4. Ownership'
  BY <1>0 DEF Ownership, OwnerIsBond
<1> QED
  BY <1>1, <1>2, <1>3, <1>4 DEF EnrollInv

(* The link loses or gains references, is dropped, or stays.               *)
LEMMA LinkMoves ==
  ASSUME EnrollInv
  PROVE  /\ link \in LinkTypes
         /\ Dropped(link) \in LinkTypes /\ Dropped(link).st # "up"
         /\ \A r \in SUBSET {"pending", "audio", "worker"} :
              /\ Unreferenced(r) \in LinkTypes /\ Unreferenced(r).st = link.st
              /\ Unreferenced(r).peer = link.peer
         /\ link.refs \in SUBSET {"pending", "audio", "worker"}
<1>1. link \in LinkTypes
  BY DEF EnrollInv, EnrollmentTypes
<1> QED
  BY <1>1 DEF LinkTypes, Dropped, Unreferenced

(* Every step of enrollment and of the restart keeps the invariant.        *)
LEMMA EnrollmentStep ==
  ASSUME EnrollInv, EnrollmentNext
  PROVE  EnrollInv'
<1>0. /\ pc \in [Threads -> AllLabels] /\ enr \in WindowTypes /\ link \in LinkTypes
      /\ loc \in [Threads -> LocalTypes]
  BY DEF EnrollInv, EnrollmentTypes
<1>l. /\ ShellLabels \ Elsewhere = LabelsOf["shell"] \ Elsewhere
      /\ BtLabels \ Elsewhere = LabelsOf["bt"] \ Elsewhere
      /\ WqLabels \ Elsewhere = LabelsOf["wq"] \ Elsewhere
      /\ {"shell", "bt", "wq", "button", "mic", "codec"} = Threads
  BY LabelsOfThreads DEF Threads
<1>1. CASE WindowLate
  <2>1. /\ enr' = [enr EXCEPT !.late = TRUE] /\ pc' = pc /\ loc' = loc /\ sec' = sec /\ link' = link
    BY <1>1 DEF WindowLate
  <2>2. /\ enr' \in WindowTypes /\ enr'.open = enr.open /\ enr'.closing = enr.closing
        /\ enr'.pending = enr.pending /\ enr'.deadline = enr.deadline /\ enr'.n = enr.n
    BY <1>0, <2>1 DEF WindowTypes
  <2>3. pc["wq"] \in LabelsOf["wq"] /\ pc' = [pc EXCEPT !["wq"] = pc["wq"]]
    BY <1>0, <2>1, LabelsOfThreads DEF EnrollInv, OwnLabels, Threads
  <2>4. Beside("wq")
    BY <1>0, <2>1, <2>2, <2>3 DEF Beside
  <2> QED
    BY <1>l, <2>4, BesideKeeps
<1>2. CASE ExpiryFires
  <2>1. "expire" \in WqLabels \ Elsewhere /\ "idle" \notin Elsewhere
    BY DEF WqLabels, Elsewhere, Replacing
  <2> QED
    BY <1>0, <1>2, <1>l, <2>1, QuietBeside DEF ExpiryFires, Goto, Idle
<1>3. CASE \E t \in Threads : expire_window(t) \/ expire_finish(t) \/ release_enrollment(t)
  <2>1. PICK t \in Threads : expire_window(t) \/ expire_finish(t) \/ release_enrollment(t)
    BY <1>3
  <2>2. CASE expire_finish(t)
    <3>1. t \in {"shell", "bt", "wq"} /\ pc[t] # "release"
      BY <2>2 DEF expire_finish, EnrollInv, OwnLabels, Threads, ButtonLabels, MicLabels, CodecLabels
    <3> QED
      BY <2>2, <3>1, FinishStays DEF expire_finish
  <2> QED
    BY <2>1, <2>2, ExpireWindowKeeps, ReleaseKeeps
<1>4. CASE verify_owner
  <2>1. "idle" \in BtLabels \ Elsewhere /\ "verify" \notin Elsewhere
    BY DEF BtLabels, Elsewhere, Replacing
  <2> QED
    BY <1>4, <1>l, <2>1, LinkMoves, QuietBeside DEF verify_owner, Goto
<1>5. CASE command_open
  <2>1. CASE WindowAllowed /\ enr.n < MaxWindows
    BY <1>5, <2>1, CommandOpenKeeps
  <2>2. CASE ~(WindowAllowed /\ enr.n < MaxWindows)
    <3>1. /\ pc["shell"] = "opening" /\ pc' = [pc EXCEPT !["shell"] = "idle"]
          /\ UNCHANGED <<loc, enr, sec, link>>
      BY <1>5, <2>2 DEF command_open, Goto
    <3>2. "idle" \in ShellLabels \ Elsewhere /\ "opening" \notin Elsewhere
      BY DEF ShellLabels, Elsewhere, Replacing
    <3> QED
      BY <1>0, <1>l, <3>1, <3>2, QuietBeside
  <2> QED
    BY <2>1, <2>2
<1>6. CASE command_close
  <2>1. pc["shell"] # "release" /\ sec' = sec /\ finish_enrollment("shell", 0, TRUE, 0, FALSE)
    BY <1>6 DEF command_close, Idle
  <2> QED
    BY <2>1, FinishStays
<1>7. CASE command_status \/ open_look
  <2>1. /\ {"expire", "opening"} \subseteq ShellLabels \ Elsewhere /\ "idle" \notin Elsewhere
    BY DEF ShellLabels, Elsewhere, Replacing
  <2>2. PICK l \in {"expire", "opening"} : pc' = [pc EXCEPT !["shell"] = l]
    BY <1>7 DEF command_status, open_look, Goto
  <2>3. pc["shell"] = "idle" /\ UNCHANGED <<loc, enr, sec, link>>
    BY <1>7 DEF command_status, open_look, Idle
  <2> QED
    BY <1>0, <1>l, <2>1, <2>2, <2>3, QuietBeside
<1>8. CASE replace_begin \/ replace_claim \/ replace_unpair \/ replace_open
  BY <1>8, ReplaceBeginKeeps, ReplaceClaimKeeps, ReplaceUnpairKeeps, ReplaceOpenKeeps
<1>9. CASE \E p \in Peers : connected(p)
  BY <1>9, ConnectedKeeps
<1>10. CASE security_failed
  BY <1>10, FinishStays DEF security_failed, Idle
<1>11. CASE security_changed
  <2>1. link' \in LinkTypes /\ link'.st = link.st /\ link'.peer = link.peer
    BY <1>0, <1>11 DEF security_changed, LinkTypes
  <2> QED
    BY <1>11, <2>1, StillBeside DEF security_changed
<1>12. CASE accept_pairing
  <2>1. CASE link' = [link EXCEPT !.smp = "accepted"] /\ UNCHANGED <<pc, loc, enr>>
    <3>1. link' \in LinkTypes /\ link'.st = link.st /\ link'.peer = link.peer
      BY <1>0, <2>1 DEF LinkTypes
    <3> QED
      BY <1>12, <2>1, <3>1, StillBeside DEF accept_pairing
  <2>2. CASE finish_enrollment("bt", link.n, FALSE, 0, TRUE)
    BY <1>12, <2>2, FinishStays DEF accept_pairing, Idle
  <2> QED
    BY <1>12, <2>1, <2>2 DEF accept_pairing
<1>13. CASE show_passkey
  <2>1. CASE /\ enr' = [enr EXCEPT !.code = TRUE]
             /\ link' = [link EXCEPT !.smp = "shown"] /\ UNCHANGED <<pc, loc>>
    <3>1. link' \in LinkTypes /\ link'.st = link.st /\ link'.peer = link.peer
      BY <1>0, <2>1 DEF LinkTypes
    <3>2. /\ enr' \in WindowTypes /\ enr'.open = enr.open /\ enr'.closing = enr.closing
          /\ enr'.pending = enr.pending /\ enr'.deadline = enr.deadline /\ enr'.n = enr.n
      BY <1>0, <2>1 DEF WindowTypes
    <3>3. pc["bt"] \in LabelsOf["bt"] /\ pc' = [pc EXCEPT !["bt"] = pc["bt"]]
      BY <1>0, <2>1, LabelsOfThreads DEF EnrollInv, OwnLabels, Threads
    <3>4. Beside("bt")
      BY <1>0, <1>13, <2>1, <3>1, <3>2, <3>3 DEF Beside, show_passkey
    <3> QED
      BY <1>l, <3>4, BesideKeeps
  <2>2. CASE finish_enrollment("bt", link.n, TRUE, 0, TRUE)
    BY <1>13, <2>2, FinishStays DEF show_passkey, Idle
  <2> QED
    BY <1>13, <2>1, <2>2 DEF show_passkey
<1>14. CASE pairing_failed
  BY <1>14, FinishStays DEF pairing_failed, CloseConn, Idle
<1>15. CASE pairing_complete
  BY <1>15, CompleteKeeps
<1>16. CASE connection_recycled
  <2>1. link' \in LinkTypes /\ link'.st # "up"
    BY <1>0, <1>16 DEF connection_recycled, LinkTypes
  <2> QED
    BY <1>16, <2>1, StillBeside DEF connection_recycled
<1>17. CASE restart_advertising
  <2>1. link' \in LinkTypes /\ link'.st # "up"
    BY <1>0, <1>17 DEF restart_advertising, LinkTypes
  <2> QED
    BY <1>17, <2>1, StillBeside DEF restart_advertising
<1>18. CASE restart_look \/ restart_claim \/ restart_recheck \/ restart_bootmode \/ restart_abandon
  <2>1. PICK l \in {"looked", "recheck_busy", "recheck_pairing", "bootmode", "abandon", "idle"} :
               pc' = [pc EXCEPT !["shell"] = l]
    BY <1>18 DEF restart_look, restart_claim, restart_recheck, restart_bootmode, restart_abandon,
         Goto
  <2>2. pc["shell"] \in {"looked", "recheck_busy", "recheck_pairing", "bootmode", "abandon", "idle"}
        /\ UNCHANGED <<loc, enr, sec, link>>
    BY <1>18 DEF restart_look, restart_claim, restart_recheck, restart_bootmode, restart_abandon,
         Idle
  <2>3. l \in ShellLabels \ Elsewhere /\ pc["shell"] \notin Elsewhere
    BY <2>2 DEF ShellLabels, Elsewhere, Replacing
  <2> QED
    BY <1>0, <1>l, <2>1, <2>2, <2>3, QuietBeside
<1> QED
  BY <1>1, <1>2, <1>3, <1>4, <1>5, <1>6, <1>7, <1>8, <1>9, <1>10, <1>11, <1>12, <1>13, <1>14, <1>15,
     <1>16, <1>17, <1>18 DEF EnrollmentNext

-----------------------------------------------------------------------------
(* The microphone beside the window.                                       *)

(* The threads that ask for the device.                                    *)
Requesters == {"shell", "bt", "codec", "button"}
Request(t) == (\E m \in Modes : Claim(t, m)) \/ CheckRecovery(t) \/ Commit(t)

(* Nobody else does.                                                       *)
LEMMA OnlyRequesters ==
  ASSUME EnrollInv, NEW t \in Threads, Request(t)
  PROVE  t \in Requesters
<1>1. pc["wq"] \in WqLabels /\ pc["mic"] \in MicLabels
  BY DEF EnrollInv, OwnLabels
<1>2. CASE \E m \in Modes : Claim(t, m)
  BY <1>2 DEF Claim, Claimants, Requesters
<1>3. CASE pc[t] \in {"claimed", "check"}
  BY <1>1, <1>3 DEF WqLabels, MicLabels, Threads, Requesters
<1> QED
  BY <1>2, <1>3 DEF Request, CheckRecovery, Commit

(* A request is claimed, checked and committed beside the enrollment.      *)
LEMMA RequestBeside ==
  ASSUME EnrollInv, NEW t \in Requesters, Request(t)
  PROVE  EnrollInv'
<1>0. /\ pc \in [Threads -> AllLabels] /\ enr \in WindowTypes /\ link \in LinkTypes
      /\ loc \in [Threads -> LocalTypes] /\ t \in Threads /\ Modes \subseteq ModeNames
      /\ "none" \in ModeNames
  BY DEF EnrollInv, EnrollmentTypes, Threads, Requesters, ModeNames
<1>1. \A l \in {"idle", "asked", "claimed", "check"} : l \notin Elsewhere
  BY DEF Elsewhere, Replacing
<1>2. \A l \in {"idle", "claimed", "check"} : l \in LabelsOf[t]
  BY LabelsOfThreads DEF ShellLabels, BtLabels, CodecLabels, ButtonLabels, Requesters
<1>3. PICK l \in {"idle", "claimed", "check"} : pc' = [pc EXCEPT ![t] = l]
  BY DEF Request, Claim, CheckRecovery, Commit, Goto
<1>4. pc[t] \in {"idle", "asked", "claimed", "check"}
  BY DEF Request, Claim, CheckRecovery, Commit
<1>5. enr' = enr /\ sec' = sec
  BY DEF Request, Claim, CheckRecovery, Commit
<1>6. loc' = loc \/ \E k \in ModeNames : loc' = [loc EXCEPT ![t].mode = k]
  BY <1>0 DEF Request, Claim, CheckRecovery, Commit
<1>7. /\ loc' \in [Threads -> LocalTypes] /\ \A u \in Threads : u # t => loc'[u] = loc[u]
      /\ loc'[t].verify = loc[t].verify /\ loc'[t].deadline = loc[t].deadline
  <2>1. CASE loc' = loc
    BY <1>0, <2>1
  <2>2. ASSUME NEW k \in ModeNames, loc' = [loc EXCEPT ![t].mode = k]
        PROVE  /\ loc' \in [Threads -> LocalTypes] /\ \A u \in Threads : u # t => loc'[u] = loc[u]
               /\ loc'[t].verify = loc[t].verify /\ loc'[t].deadline = loc[t].deadline
    <3>1. loc' \in [Threads -> LocalTypes]
      BY <1>0, <2>2 DEF LocalTypes
    <3>2. \A u \in Threads : u # t => loc'[u] = loc[u]
      BY <1>0, <2>2
    <3>3. loc'[t] = [loc[t] EXCEPT !.mode = k] /\ loc[t] \in LocalTypes
      BY <1>0, <2>2
    <3>4. loc'[t].verify = loc[t].verify /\ loc'[t].deadline = loc[t].deadline
      BY <3>3 DEF LocalTypes
    <3> QED
      BY <3>1, <3>2, <3>4
  <2> QED
    BY <1>6, <2>1, <2>2
<1>8. link' \in LinkTypes /\ link'.st = link.st /\ link'.peer = link.peer
  <2>1. link' = link \/ link' = Unreferenced(link.refs \cup {"audio"})
    BY DEF Request, Claim, CheckRecovery, Commit
  <2>2. link.refs \cup {"audio"} \in SUBSET {"pending", "audio", "worker"}
    BY LinkMoves
  <2> QED
    BY <1>0, <2>1, <2>2, LinkMoves
<1>9. Beside(t)
  BY <1>0, <1>1, <1>2, <1>3, <1>4, <1>5, <1>7, <1>8 DEF Beside
<1> QED
  BY <1>0, <1>9, BesideKeeps

(* The microphone worker.                                                  *)
LEMMA WorkerBeside ==
  ASSUME EnrollInv, WorkerStep
  PROVE  EnrollInv'
<1>0. /\ link \in LinkTypes /\ "mic" \in Threads /\ pc["mic"] \in MicLabels
  BY DEF EnrollInv, EnrollmentTypes, OwnLabels, Threads
<1>1. \A l \in MicLabels : l \notin Elsewhere /\ l \in LabelsOf["mic"]
  BY LabelsOfThreads DEF Elsewhere, Replacing, MicLabels
<1>2. PICK l \in MicLabels : pc' = [pc EXCEPT !["mic"] = l]
  <2>1. CASE MicTake \/ Prepare \/ Start \/ Block \/ CaptureEnds \/ stop_and_scrub \/ After
    BY <2>1 DEF MicTake, Prepare, Start, Block, CaptureEnds, stop_and_scrub, After, Goto, MicLabels
  <2>2. CASE Export \/ Finish \/ ReadAuthorized \/ wait_for_tap \/ CommitCapture
    BY <2>2 DEF Export, Finish, ReadAuthorized, wait_for_tap, CommitCapture, Goto, MicLabels
  <2>3. CASE OfferClip \/ ServeClip \/ EndSession
    BY <2>3 DEF OfferClip, ServeClip, EndSession, Goto, MicLabels
  <2> QED
    BY <2>1, <2>2, <2>3 DEF WorkerStep
<1>3. UNCHANGED <<loc, enr, sec>>
  BY DEF WorkerStep, MicTake, Prepare, Start, Block, CaptureEnds, stop_and_scrub, After, Export,
       Finish, ReadAuthorized, wait_for_tap, CommitCapture, OfferClip, ServeClip, EndSession,
       quietEnr
<1>4. link' \in LinkTypes /\ link'.st = link.st /\ link'.peer = link.peer
  <2>1. \/ link' = link \/ link' = Unreferenced(link.refs \cup {"worker"})
        \/ link' = Unreferenced(link.refs \ {"audio"}) \/ link' = Unreferenced(link.refs \ {"worker"})
    BY DEF WorkerStep, MicTake, Prepare, Start, Block, CaptureEnds, stop_and_scrub, After, Export,
         Finish, ReadAuthorized, wait_for_tap, CommitCapture, OfferClip, ServeClip, EndSession
  <2>2. /\ link.refs \cup {"worker"} \in SUBSET {"pending", "audio", "worker"}
        /\ link.refs \ {"audio"} \in SUBSET {"pending", "audio", "worker"}
        /\ link.refs \ {"worker"} \in SUBSET {"pending", "audio", "worker"}
    BY LinkMoves
  <2> QED
    BY <1>0, <2>1, <2>2, LinkMoves
<1> QED
  BY <1>0, <1>1, <1>2, <1>3, <1>4, QuietBeside

(* What the Bluetooth thread asks of the session.                          *)
LEMMA SessionBeside ==
  ASSUME EnrollInv,
         \/ audio_begin \/ audio_status \/ audio_cancel \/ audio_chunk \/ audio_sent
         \/ audio_revoked
  PROVE  EnrollInv'
<1>0. link \in LinkTypes /\ "bt" \in Threads
  BY DEF EnrollInv, EnrollmentTypes, Threads
<1>1. \A l \in {"idle", "asked", "send"} : l \notin Elsewhere /\ l \in LabelsOf["bt"]
  BY LabelsOfThreads DEF Elsewhere, Replacing, BtLabels
<1>2. UNCHANGED <<loc, enr, sec>>
  BY DEF audio_begin, audio_status, audio_cancel, audio_chunk, audio_sent, audio_revoked, enrVars,
       quietEnr
<1>3. link' \in LinkTypes /\ link'.st = link.st /\ link'.peer = link.peer
  <2>1. link' = link \/ link' = Unreferenced(disconnected_refs(aud))
    BY DEF audio_begin, audio_status, audio_cancel, audio_chunk, audio_sent, audio_revoked, enrVars
  <2>2. disconnected_refs(aud) \in SUBSET {"pending", "audio", "worker"}
    BY LinkMoves DEF disconnected_refs
  <2> QED
    BY <1>0, <2>1, <2>2, LinkMoves
<1>4. CASE audio_status \/ audio_cancel \/ audio_revoked
  <2>1. pc' = pc
    BY <1>4 DEF audio_status, audio_cancel, audio_revoked, enrVars
  <2> QED
    BY <1>2, <1>3, <2>1, StillBeside
<1>5. CASE audio_begin \/ audio_chunk \/ audio_sent
  <2>1. PICK l \in {"idle", "asked", "send"} : pc' = [pc EXCEPT !["bt"] = l]
    BY <1>5 DEF audio_begin, audio_chunk, audio_sent, Goto
  <2>2. pc["bt"] \in {"idle", "send"}
    BY <1>5 DEF audio_begin, audio_chunk, audio_sent, Idle, Asked
  <2> QED
    BY <1>0, <1>1, <1>2, <1>3, <2>1, <2>2, QuietBeside
<1> QED
  BY <1>4, <1>5

(* The clocks, the button, the shell and the reset.                        *)
LEMMA OtherBeside ==
  ASSUME EnrollInv,
         \/ StoreLate \/ StoreExpiryFires \/ expiry_handler \/ command_disarm \/ release_external
         \/ WaitLate \/ ButtonEdge \/ Reset
  PROVE  EnrollInv'
<1>0. link \in LinkTypes /\ "wq" \in Threads
  BY DEF EnrollInv, EnrollmentTypes, Threads
<1>1. CASE StoreLate \/ command_disarm \/ release_external \/ WaitLate \/ ButtonEdge
  <2>1. UNCHANGED <<pc, loc, enr, sec, link>>
    BY <1>1 DEF StoreLate, command_disarm, release_external, WaitLate, ButtonEdge, enrVars
  <2> QED
    BY <1>0, <2>1, StillBeside
<1>2. CASE StoreExpiryFires \/ expiry_handler
  <2>1. UNCHANGED <<loc, enr, sec, link>>
    BY <1>2 DEF StoreExpiryFires, expiry_handler
  <2>2. PICK l \in {"idle", "pcm"} : pc' = [pc EXCEPT !["wq"] = l]
    BY <1>2 DEF StoreExpiryFires, expiry_handler, Goto
  <2>3. pc["wq"] \in {"idle", "pcm"}
    BY <1>2 DEF StoreExpiryFires, expiry_handler, Idle
  <2>4. \A k \in {"idle", "pcm"} : k \notin Elsewhere /\ k \in LabelsOf["wq"]
    BY LabelsOfThreads DEF Elsewhere, Replacing, WqLabels
  <2> QED
    BY <1>0, <2>1, <2>2, <2>3, <2>4, QuietBeside
<1>3. CASE Reset
  <2>1. sec.bond \in Peers \cup {"none"}
    BY DEF EnrollInv, EnrollmentTypes, SecTypes
  <2>2. Rebooted'
    BY <1>3, <2>1 DEF Reset, EnrollmentReset, Rebooted
  <2> QED
    BY <2>2, RebootedNext
<1> QED
  BY <1>1, <1>2, <1>3

(* Every step keeps the invariant.                                         *)
LEMMA EnrollInvKeeps ==
  ASSUME EnrollInv, [Next]_vars
  PROVE  EnrollInv'
<1>1. CASE EnrollmentNext
  BY <1>1, EnrollmentStep
<1>2. CASE \E t \in Threads : Request(t)
  BY <1>2, OnlyRequesters, RequestBeside
<1>3. CASE UNCHANGED vars
  <2>1. UNCHANGED <<pc, loc, enr, sec, link>>
    BY <1>3 DEF vars, enrVars
  <2> QED
    BY <2>1, LinkMoves, StillBeside
<1> QED
  BY <1>1, <1>2, <1>3, WorkerBeside, SessionBeside, OtherBeside, DisconnectedKeeps
     DEF Next, Request

(* No call of Enrollment or Microphone, whatever the threads and the order *)
(* of their sections, breaks the lock, the deadlines or the ownership.     *)
THEOREM EnrollmentInvariant == Spec => []EnrollInv
<1>1. Init => EnrollInv
  <2>1. Init => Rebooted
    BY DEF Init, EnrollmentInit, Rebooted
  <2> QED
    BY <2>1, RebootedInv
<1>2. EnrollInv /\ [Next]_vars => EnrollInv'
  BY EnrollInvKeeps
<1> QED
  BY <1>1, <1>2, PTL DEF Spec

(* The owner in RAM and the bond in the stack agree, or the radio is       *)
(* closed: pairing_complete, finish_enrollment and replace_local in any    *)
(* order, for any number of phones, windows and failures.                  *)
THEOREM OwnerIsBondHolds == Spec => []OwnerIsBond
<1>1. EnrollInv => OwnerIsBond
  BY DEF EnrollInv, Ownership
<1> QED
  BY <1>1, EnrollmentInvariant, PTL

(* A step from finish to release is expire_finish, whose deadline is not   *)
(* zero and so is compared again.                                          *)
LEMMA FinishedLate ==
  ASSUME EnrollInv, [Next]_vars
  PROVE  [\A t \in Threads : pc[t] = "finish" /\ pc'[t] = "release" => enr.late]_enrVars
<1> SUFFICES ASSUME NEW t \in Threads, pc[t] = "finish", pc'[t] = "release"
             PROVE  enr.late
  OBVIOUS
<1>0. /\ pc \in [Threads -> AllLabels] /\ loc[t].deadline # 0 /\ pc' # pc
      /\ t \in {"shell", "wq"}
  BY DEF EnrollInv, EnrollmentTypes, OwnLabels, Deadlines, Threads, BtLabels, ButtonLabels,
         MicLabels, CodecLabels
<1>1. CASE expire_finish(t)
  <2>1. ~FinishRefused(0, loc[t].deadline)
    BY <1>0, <1>1 DEF expire_finish, finish_enrollment, Goto
  <2> QED
    BY <1>0, <2>1 DEF FinishRefused
<1>2. ASSUME NEW u \in Threads, NEW l, pc' = [pc EXCEPT ![u] = l]
      PROVE  u = t
  BY <1>0, <1>2
<1>3. pc'[t] # pc[t] /\ pc'[t] # "idle"
  OBVIOUS
<1>4. \A u \in Threads : expire_window(u) \/ expire_finish(u) \/ release_enrollment(u) => expire_finish(t)
  <2> SUFFICES ASSUME NEW u \in Threads,
                      expire_window(u) \/ expire_finish(u) \/ release_enrollment(u)
               PROVE  expire_finish(t)
    OBVIOUS
  <2>1. \E l : pc' = [pc EXCEPT ![u] = l]
    BY DEF expire_window, expire_finish, release_enrollment, finish_enrollment, Goto
  <2>2. u = t
    BY <1>2, <2>1
  <2> QED
    BY <2>2 DEF expire_window, release_enrollment
<1> DEFINE Moves(u) == pc' = pc \/ \E l : pc' = [pc EXCEPT ![u] = l]
<1>5. ASSUME NEW u \in Threads, Moves(u)
      PROVE  u = t
  BY <1>2, <1>3, <1>5
<1> HIDE DEF Moves
<1>6. ~(verify_owner \/ security_failed \/ security_changed \/ accept_pairing \/ show_passkey
        \/ pairing_failed \/ pairing_complete \/ connection_recycled \/ restart_advertising
        \/ WindowLate \/ \E p \in Peers : connected(p))
  <2>1. (verify_owner \/ security_failed \/ security_changed \/ accept_pairing \/ show_passkey
        \/ pairing_failed \/ pairing_complete \/ connection_recycled \/ restart_advertising
        \/ WindowLate \/ \E p \in Peers : connected(p)) => Moves("bt")
    BY DEF Moves, verify_owner, security_failed, security_changed, accept_pairing, show_passkey,
           pairing_failed, pairing_complete, connection_recycled, restart_advertising, WindowLate,
           connected, CloseConn, finish_enrollment, Goto
  <2> QED
    BY <1>0, <1>5, <2>1 DEF Threads
<1>7. ~(replace_begin \/ replace_claim \/ replace_unpair \/ replace_open)
  <2>1. replace_begin \/ replace_claim \/ replace_unpair \/ replace_open => Moves("button")
    BY DEF Moves, replace_begin, replace_claim, replace_unpair, replace_open, Goto
  <2> QED
    BY <1>0, <1>5, <2>1 DEF Threads
<1>8. ~(open_look \/ command_open \/ command_close \/ command_status \/ restart_look \/ restart_claim
        \/ restart_recheck \/ restart_bootmode \/ restart_abandon)
  <2>1. (open_look \/ command_open \/ command_close \/ command_status \/ restart_look \/ restart_claim
        \/ restart_recheck \/ restart_bootmode \/ restart_abandon)
        => Moves("shell") /\ pc["shell"] # "finish"
    BY DEF Moves, open_look, command_open, command_close, command_status, restart_look, restart_claim,
           restart_recheck, restart_bootmode, restart_abandon, finish_enrollment, Goto, Idle
  <2> QED
    BY <1>5, <2>1 DEF Threads
<1>9. ~(ExpiryFires \/ StoreExpiryFires \/ expiry_handler)
  <2>1. ExpiryFires \/ StoreExpiryFires \/ expiry_handler => Moves("wq") /\ pc["wq"] # "finish"
    BY DEF Moves, ExpiryFires, StoreExpiryFires, expiry_handler, Goto, Idle
  <2> QED
    BY <1>5, <2>1 DEF Threads
<1>10. ~WorkerStep
  <2>1. WorkerStep => Moves("mic")
    BY DEF Moves, WorkerStep, MicTake, Prepare, Start, Block, CaptureEnds, stop_and_scrub, After,
           Export, Finish, ReadAuthorized, wait_for_tap, CommitCapture, OfferClip, ServeClip,
           EndSession, Goto
  <2> QED
    BY <1>0, <1>5, <2>1 DEF Threads
<1>11. ~(audio_begin \/ audio_status \/ audio_cancel \/ audio_chunk \/ audio_sent
         \/ audio_revoked \/ disconnected)
  <2>1. (audio_begin \/ audio_status \/ audio_cancel \/ audio_chunk \/ audio_sent
         \/ audio_revoked \/ disconnected) => Moves("bt")
    BY DEF Moves, audio_begin, audio_status, audio_cancel, audio_chunk, audio_sent, audio_revoked,
           disconnected, enrVars, Goto
  <2> QED
    BY <1>0, <1>5, <2>1 DEF Threads
<1>12. ~(StoreLate \/ command_disarm \/ release_external \/ WaitLate \/ ButtonEdge \/ Reset)
  <2>1. StoreLate \/ command_disarm \/ release_external \/ WaitLate \/ ButtonEdge => pc' = pc
    BY DEF StoreLate, command_disarm, release_external, WaitLate, ButtonEdge, enrVars
  <2>2. Reset => pc'[t] = "idle"
    BY DEF Reset, EnrollmentReset
  <2> QED
    BY <1>3, <2>1, <2>2
<1>13. ASSUME NEW u \in Threads, Request(u)
       PROVE  FALSE
  <2>1. Moves(u) /\ pc[u] # "finish"
    BY <1>13 DEF Moves, Request, Claim, CheckRecovery, Commit, Goto
  <2> QED
    BY <1>5, <2>1
<1>14. ~UNCHANGED vars
  BY <1>3 DEF vars, enrVars
<1>15. expire_finish(t)
  BY <1>4, <1>6, <1>7, <1>8, <1>9, <1>10, <1>11, <1>12, <1>13, <1>14 DEF Next, EnrollmentNext,
     Request
<1> QED
  BY <1>1, <1>15

(* A window closed by its expiry has had its minute: expire_window reads   *)
(* the deadline under the lock, and finish_enrollment compares it again    *)
(* with the window there is when the lock is taken the second time.        *)
THEOREM WindowLasts == Spec => WindowLastsItsMinute
<1>1. EnrollInv /\ [Next]_vars
      => [\A t \in Threads : pc[t] = "finish" /\ pc'[t] = "release" => enr.late]_enrVars
  BY FinishedLate
<1> QED
  BY <1>1, EnrollmentInvariant, PTL DEF Spec, WindowLastsItsMinute
=============================================================================
