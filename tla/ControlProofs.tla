---------------------------- MODULE ControlProofs ----------------------------
(***************************************************************************)
(* Recording control, for any operations, connections, number of tickets,  *)
(* requests, taps, claims and retries.                                     *)
(*                                                                         *)
(* None of the properties is inductive.  An operation that is active       *)
(* waits with the coordinator or is in the runtime's hands; while it       *)
(* waits, nobody else can have it, and its state is still the one it began *)
(* with (Waits, Owned).  The codec thread may run ahead of the call that   *)
(* queued its operation, and a new operation may begin while the codec     *)
(* thread is still ending the last one, but not before that one's end was  *)
(* published (Codecs).  What the phone was told, or is about to be told,   *)
(* is a past state of an operation whose identity is never used again      *)
(* (Ledger, Told).                                                         *)
(***************************************************************************)
EXTENDS RecordingControl, TLAPS

Requestable ==
  {r \in [cmd : {"NONE", "START", "ARM", "STOP", "STATUS"}, op : Ops \cup {NoOp}, seq : Nat] :
     Starts(r) => r.op # NoOp}
WorkLabels == {"idle", "close", "again", "command", "admit", "leave", "queue", "queued",
               "reply", "answered", "allow", "notify", "forget"}
ButtonLabels == {"idle", "sample", "leave", "queue", "queued", "off"}
CodecLabels == {"idle", "mount", "start", "leave", "admit", "capacity", "reserved", "loop",
                "copy", "publish", "end", "off"}
MaintLabels == {"idle", "prefs_busy", "prefs", "prefs_free", "pair_wait", "pair_busy",
                "pair_gate", "pair", "off"}

LrcTypes ==
  [conn : Nat, last : Nat, seq : Nat, states : Seq(States), current : AllTickets,
   armed : Nat, late : BOOLEAN, tapping : BOOLEAN, press : AllTickets,
   fresh : BOOLEAN, local : States, lticket : AllTickets, fault : BOOLEAN,
   submitting : BOOLEAN, stop : SUBSET AllTickets]
BleTypes ==
  [conn : Conns \cup {NoConn}, epoch : Nat, revoked : BOOLEAN, pending : BOOLEAN,
   executed : BOOLEAN, late : BOOLEAN, request : Requestable]
WorkTypes ==
  [pc : WorkLabels, to : WorkLabels,
   rc : {"OK", "DEFERRED", "REFUSED", "FAULT", "BUSY", "PENDING"}, epoch : Nat,
   ticket : AllTickets, ok : BOOLEAN, req : Requestable, state : States]
ButtonTypes == [pc : ButtonLabels, to : ButtonLabels, ticket : AllTickets, ok : BOOLEAN]
CodecTypes ==
  [pc : CodecLabels, to : CodecLabels, ticket : AllTickets, tries : Nat,
   kind : {"loop", "final", "fail"}, worker : States]
RuntimeTypes ==
  [busy : {"no", "command", "prefs", "pair"}, msg : AllTickets, faulted : BOOLEAN]
CountTypes == [requests : 0..MaxRequests, taps : 0..MaxTaps, claims : Nat]

Types ==
  /\ link \in Conns \cup {NoConn, "off"} /\ lrc \in LrcTypes /\ ble \in BleTypes
  /\ work \in WorkTypes /\ btn \in ButtonTypes /\ cod \in CodecTypes /\ rt \in RuntimeTypes
  /\ maint \in MaintLabels /\ count \in CountTypes /\ ran \in Seq(Nat)
  /\ last \in [cmd : {"NONE", "START", "ARM", "STOP", "STATUS"}, state : States]

(* The gate is held by whoever is about to leave it, for a place outside   *)
(* it; the codec thread is off only while the device resets; and request   *)
(* numbers are within those sent.                                          *)
Gates ==
  /\ gate \in {Nobody, "work", "button", "codec", "maint"}
  /\ gate = "work" <=> work.pc = "leave"
  /\ gate = "button" <=> btn.pc = "leave"
  /\ gate = "codec" <=> cod.pc = "leave"
  /\ gate = "maint" <=> maint \in {"prefs", "prefs_free", "pair_gate"}
  /\ work.pc = "leave" => work.to \in {"answered", "queue", "reply", "notify", "close", "forget"}
  /\ btn.pc = "leave" => btn.to \in {"idle", "queue"}
  /\ cod.pc = "off" => link = "off"
Numbers == lrc.seq <= count.requests /\ ble.request.seq <= count.requests

(* Nothing of a device that resets is left.                                *)
Off ==
  link = "off" => /\ gate = Nobody /\ lrc = Lrc0 /\ ble = Ble0 /\ work = NoWork /\ rt = Rt0
                  /\ btn.pc = "off" /\ cod.pc = "off" /\ maint = "off"
                  /\ ran = << >> /\ last = NoReply

(* Every operation has one ticket and keeps it.                            *)
Issued(t) == IF Local(t) THEN t <= lrc.lticket ELSE t <= Len(lrc.states)
HasRoom(t, taps) == t < LocalBase + taps /\ taps > 0
Ledger ==
  /\ Len(lrc.states) <= MaxTickets
  /\ \A t \in 1..Len(lrc.states) : lrc.states[t].op \in Ops
  /\ \A t, u \in 1..Len(lrc.states) : lrc.states[t].op = lrc.states[u].op => t = u
  /\ lrc.local.op = lrc.lticket
  /\ lrc.lticket # 0 => lrc.lticket > LocalBase
  /\ lrc.lticket <= LocalBase + count.taps
  /\ lrc.tapping => HasRoom(lrc.lticket, count.taps)
  /\ lrc.current # 0 => Known(lrc, lrc.current)
  /\ Issued(lrc.press)

(* An operation that waits: armed, or with a thread that has yet to queue  *)
(* it or was refused to.                                                   *)
Submits(x) == x.pc \in {"queue", "queued"} \/ (x.pc = "leave" /\ x.to = "queue")
Asks(x) == Submits(x) /\ ~(x.pc = "queued" /\ x.ok)
Waiting == lrc.armed # 0 \/ Asks(work) \/ Asks(btn)
Working ==
  \/ cod.pc \in {"mount", "start", "admit", "capacity", "reserved", "copy", "publish"}
  \/ cod.pc = "leave" /\ cod.to \in {"admit", "publish"}
  \/ (cod.pc = "loop" \/ (cod.pc = "leave" /\ cod.to = "loop")) /\ cod.worker.phase # "FAULT"
Unbegun(s) == s.phase = "STARTING" /\ s.reason = "NONE" /\ ~s.created
NeverRan(op) == \A i \in 1..Len(ran) : ran[i] # op

Waits ==
  /\ lrc.armed # 0 => lrc.armed = lrc.current /\ lrc.armed \in 1..Len(lrc.states) /\ ~lrc.submitting
  /\ lrc.submitting <=> Submits(work) \/ Submits(btn)
  /\ ~(Submits(work) /\ Submits(btn))
  /\ Submits(work) => work.ticket = lrc.current
  /\ Submits(btn) => btn.ticket = lrc.current
  /\ Waiting => /\ lrc.current # 0 /\ Unbegun(StateAt(lrc, lrc.current))
                /\ NeverRan(StateAt(lrc, lrc.current).op)
                /\ rt.msg = 0 /\ ~Working

(* What was idle when the button went down is so while nothing begins.     *)
Fresh == lrc.tapping /\ lrc.fresh /\ lrc.press = lrc.current => ~Busy(lrc)

(* Who has the runtime.                                                    *)
Runtime ==
  /\ rt.busy = "command" <=> rt.msg # 0 \/ cod.pc \notin {"idle", "off"}
  /\ rt.busy = "prefs" <=> maint \in {"prefs_busy", "prefs"}
  /\ rt.busy = "pair" <=> maint \in {"pair_busy", "pair_gate", "pair"}
  /\ gate = "maint" => ~Busy(lrc) /\ ~lrc.submitting /\ lrc.armed = 0
  /\ rt.msg # 0 => /\ cod.pc = "idle" /\ rt.msg = lrc.current
                   /\ StateAt(lrc, rt.msg).phase = "STARTING"
                   /\ NeverRan(StateAt(lrc, rt.msg).op)

(* What the codec thread may publish, of each kind.                        *)
MayPublish(kind, w) ==
  \/ kind = "loop" /\ w.phase \in {"RUNNING", "DRAINING", "FAULT"}
  \/ kind = "final" /\ w.phase \in {"STOPPED", "NO_CAPACITY", "CANCELLED"}
  \/ kind = "fail" /\ w.phase = "FAULT"
PublishedPhase ==
  cod.pc \in {"copy", "publish"} \/ (cod.pc = "leave" /\ cod.to = "publish") =>
    MayPublish(cod.kind, cod.worker)
LoopPhase ==
  cod.pc = "loop" \/ (cod.pc = "leave" /\ cod.to = "loop") =>
    cod.worker.phase \in {"RUNNING", "DRAINING", "FAULT"}

(* The codec thread has the current operation until its end is published.  *)
Codecs ==
  /\ cod.pc = "idle" => cod.ticket = 0
  /\ cod.pc # "off" => Issued(cod.ticket)
  /\ Working => cod.ticket = lrc.current /\ lrc.current # 0 /\ Active(StateAt(lrc, lrc.current))
  /\ (cod.pc = "end" \/ (cod.pc = "leave" /\ cod.to = "end")) /\ cod.ticket = lrc.current =>
       lrc.fault \/ ~Busy(lrc)
  /\ cod.pc = "leave" => cod.to \in {"admit", "publish", "loop", "end"}
  /\ PublishedPhase /\ LoopPhase
Owned ==
  Waiting \/ lrc.fault \/ ~Busy(lrc) \/ (rt.busy = "command" /\ lrc.current \in {rt.msg, cod.ticket})

(* What has run, and what has been told, is of operations in the ledger.   *)
Recorded(op) ==
  IF Local(op) THEN op <= lrc.lticket ELSE \E t \in 1..Len(lrc.states) : lrc.states[t].op = op
Runs == StartedOnce /\ \A i \in 1..Len(ran) : Recorded(ran[i])
Holds(cmd, a, t) ==
  /\ a = StateAt(lrc, t) \/ Progress(a, StateAt(lrc, t))
  /\ cmd = "STOP" => t \in lrc.stop \/ StateAt(lrc, t).phase \notin {"STARTING", "RUNNING"}
Kept(cmd, a) ==
  a.op # NoOp => Recorded(a.op) /\ \A t \in Tickets(lrc, a.op) : Holds(cmd, a, t)
Answered ==
  \/ work.pc \in {"allow", "notify"}
  \/ work.pc = "leave" /\ (work.to = "notify" \/ (work.to = "answered" /\ work.rc = "OK"))
Told ==
  /\ Kept(last.cmd, last.state)
  /\ Answered => Kept(work.req.cmd, work.state) /\ work.req = ble.request

ControlInv ==
  /\ Types /\ Gates /\ Numbers /\ Off /\ Ledger /\ Waits /\ Fresh /\ Runtime /\ Codecs
  /\ Owned /\ Runs /\ Told

-----------------------------------------------------------------------------
(* Constants and operators.                                                *)

(* Tickets are numbers, the local ones above LocalBase.                    *)
LEMMA TicketFacts ==
  /\ LocalBase \in Nat /\ MaxTickets \in Nat /\ MaxTaps \in Nat /\ MaxRequests \in Nat
  /\ MaxTickets <= LocalBase /\ AllTickets \subseteq Nat /\ 0 \in AllTickets
  /\ \A op \in Ops : op \in 1..LocalBase
  /\ \A t \in Nat : t <= MaxTickets => t \in AllTickets
  /\ \A t \in Nat : t > LocalBase /\ t <= LocalBase + MaxTaps => t \in AllTickets
<1>1. /\ LocalBase \in Nat /\ MaxTickets \in Nat /\ MaxTaps \in Nat /\ MaxRequests \in Nat
      /\ MaxTickets <= LocalBase /\ \A op \in Ops : op \in 1..LocalBase
  BY OpsAssumption, BoundsAssumption DEF OpsAssumption, BoundsAssumption
<1>2. AllTickets \subseteq Nat /\ 0 \in AllTickets
  BY <1>1 DEF AllTickets
<1>3. \A t \in Nat : t <= MaxTickets => t \in AllTickets
  BY <1>1 DEF AllTickets
<1>4. ASSUME NEW t \in Nat, t > LocalBase, t <= LocalBase + MaxTaps PROVE t \in AllTickets
  <2>1. t - LocalBase \in 1..MaxTaps /\ t = LocalBase + (t - LocalBase)
    BY <1>1, <1>4
  <2> QED
    BY <2>1 DEF AllTickets
<1> QED
  BY <1>1, <1>2, <1>3, <1>4

(* The phases in their order.                                              *)
LEMMA RankFacts ==
  /\ DOMAIN Rank = {"IDLE", "STARTING", "RUNNING", "STOPPING", "DRAINING", "STOPPED",
                    "NO_CAPACITY", "CANCELLED", "FAULT"}
  /\ Rank["IDLE"] = 0 /\ Rank["STARTING"] = 1 /\ Rank["RUNNING"] = 2 /\ Rank["STOPPING"] = 3
  /\ Rank["DRAINING"] = 4 /\ Rank["STOPPED"] = 5 /\ Rank["NO_CAPACITY"] = 6
  /\ Rank["CANCELLED"] = 7 /\ Rank["FAULT"] = 8
BY DEF Rank

(* A state made of its parts.                                              *)
LEMMA StateFacts ==
  ASSUME NEW op, NEW phase, NEW reason, NEW created
  PROVE  /\ State(op, phase, reason, created).op = op
         /\ State(op, phase, reason, created).phase = phase
         /\ State(op, phase, reason, created).reason = reason
         /\ State(op, phase, reason, created).created = created
BY DEF State

(* A state of typed parts is typed.                                        *)
LEMMA StateTypes ==
  ASSUME NEW op \in 0..(LocalBase + MaxTaps), NEW phase \in DOMAIN Rank,
         NEW reason \in Clean \cup {"NONE", "ADMISSION", "OVERFLOW", "CORE"},
         NEW created \in BOOLEAN
  PROVE  State(op, phase, reason, created) \in States
BY DEF State, States

(* The values everything begins with have their types.                     *)
LEMMA InitialTypes ==
  /\ IdleState \in States /\ NoRequest \in Requestable /\ Lrc0 \in LrcTypes
  /\ Ble0 \in BleTypes /\ NoWork \in WorkTypes /\ NoSample \in ButtonTypes
  /\ NoJob \in CodecTypes /\ Rt0 \in RuntimeTypes /\ Count0 \in CountTypes
  /\ NoReply \in [cmd : {"NONE", "START", "ARM", "STOP", "STATUS"}, state : States]
<1>1. IdleState \in States
  <2>1. 0 \in 0..(LocalBase + MaxTaps)
    BY TicketFacts
  <2> QED
    BY <2>1, RankFacts DEF IdleState, NoOp, State, States
<1>2. NoRequest \in Requestable
  BY DEF NoRequest, Requestable, NoOp, Starts
<1>3. << >> \in Seq(States)
  OBVIOUS
<1>4. Lrc0 \in LrcTypes
  BY <1>1, <1>3, TicketFacts DEF Lrc0, LrcTypes
<1>5. Ble0 \in BleTypes
  BY <1>2 DEF Ble0, BleTypes
<1>6. NoWork \in WorkTypes
  BY <1>1, <1>2, TicketFacts DEF NoWork, WorkTypes, WorkLabels
<1>7. NoSample \in ButtonTypes /\ NoJob \in CodecTypes /\ Rt0 \in RuntimeTypes
  BY <1>1, TicketFacts DEF NoSample, ButtonTypes, ButtonLabels, NoJob, CodecTypes, CodecLabels,
     Rt0, RuntimeTypes
<1>8. Count0 \in CountTypes
  BY TicketFacts DEF Count0, CountTypes
<1>9. NoReply \in [cmd : {"NONE", "START", "ARM", "STOP", "STATUS"}, state : States]
  BY <1>1 DEF NoReply
<1> QED
  BY <1>1, <1>2, <1>4, <1>5, <1>6, <1>7, <1>8, <1>9

(* lc_same_operation_progress is an order: what may follow a state that    *)
(* follows another may follow that one.                                    *)
LEMMA ProgressTransitive ==
  ASSUME NEW a \in States, NEW b \in States, NEW c \in States, Progress(a, b), Progress(b, c)
  PROVE  Progress(a, c)
<1> DEFINE P == DOMAIN Rank
<1>0. /\ a.phase \in P /\ b.phase \in P /\ c.phase \in P
      /\ a.created \in BOOLEAN /\ b.created \in BOOLEAN /\ c.created \in BOOLEAN
  BY DEF States
<1>1. /\ Valid(a) /\ Valid(b) /\ Valid(c) /\ a.op # NoOp /\ a.op = b.op /\ b.op = c.op
      /\ Rank[a.phase] <= Rank[b.phase] /\ Rank[b.phase] <= Rank[c.phase]
      /\ a.reason # "NONE" /\ b.phase # "FAULT" => a.reason = b.reason
      /\ b.reason # "NONE" /\ c.phase # "FAULT" => b.reason = c.reason
      /\ a.created => b.created
      /\ b.created => c.created
      /\ b.phase = "NO_CAPACITY" => a.phase \in {"STARTING", "NO_CAPACITY"}
      /\ c.phase = "NO_CAPACITY" => b.phase \in {"STARTING", "NO_CAPACITY"}
      /\ c.phase = "CANCELLED" => ~b.created
      /\ Terminal(a) => a = b
      /\ Terminal(b) => b = c
  BY DEF Progress
<1>2. a.phase # "IDLE"
  BY <1>1 DEF Valid, IdleState, State, NoOp
<1>3. Rank[a.phase] <= Rank[c.phase]
  <2>1. Rank[a.phase] \in Nat /\ Rank[b.phase] \in Nat /\ Rank[c.phase] \in Nat
    BY <1>0, RankFacts
  <2> QED
    BY <1>1, <2>1
<1>4. a.reason # "NONE" /\ c.phase # "FAULT" => a.reason = c.reason
  BY <1>1 DEF Terminal
<1>5. a.created => c.created
  BY <1>1
<1>6. c.phase = "NO_CAPACITY" => a.phase \in {"STARTING", "NO_CAPACITY"}
  <2>1. b.phase = "STARTING" => a.phase = "STARTING"
    BY <1>0, <1>1, <1>2, RankFacts
  <2> QED
    BY <1>1, <2>1
<1>7. c.phase = "CANCELLED" => ~a.created
  BY <1>1
<1>8. Terminal(a) => a = c
  BY <1>1
<1> QED
  BY <1>1, <1>3, <1>4, <1>5, <1>6, <1>7, <1>8 DEF Progress

(* An operation that has left STARTING and RUNNING does not come back, one *)
(* that is over is not active again, and it keeps its identity.            *)
LEMMA ProgressForward ==
  ASSUME NEW a \in States, NEW b \in States, Progress(a, b)
  PROVE  /\ a.phase \notin {"STARTING", "RUNNING"} => b.phase \notin {"STARTING", "RUNNING"}
         /\ Active(b) => Active(a)
         /\ b.op = a.op
<1>0. a.phase \in DOMAIN Rank /\ b.phase \in DOMAIN Rank
  BY DEF States
<1>1. Rank[a.phase] <= Rank[b.phase] /\ a.op = b.op /\ a.op # NoOp /\ Valid(a)
      /\ (Terminal(a) => a = b)
  BY DEF Progress
<1>2. a.phase # "IDLE"
  BY <1>1 DEF Valid, IdleState, State, NoOp
<1>3. a.phase \notin {"STARTING", "RUNNING"} => b.phase \notin {"STARTING", "RUNNING"}
  BY <1>0, <1>1, <1>2, RankFacts
<1>4. Active(b) => Active(a)
  BY <1>0, <1>1, <1>2, RankFacts DEF Active, Terminal
<1> QED
  BY <1>1, <1>3, <1>4

(* A start that is cancelled before it began, and one that was refused.    *)
LEMMA UnbegunEnds ==
  ASSUME NEW s \in States, Unbegun(s), s.op # NoOp,
         NEW b \in {State(s.op, "CANCELLED", "USER", FALSE), State(s.op, "FAULT", "ADMISSION", FALSE)}
  PROVE  b \in States /\ Progress(s, b) /\ ~Active(b)
<1>1. /\ s.phase = "STARTING" /\ s.reason = "NONE" /\ s.created = FALSE
      /\ s.op \in 0..(LocalBase + MaxTaps)
  BY DEF Unbegun, States
<1>2. /\ b.op = s.op /\ b.created = FALSE
      /\ \/ b.phase = "CANCELLED" /\ b.reason = "USER"
         \/ b.phase = "FAULT" /\ b.reason = "ADMISSION"
  BY DEF State
<1>3. b \in States
  <2>1. CASE b = State(s.op, "CANCELLED", "USER", FALSE)
    BY <1>1, <2>1, RankFacts DEF State, States, Clean
  <2>2. CASE b = State(s.op, "FAULT", "ADMISSION", FALSE)
    BY <1>1, <2>2, RankFacts DEF State, States, Clean
  <2> QED
    BY <2>1, <2>2
<1>4. Valid(s) /\ Valid(b)
  BY <1>1, <1>2 DEF Valid
<1>5. Rank[s.phase] <= Rank[b.phase]
  BY <1>1, <1>2, RankFacts
<1> QED
  BY <1>1, <1>2, <1>3, <1>4, <1>5 DEF Progress, Terminal, Active

-----------------------------------------------------------------------------
(* What a step may do to the ledger.                                       *)

(* Operations only advance, identities are used once, and a stop stays     *)
(* latched as long as its ticket is known.                                 *)
Follows(a, b) == b = a \/ Progress(a, b)
Grows ==
  /\ lrc' \in LrcTypes /\ Len(lrc.states) <= Len(lrc'.states)
  /\ \A t \in 1..Len(lrc.states) : Follows(lrc.states[t], lrc'.states[t])
  /\ \A t \in (Len(lrc.states) + 1)..Len(lrc'.states) : ~Recorded(lrc'.states[t].op)
  /\ IF lrc'.lticket = lrc.lticket THEN Follows(lrc.local, lrc'.local)
     ELSE lrc'.lticket > lrc.lticket
  /\ \A t \in lrc.stop : t \in lrc'.stop \/ (t = lrc.lticket /\ lrc'.lticket # lrc.lticket)

(* The types of the ledger's parts.                                        *)
LEMMA LedgerTypes ==
  ASSUME NEW l \in LrcTypes
  PROVE  /\ l.states \in Seq(States) /\ Len(l.states) \in Nat /\ DOMAIN l.states = 1..Len(l.states)
         /\ \A t \in 1..Len(l.states) : l.states[t] \in States /\ l.states[t].op \in Nat
         /\ l.local \in States /\ l.local.op \in Nat /\ l.lticket \in Nat /\ l.current \in Nat
         /\ l.press \in Nat /\ l.armed \in Nat /\ l.stop \subseteq AllTickets
<1>1. \A s \in States : s.op \in Nat
  BY TicketFacts DEF States
<1>2. l.states \in Seq(States) /\ l.local \in States /\ l.lticket \in AllTickets
      /\ l.current \in AllTickets /\ l.press \in AllTickets /\ l.armed \in Nat
      /\ l.stop \subseteq AllTickets
  BY DEF LrcTypes
<1>3. /\ Len(l.states) \in Nat /\ DOMAIN l.states = 1..Len(l.states)
      /\ \A t \in 1..Len(l.states) : l.states[t] \in States
  BY <1>2
<1>4. l.lticket \in Nat /\ l.current \in Nat /\ l.press \in Nat
  BY <1>2, TicketFacts
<1> QED
  BY <1>1, <1>2, <1>3, <1>4

(* What is recorded stays recorded, what is issued stays issued.           *)
LEMMA RecordedGrows ==
  ASSUME Types, Ledger, Grows
  PROVE  /\ \A op \in Nat : Recorded(op) => Recorded(op)'
         /\ \A t \in Nat : Issued(t) => Issued(t)'
<1>0. lrc \in LrcTypes /\ lrc' \in LrcTypes
  BY DEF Types, Grows
<1>1. /\ Len(lrc.states) \in Nat /\ Len(lrc'.states) \in Nat /\ lrc.lticket \in Nat
      /\ lrc'.lticket \in Nat /\ LocalBase \in Nat
      /\ \A t \in 1..Len(lrc.states) : lrc.states[t] \in States /\ lrc'.states[t] \in States
  <2>1. \A t \in 1..Len(lrc.states) : t \in 1..Len(lrc'.states)
    BY <1>0, LedgerTypes DEF Grows
  <2> QED
    BY <1>0, <2>1, LedgerTypes, TicketFacts
<1>2. \A t \in 1..Len(lrc.states) : lrc'.states[t].op = lrc.states[t].op /\ t \in 1..Len(lrc'.states)
  BY <1>1, ProgressForward DEF Grows, Follows
<1>3. lrc.lticket <= lrc'.lticket /\ Len(lrc.states) <= Len(lrc'.states)
  BY <1>1 DEF Grows
<1>4. ASSUME NEW op \in Nat, Recorded(op) PROVE Recorded(op)'
  <2>1. CASE Local(op)
    BY <1>1, <1>3, <1>4, <2>1 DEF Recorded, Local
  <2>2. CASE ~Local(op)
    BY <1>2, <1>4, <2>2 DEF Recorded, Local
  <2> QED
    BY <2>1, <2>2
<1>5. ASSUME NEW t \in Nat, Issued(t) PROVE Issued(t)'
  BY <1>1, <1>3, <1>5 DEF Issued, Local
<1> QED
  BY <1>4, <1>5

(* A known ticket of the phone is no local one, and its state is where the *)
(* ledger has it.                                                          *)
LEMMA RemoteTicket ==
  ASSUME NEW l \in LrcTypes, Len(l.states) <= MaxTickets, NEW t \in 1..Len(l.states)
  PROVE  ~Local(t) /\ t # 0 /\ StateAt(l, t) = l.states[t] /\ Known(l, t)
BY LedgerTypes, TicketFacts DEF Local, StateAt, Known

(* What was told of an operation holds on while the ledger grows.          *)
LEMMA KeptGrows ==
  ASSUME Types, Ledger, Grows, Ledger', NEW cmd, NEW a \in States, Kept(cmd, a)
  PROVE  Kept(cmd, a)'
<1> SUFFICES ASSUME a.op # NoOp PROVE Recorded(a.op)' /\ \A t \in Tickets(lrc', a.op) : Holds(cmd, a, t)'
  BY DEF Kept
<1>0. /\ lrc \in LrcTypes /\ lrc' \in LrcTypes /\ a.op \in Nat
      /\ Recorded(a.op) /\ \A t \in Tickets(lrc, a.op) : Holds(cmd, a, t)
  BY TicketFacts DEF Types, Grows, Kept, States
<1>1. /\ Len(lrc.states) \in Nat /\ Len(lrc'.states) \in Nat /\ lrc.lticket \in Nat
      /\ lrc'.lticket \in Nat /\ LocalBase \in Nat /\ lrc.local \in States /\ lrc'.local \in States
      /\ \A t \in 1..Len(lrc.states) : lrc.states[t] \in States
      /\ \A t \in 1..Len(lrc'.states) : lrc'.states[t] \in States
      /\ Len(lrc.states) <= MaxTickets /\ Len(lrc'.states) <= MaxTickets
      /\ lrc.lticket # 0 => lrc.lticket > LocalBase
      /\ lrc'.lticket # 0 => lrc'.lticket > LocalBase
      /\ lrc.local.op = lrc.lticket /\ lrc'.local.op = lrc'.lticket
  BY <1>0, LedgerTypes, TicketFacts DEF Ledger
<1>2. Recorded(a.op)'
  BY <1>0, RecordedGrows
<1>3. ASSUME NEW s \in States, NEW u \in States, Follows(s, u), a = s \/ Progress(a, s)
      PROVE  /\ a = u \/ Progress(a, u)
             /\ s.phase \notin {"STARTING", "RUNNING"} => u.phase \notin {"STARTING", "RUNNING"}
  BY <1>3, ProgressTransitive, ProgressForward DEF Follows
<1>4. ASSUME NEW t \in 1..Len(lrc'.states), lrc'.states[t].op = a.op PROVE Holds(cmd, a, t)'
  <2>1. t \in 1..Len(lrc.states)
    <3>1. t \in (Len(lrc.states) + 1)..Len(lrc'.states) => FALSE
      BY <1>0, <1>4 DEF Grows
    <3> QED
      BY <1>1, <3>1
  <2>2. Follows(lrc.states[t], lrc'.states[t]) /\ lrc.states[t] \in States /\ lrc'.states[t] \in States
    BY <1>1, <2>1 DEF Grows
  <2>3. lrc.states[t].op = a.op
    BY <1>4, <2>2, ProgressForward DEF Follows
  <2>4. t \in Tickets(lrc, a.op)
    BY <2>1, <2>3 DEF Tickets
  <2>5. StateAt(lrc, t) = lrc.states[t] /\ StateAt(lrc', t) = lrc'.states[t] /\ t # lrc.lticket
    BY <1>0, <1>1, <2>1, RemoteTicket, TicketFacts DEF Local
  <2>6. Holds(cmd, a, t)
    BY <1>0, <2>4
  <2>7. t \in lrc.stop => t \in lrc'.stop
    BY <2>5 DEF Grows
  <2> QED
    BY <1>3, <2>2, <2>5, <2>6, <2>7 DEF Holds
<1>5. ASSUME lrc'.lticket # 0, lrc'.local.op = a.op PROVE Holds(cmd, a, lrc.lticket)' /\ lrc'.lticket = lrc.lticket
  <2>1. lrc'.lticket = lrc.lticket
    <3>1. lrc'.lticket <= lrc.lticket
      BY <1>0, <1>1, <1>5 DEF Recorded, Local
    <3> QED
      BY <1>1, <3>1 DEF Grows
  <2>2. Follows(lrc.local, lrc'.local)
    BY <2>1 DEF Grows
  <2>3. lrc.lticket \in Tickets(lrc, a.op)
    BY <1>1, <1>5, <2>1 DEF Tickets
  <2>4. StateAt(lrc, lrc.lticket) = lrc.local /\ StateAt(lrc', lrc.lticket) = lrc'.local
    BY <1>1, <1>5, <2>1 DEF StateAt, Local
  <2>5. Holds(cmd, a, lrc.lticket)
    BY <1>0, <2>3
  <2>6. lrc.lticket \in lrc.stop => lrc.lticket \in lrc'.stop
    BY <2>1 DEF Grows
  <2> QED
    BY <1>1, <1>3, <2>1, <2>2, <2>4, <2>5, <2>6 DEF Holds
<1>6. ASSUME NEW t \in Tickets(lrc', a.op) PROVE Holds(cmd, a, t)'
  <2>1. \/ t \in 1..Len(lrc'.states) /\ lrc'.states[t].op = a.op
        \/ t = lrc'.lticket /\ lrc'.lticket # 0 /\ lrc'.local.op = a.op
    BY DEF Tickets
  <2> QED
    BY <1>4, <1>5, <2>1
<1> QED
  BY <1>2, <1>6

(* An operation has one ticket.                                            *)
LEMMA OneTicket ==
  ASSUME Types, Ledger, NEW t \in Nat, t # 0, Known(lrc, t)
  PROVE  /\ Tickets(lrc, StateAt(lrc, t).op) = {t} /\ Recorded(StateAt(lrc, t).op)
         /\ StateAt(lrc, t) \in States /\ StateAt(lrc, t).op # 0
<1>0. lrc \in LrcTypes
  BY DEF Types
<1>1. /\ Len(lrc.states) \in Nat /\ lrc.lticket \in Nat /\ LocalBase \in Nat /\ lrc.local \in States
      /\ \A u \in 1..Len(lrc.states) : /\ lrc.states[u] \in States /\ lrc.states[u].op \in Ops
                                       /\ lrc.states[u].op \in 1..LocalBase
      /\ \A u, v \in 1..Len(lrc.states) : lrc.states[u].op = lrc.states[v].op => u = v
      /\ Len(lrc.states) <= MaxTickets
      /\ lrc.lticket # 0 => lrc.lticket > LocalBase
      /\ lrc.local.op = lrc.lticket
  BY <1>0, LedgerTypes, TicketFacts DEF Ledger
<1>2. CASE Local(t)
  <2>1. t = lrc.lticket /\ StateAt(lrc, t) = lrc.local
    BY <1>2 DEF Known, StateAt
  <2>2. \A u \in 1..Len(lrc.states) : lrc.states[u].op # lrc.lticket
    BY <1>1, <2>1
  <2>3. Recorded(t)
    BY <1>1, <1>2, <2>1 DEF Recorded
  <2> QED
    BY <1>1, <2>1, <2>2, <2>3 DEF Tickets
<1>3. CASE ~Local(t)
  <2>1. t \in 1..Len(lrc.states) /\ StateAt(lrc, t) = lrc.states[t]
    BY <1>3 DEF Known, StateAt
  <2>2. lrc.states[t].op \in 1..LocalBase /\ lrc.states[t].op # lrc.local.op
    BY <1>1, <2>1
  <2>3. Recorded(lrc.states[t].op)
    BY <1>1, <2>1, <2>2 DEF Recorded, Local
  <2>4. Tickets(lrc, lrc.states[t].op) = {t}
    BY <1>1, <2>1, <2>2 DEF Tickets
  <2> QED
    BY <1>1, <2>1, <2>2, <2>3, <2>4
<1> QED
  BY <1>2, <1>3


-----------------------------------------------------------------------------
(* Steps that leave the operations alone.                                  *)

OpsSame ==
  /\ lrc' \in LrcTypes /\ lrc'.states = lrc.states /\ lrc'.local = lrc.local
  /\ lrc'.lticket = lrc.lticket /\ lrc'.current = lrc.current /\ lrc.stop \subseteq lrc'.stop
  /\ lrc.fault => lrc'.fault
CoreSame == OpsSame /\ lrc'.armed = lrc.armed /\ lrc'.submitting = lrc.submitting
GestureSame == lrc'.tapping = lrc.tapping /\ lrc'.fresh = lrc.fresh /\ lrc'.press = lrc.press
SameTurn(x, y) ==
  /\ Submits(y) <=> Submits(x)
  /\ Asks(y) <=> Asks(x)
  /\ Submits(x) => y.ticket = x.ticket
StillAnswers ==
  Answered' => /\ Answered /\ work'.req = work.req /\ work'.state = work.state
               /\ ble'.request = ble.request

(* What is read off the operations is then unchanged.                      *)
LEMMA OpsFacts ==
  ASSUME OpsSame
  PROVE  /\ \A t : StateAt(lrc', t) = StateAt(lrc, t)
         /\ \A t : Known(lrc', t) <=> Known(lrc, t)
         /\ Busy(lrc') <=> Busy(lrc)
         /\ \A t : Issued(t)' <=> Issued(t)
         /\ \A op : Recorded(op)' <=> Recorded(op)
         /\ lrc'.current = lrc.current
<1>1. \A t : StateAt(lrc', t) = StateAt(lrc, t)
  BY DEF OpsSame, StateAt
<1>2. \A t : Known(lrc', t) <=> Known(lrc, t)
  BY DEF OpsSame, Known
<1>3. Busy(lrc') <=> Busy(lrc)
  BY <1>1 DEF Busy, OpsSame
<1>4. \A t : Issued(t)' <=> Issued(t)
  BY DEF OpsSame, Issued, Local
<1>5. \A op : Recorded(op)' <=> Recorded(op)
  BY DEF OpsSame, Recorded, Local
<1> QED
  BY <1>1, <1>2, <1>3, <1>4, <1>5 DEF OpsSame

(* The same where also nothing begins or ceases to wait.                   *)
LEMMA CoreFacts ==
  ASSUME CoreSame
  PROVE  /\ \A t : StateAt(lrc', t) = StateAt(lrc, t)
         /\ \A t : Known(lrc', t) <=> Known(lrc, t)
         /\ Busy(lrc') <=> Busy(lrc)
         /\ \A t : Issued(t)' <=> Issued(t)
         /\ \A op : Recorded(op)' <=> Recorded(op)
         /\ lrc'.current = lrc.current /\ lrc'.armed = lrc.armed
         /\ lrc'.submitting = lrc.submitting
BY OpsFacts DEF CoreSame, OpsSame

(* Such a step is one of those that only let the ledger grow.              *)
LEMMA CoreGrows ==
  ASSUME Types, OpsSame PROVE Grows
<1>0. lrc \in LrcTypes
  BY DEF Types
<1>1. Len(lrc.states) \in Nat
  BY <1>0, LedgerTypes
<1> QED
  BY <1>1 DEF OpsSame, Grows, Follows

(* What ran, while nothing new is taken.                                   *)
LEMMA RunsGrow ==
  ASSUME Types, Ledger, Runs, Grows, ran' = ran PROVE Runs'
<1>1. ran \in Seq(Nat)
  BY DEF Types
<1>2. \A i \in 1..Len(ran) : ran[i] \in Nat
  BY <1>1
<1>3. \A i \in 1..Len(ran) : Recorded(ran[i])'
  BY <1>2, RecordedGrows DEF Runs
<1> QED
  BY <1>3 DEF Runs, StartedOnce

(* What was told and what is about to be, while no new answer is made.     *)
LEMMA ToldGrows ==
  ASSUME Types, Ledger, Told, Grows, Ledger', last' = last, StillAnswers PROVE Told'
<1>1. last.state \in States /\ work.state \in States
  BY DEF Types, WorkTypes
<1>2. Kept(last.cmd, last.state)'
  <2>1. \A cmd : \A a \in States : Kept(cmd, a) => Kept(cmd, a)'
    BY KeptGrows
  <2>2. Kept(last.cmd, last.state)
    BY DEF Told
  <2> QED
    BY <1>1, <2>1, <2>2
<1>3. ASSUME Answered' PROVE Kept(work.req.cmd, work.state)' /\ work'.req = ble'.request
  <2>1. /\ Answered /\ work'.req = work.req /\ work'.state = work.state
        /\ ble'.request = ble.request
    BY <1>3 DEF StillAnswers
  <2>2. Kept(work.req.cmd, work.state) /\ work.req = ble.request
    BY <2>1 DEF Told
  <2>3. \A cmd : \A a \in States : Kept(cmd, a) => Kept(cmd, a)'
    BY KeptGrows
  <2> QED
    BY <1>1, <2>1, <2>2, <2>3
<1> QED
  BY <1>2, <1>3 DEF Told

(* The operations that wait, while nothing else of theirs moves.           *)
LEMMA WaitsCalm ==
  ASSUME Types, Waits, CoreSame, SameTurn(work, work'), SameTurn(btn, btn'), ran' = ran,
         rt'.msg = rt.msg, Working' => Working
  PROVE  Waits' /\ (Waiting' <=> Waiting)
<1>1. /\ lrc'.current = lrc.current /\ lrc'.armed = lrc.armed /\ lrc'.submitting = lrc.submitting
      /\ lrc'.states = lrc.states /\ StateAt(lrc', lrc.current) = StateAt(lrc, lrc.current)
  BY CoreFacts DEF CoreSame, OpsSame
<1>2. /\ Submits(work)' <=> Submits(work)
      /\ Submits(btn)' <=> Submits(btn)
      /\ Asks(work)' <=> Asks(work)
      /\ Asks(btn)' <=> Asks(btn)
      /\ Submits(work) => work'.ticket = work.ticket
      /\ Submits(btn) => btn'.ticket = btn.ticket
  BY DEF SameTurn, Submits, Asks
<1>3. Waiting' <=> Waiting
  BY <1>1, <1>2 DEF Waiting
<1>4. Waiting' => /\ lrc'.current # 0 /\ Unbegun(StateAt(lrc', lrc'.current))
                  /\ NeverRan(StateAt(lrc, lrc.current).op)'
                  /\ rt'.msg = 0 /\ ~Working'
  BY <1>1, <1>3 DEF Waits, Unbegun, NeverRan
<1>5. /\ lrc'.armed # 0 => lrc'.armed = lrc'.current /\ lrc'.armed \in 1..Len(lrc'.states) /\ ~lrc'.submitting
      /\ lrc'.submitting <=> Submits(work)' \/ Submits(btn)'
      /\ ~(Submits(work)' /\ Submits(btn)')
      /\ Submits(work)' => work'.ticket = lrc'.current
      /\ Submits(btn)' => btn'.ticket = lrc'.current
  BY <1>1, <1>2 DEF Waits
<1> QED
  BY <1>3, <1>4, <1>5 DEF Waits

(* The ledger, while the operations and the gesture are left alone.        *)
LEMMA LedgerCalm ==
  ASSUME Ledger, Fresh, OpsSame, GestureSame, count'.taps = count.taps PROVE Ledger' /\ Fresh'
<1>1. lrc'.current # 0 => Known(lrc, lrc.current)'
  BY OpsFacts DEF Ledger, OpsSame, Known, Local
<1>2. Issued(lrc.press)'
  <2>1. Issued(lrc.press)
    BY DEF Ledger
  <2> QED
    BY <2>1 DEF Issued, OpsSame, GestureSame, Local
<1>3. Fresh'
  BY OpsFacts DEF Fresh, GestureSame, OpsSame
<1> QED
  BY <1>1, <1>2, <1>3 DEF Ledger, OpsSame, GestureSame

(* The runtime, the codec thread and the owner of what is active, while    *)
(* they and the operations are left alone.                                 *)
LEMMA RuntimeCalm ==
  ASSUME Runtime, Codecs, Owned, CoreSame, cod' = cod, rt' = rt, maint' = maint, ran' = ran,
         gate' = "maint" => gate = "maint", Waiting' <=> Waiting
  PROVE  Runtime' /\ Codecs' /\ Owned'
<1>1. Runtime'
  BY CoreFacts DEF Runtime, NeverRan
<1>2. Codecs'
  BY CoreFacts DEF Codecs, Working, CoreSame, OpsSame, PublishedPhase, LoopPhase
<1>3. Owned'
  BY CoreFacts DEF Owned, CoreSame, OpsSame
<1> QED
  BY <1>1, <1>2, <1>3

(* A step that leaves the operations, the runtime and the codec thread     *)
(* alone; the gesture may go on.                                           *)
LEMMA GestureKeeps ==
  ASSUME ControlInv, link # "off", link' # "off", Types', Gates', Numbers', Ledger', Fresh',
         CoreSame, SameTurn(work, work'), SameTurn(btn, btn'), cod' = cod, rt' = rt,
         maint' = maint, ran' = ran, gate' = "maint" => gate = "maint",
         last' = last \/ Told', StillAnswers \/ Told'
  PROVE  ControlInv'
<1>1. Waits' /\ (Waiting' <=> Waiting)
  <2>1. Working' => Working
    BY DEF Working
  <2> QED
    BY <2>1, WaitsCalm DEF ControlInv
<1>2. Runtime' /\ Codecs' /\ Owned'
  BY <1>1, RuntimeCalm DEF ControlInv
<1>3. Grows
  BY CoreGrows DEF ControlInv, CoreSame, OpsSame
<1>4. Runs'
  BY <1>3, RunsGrow DEF ControlInv
<1>5. Told'
  BY <1>3, ToldGrows DEF ControlInv
<1>6. Off'
  BY DEF Off
<1> QED
  BY <1>1, <1>2, <1>4, <1>5, <1>6 DEF ControlInv

(* A step of the broker or the work queue that leaves all that alone, and  *)
(* the gesture too.                                                        *)
LEMMA SteadyKeeps ==
  ASSUME ControlInv, link # "off", link' # "off", Types', Gates', Numbers',
         CoreSame, GestureSame, count'.taps = count.taps, SameTurn(work, work'),
         SameTurn(btn, btn'), cod' = cod, rt' = rt, maint' = maint, ran' = ran,
         gate' = "maint" => gate = "maint", last' = last \/ Told', StillAnswers \/ Told'
  PROVE  ControlInv'
<1>1. Ledger' /\ Fresh'
  BY LedgerCalm DEF ControlInv, CoreSame, OpsSame
<1> QED
  BY <1>1, GestureKeeps

(* A step of the codec thread with its operation, or of no one.            *)
LEMMA CodecKeeps ==
  ASSUME ControlInv, link # "off", link' = link, Types', Gates', Codecs', lrc' = lrc,
         ble' = ble, work' = work, btn' = btn, maint' = maint, count' = count, ran' = ran,
         last' = last, rt' = rt, cod'.ticket = cod.ticket, Working' => Working,
         cod.pc \notin {"idle", "off"}, cod'.pc \notin {"idle", "off"},
         gate' = "maint" => gate = "maint"
  PROVE  ControlInv'
<1>1. CoreSame /\ GestureSame
  BY DEF CoreSame, OpsSame, GestureSame, ControlInv, Types
<1>2. SameTurn(work, work') /\ SameTurn(btn, btn') /\ StillAnswers
  BY DEF SameTurn, StillAnswers, Answered
<1>3. Ledger' /\ Fresh'
  BY <1>1, LedgerCalm DEF ControlInv, CoreSame
<1>4. Waits' /\ (Waiting' <=> Waiting)
  BY <1>1, <1>2, WaitsCalm DEF ControlInv
<1>5. Runtime'
  BY <1>1, CoreFacts DEF Runtime, NeverRan, ControlInv
<1>6. Owned'
  BY <1>1, <1>4, CoreFacts DEF Owned, ControlInv
<1>7. Grows
  BY <1>1, CoreGrows DEF ControlInv, CoreSame
<1>8. Runs' /\ Told'
  BY <1>2, <1>3, <1>7, RunsGrow, ToldGrows DEF ControlInv
<1>9. Numbers' /\ Off'
  BY DEF Numbers, Off, ControlInv
<1> QED
  BY <1>3, <1>4, <1>5, <1>6, <1>8, <1>9 DEF ControlInv

(* A step of a maintenance owner.                                          *)
LEMMA MaintKeeps ==
  ASSUME ControlInv, link # "off", link' = link, Types', Gates', Runtime', lrc' = lrc,
         ble' = ble, work' = work, btn' = btn, cod' = cod, ran' = ran, last' = last,
         rt'.msg = rt.msg, rt.busy = "command" => rt'.busy = "command",
         count'.taps = count.taps, count'.requests = count.requests
  PROVE  ControlInv'
<1>1. CoreSame /\ GestureSame
  BY DEF CoreSame, OpsSame, GestureSame, ControlInv, Types
<1>2. SameTurn(work, work') /\ SameTurn(btn, btn') /\ StillAnswers
  BY DEF SameTurn, StillAnswers, Answered
<1>3. Ledger' /\ Fresh'
  BY <1>1, LedgerCalm DEF ControlInv, CoreSame
<1>4. Waits' /\ (Waiting' <=> Waiting)
  <2>1. Working' => Working
    BY DEF Working
  <2> QED
    BY <1>1, <1>2, <2>1, WaitsCalm DEF ControlInv
<1>5. Codecs'
  BY <1>1, CoreFacts DEF Codecs, Working, CoreSame, OpsSame, PublishedPhase, LoopPhase, ControlInv
<1>6. Owned'
  BY <1>1, <1>4, CoreFacts DEF Owned, ControlInv
<1>7. Grows
  BY <1>1, CoreGrows DEF ControlInv, CoreSame
<1>8. Runs' /\ Told'
  BY <1>2, <1>3, <1>7, RunsGrow, ToldGrows DEF ControlInv
<1>9. Numbers' /\ Off'
  BY DEF Numbers, Off, ControlInv
<1> QED
  BY <1>3, <1>4, <1>5, <1>6, <1>8, <1>9 DEF ControlInv

-----------------------------------------------------------------------------
(* The beginning, a reset and a restart.                                   *)

Blank ==
  /\ gate = Nobody /\ lrc = Lrc0 /\ ble = Ble0 /\ work = NoWork /\ rt = Rt0
  /\ ran = << >> /\ last = NoReply
  /\ count \in CountTypes /\ btn \in ButtonTypes /\ cod \in CodecTypes
  /\ \/ link = NoConn /\ maint = "idle" /\ btn = NoSample /\ cod = NoJob
     \/ link = "off" /\ maint = "off" /\ btn.pc = "off" /\ cod.pc = "off"

(* A device without operations.                                            *)
LEMMA BlankInv == Blank => ControlInv
<1> SUFFICES ASSUME Blank PROVE ControlInv
  OBVIOUS
<1>0. /\ gate = "nobody" /\ btn \in ButtonTypes /\ cod \in CodecTypes /\ count \in CountTypes
      /\ lrc.states = << >> /\ lrc.current = 0 /\ lrc.armed = 0 /\ lrc.submitting = FALSE
      /\ lrc.lticket = 0 /\ lrc.local = IdleState /\ lrc.seq = 0 /\ lrc.press = 0
      /\ lrc.tapping = FALSE /\ lrc.fresh = FALSE
      /\ ble.request = NoRequest /\ work.pc = "idle" /\ work.to = "idle" /\ rt.busy = "no" /\ rt.msg = 0
      /\ last.state = IdleState /\ ran = << >> /\ btn.pc \in {"idle", "off"}
      /\ \/ link # "off" /\ maint = "idle" /\ btn.pc = "idle" /\ cod.pc = "idle" /\ cod.ticket = 0
         \/ link = "off" /\ maint = "off" /\ btn.pc = "off" /\ cod.pc = "off"
  BY DEF Blank, Lrc0, Ble0, NoWork, Rt0, NoReply, Nobody, NoConn, NoSample, NoJob
<1>1. Types
  <2>1. << >> \in Seq(Nat)
    OBVIOUS
  <2> QED
    BY <2>1, InitialTypes DEF Blank, Types, NoConn, MaintLabels
<1>2. Gates
  BY <1>0 DEF Gates, Nobody
<1>3. Numbers
  <2>1. ble.request.seq = 0 /\ count.requests \in Nat
    BY <1>0, TicketFacts DEF NoRequest, CountTypes
  <2> QED
    BY <1>0, <2>1 DEF Numbers
<1>4. Off
  BY DEF Blank, Off, NoConn
<1>5. Len(lrc.states) = 0 /\ IdleState.op = 0 /\ LocalBase \in Nat /\ MaxTickets \in Nat /\ count.taps \in Nat
  BY <1>0, TicketFacts DEF IdleState, State, NoOp, CountTypes
<1>6. ~Busy(lrc) /\ ~Waiting /\ ~Submits(work) /\ ~Submits(btn) /\ ~Working
  BY <1>0 DEF Busy, Waiting, Asks, Submits, Working
<1>7. Ledger
  <2>1. Issued(0)
    BY <1>5 DEF Issued, Local
  <2> QED
    BY <1>0, <1>5, <2>1 DEF Ledger
<1>8. Waits /\ Fresh
  BY <1>0, <1>6 DEF Waits, Fresh
<1>9. Runtime
  BY <1>0, <1>6 DEF Runtime
<1>10. Codecs
  <2>1. Issued(0)
    BY <1>5 DEF Issued, Local
  <2> QED
    BY <1>0, <1>6, <2>1 DEF Codecs, PublishedPhase, LoopPhase
<1>11. Owned /\ Runs
  BY <1>0, <1>6 DEF Owned, Runs, StartedOnce
<1>12. Told
  BY <1>0, <1>5 DEF Told, Kept, NoOp, Answered
<1> QED
  BY <1>1, <1>2, <1>3, <1>4, <1>7, <1>8, <1>9, <1>10, <1>11, <1>12 DEF ControlInv

(* The same of the state after a step.                                     *)
LEMMA BlankInvNext == Blank' => ControlInv'
<1>1. (Blank => ControlInv)'
  BY BlankInv, PTL
<1> QED
  BY <1>1

(* The initial states.                                                     *)
LEMMA InitInv == Init => ControlInv
<1> SUFFICES ASSUME Init PROVE Blank
  BY BlankInv
<1> QED
  BY InitialTypes DEF Init, InitAfter, Blank

(* fatal, whoever meets it.                                                *)
LEMMA FatalInv ==
  ASSUME ControlInv, Fatal PROVE ControlInv'
<1>1. cod' \in CodecTypes /\ cod'.pc = "off"
  BY DEF ControlInv, Types, CodecTypes, CodecLabels, Fatal
<1>2. btn' \in ButtonTypes /\ btn'.pc = "off"
  BY InitialTypes DEF ButtonTypes, ButtonLabels, Fatal
<1>3. count' \in CountTypes
  BY DEF ControlInv, Types, Fatal
<1>4. Blank'
  BY <1>1, <1>2, <1>3 DEF Blank, Fatal
<1> QED
  BY <1>4, BlankInvNext

(* The next boot.                                                          *)
LEMMA RestartInv ==
  ASSUME ControlInv, Restart PROVE ControlInv'
<1>1. Blank'
  BY InitialTypes DEF Blank, Restart, Up, ControlInv, Off, Types
<1> QED
  BY <1>1, BlankInvNext

(* A device whose threads run is up.                                       *)
LEMMA DeviceUp ==
  ASSUME ControlInv
  PROVE  /\ link = "off" => /\ gate = Nobody /\ work.pc = "idle" /\ btn.pc = "off" /\ cod.pc = "off"
                            /\ maint = "off" /\ ble.conn = NoConn /\ ~ble.pending
                            /\ lrc.armed = 0 /\ rt.msg = 0
         /\ NoConn # "off" /\ \A c \in Conns : c # "off"
<1>1. NoConn # "off" /\ \A c \in Conns : c # "off"
  BY ConnsAssumption DEF ConnsAssumption, NoConn
<1> QED
  BY <1>1 DEF ControlInv, Off, NoWork, Ble0, Lrc0, Rt0

-----------------------------------------------------------------------------
(* The Bluetooth thread and the deadlines.                                 *)

(* A connection that comes or goes, and a request.                         *)
LEMMA BluetoothInv ==
  ASSUME ControlInv, Bluetooth PROVE ControlInv'
<1>0. /\ link \in Conns \cup {NoConn, "off"} /\ ble \in BleTypes /\ count \in CountTypes
      /\ lrc \in LrcTypes /\ Types /\ Gates /\ Numbers
  BY DEF ControlInv, Types
<1> DEFINE Goal == /\ UNCHANGED <<gate, lrc, work, btn, cod, rt, maint, ran, last>>
                   /\ link # "off" /\ link' # "off" /\ link' \in Conns \cup {NoConn, "off"}
                   /\ ble' \in BleTypes /\ count' \in CountTypes /\ count'.taps = count.taps
                   /\ lrc.seq <= count'.requests /\ ble'.request.seq <= count'.requests
                   /\ ble'.request = ble.request \/ work.pc = "idle"
<1>1. ASSUME NEW c \in Conns, Connect(c) PROVE Goal
  BY <1>0, <1>1, DeviceUp DEF Connect, BleOnly, Numbers, NoConn
<1>2. ASSUME Disconnect PROVE Goal
  BY <1>0, <1>2, DeviceUp DEF Disconnect, BleOnly, Numbers, BleTypes
<1>3. ASSUME NEW r \in Requests, Request(r) PROVE Goal
  <2>1. /\ lrc.seq \in Nat /\ count.requests \in 0..MaxRequests /\ count.taps \in 0..MaxTaps
        /\ count.claims \in Nat /\ ble.epoch \in Nat /\ MaxRequests \in Nat
    BY <1>0, TicketFacts DEF LrcTypes, CountTypes, BleTypes
  <2>2. r \in Requestable /\ r.seq <= count.requests + 1
    BY <1>0, <2>1 DEF Requests, Requestable, Numbers
  <2>3. link \in Conns /\ work.pc = "idle" /\ count.requests < MaxRequests
        /\ UNCHANGED <<gate, lrc, work, btn, cod, rt, maint, ran, last>> /\ link' = link
        /\ ble' = [ble EXCEPT !.conn = link, !.request = r, !.pending = TRUE,
                              !.executed = FALSE, !.late = FALSE,
                              !.epoch = IF ble.conn = NoConn THEN @ + 1 ELSE @]
        /\ count' = [count EXCEPT !.requests = @ + 1]
    BY <1>3 DEF Request, Requested, BleOnly
  <2>4. count' \in CountTypes /\ count'.taps = count.taps /\ count'.requests = count.requests + 1
    <3>1. count.requests + 1 \in 0..MaxRequests
      BY <2>1, <2>3
    <3> QED
      BY <1>0, <2>3, <3>1 DEF CountTypes
  <2>5. ble' \in BleTypes /\ ble'.request = r
    <3>1. (IF ble.conn = NoConn THEN ble.epoch + 1 ELSE ble.epoch) \in Nat
      BY <2>1
    <3> QED
      BY <1>0, <2>2, <2>3, <3>1 DEF BleTypes
  <2> QED
    BY <1>0, <2>1, <2>2, <2>3, <2>4, <2>5, DeviceUp DEF Numbers
<1>4. Goal
  BY <1>1, <1>2, <1>3 DEF Bluetooth
<1> HIDE DEF Goal
<1>5. Types' /\ Gates' /\ Numbers'
  BY <1>0, <1>4 DEF Goal, Types, Gates, Numbers
<1>6. CoreSame /\ GestureSame
  BY <1>0, <1>4 DEF Goal, CoreSame, OpsSame, GestureSame
<1>7. SameTurn(work, work') /\ SameTurn(btn, btn') /\ StillAnswers
  BY <1>4 DEF Goal, SameTurn, StillAnswers, Answered
<1> QED
  BY <1>4, <1>5, <1>6, <1>7, SteadyKeeps DEF Goal

(* A deadline that passes.                                                 *)
LEMMA ExpireInv ==
  ASSUME ControlInv, Expire PROVE ControlInv'
<1>0. ble \in BleTypes /\ lrc \in LrcTypes /\ Types /\ Gates /\ Numbers
  BY DEF ControlInv, Types
<1>1. /\ UNCHANGED <<link, maint, count, ran, last, gate, work, btn, cod, rt>> /\ link # "off"
      /\ \/ lrc' = lrc /\ ble' = [ble EXCEPT !.late = TRUE]
         \/ lrc' = [lrc EXCEPT !.late = TRUE] /\ ble' = ble
  BY DeviceUp DEF Expire, quiet
<1>2. ble' \in BleTypes /\ ble'.request = ble.request
  BY <1>0, <1>1 DEF BleTypes
<1>3. CoreSame /\ GestureSame /\ lrc'.seq = lrc.seq
  <2>1. lrc' \in LrcTypes
    BY <1>0, <1>1 DEF LrcTypes
  <2> QED
    BY <1>0, <1>1, <2>1 DEF CoreSame, OpsSame, GestureSame, LrcTypes
<1>4. Types' /\ Gates' /\ Numbers'
  BY <1>0, <1>1, <1>2, <1>3 DEF Types, Gates, Numbers, CoreSame, OpsSame
<1>5. SameTurn(work, work') /\ SameTurn(btn, btn') /\ StillAnswers
  BY <1>1, <1>2 DEF SameTurn, StillAnswers, Answered
<1> QED
  BY <1>1, <1>3, <1>4, <1>5, SteadyKeeps

-----------------------------------------------------------------------------
(* The codec thread.                                                       *)

(* Everything but the codec thread and the gate is left alone.             *)
OthersSame ==
  /\ link' = link /\ lrc' = lrc /\ ble' = ble /\ work' = work /\ btn' = btn
  /\ maint' = maint /\ count' = count /\ ran' = ran /\ last' = last /\ rt' = rt

(* A step of the codec thread within the operation it has.                 *)
LEMMA CodecStep ==
  ASSUME ControlInv, OthersSame, Working, cod' \in CodecTypes, cod'.ticket = cod.ticket,
         cod'.pc \notin {"idle", "off", "end"}, PublishedPhase', LoopPhase',
         cod'.pc = "leave" => cod'.to \in {"admit", "publish", "loop"},
         IF cod'.pc = "leave" THEN gate' = "codec" /\ gate = Nobody
         ELSE IF cod.pc = "leave" THEN gate' = Nobody ELSE gate' = gate
  PROVE  ControlInv'
<1>0. Types /\ Gates /\ Codecs
  BY DEF ControlInv
<1>1. cod.pc \notin {"idle", "off"}
  BY DEF Working
<1>2. link # "off"
  BY <1>1, DeviceUp
<1>3. Types'
  BY <1>0 DEF Types, OthersSame
<1>4. Gates' 
  BY <1>0 DEF Gates, OthersSame, Nobody
<1>5. CoreSame
  BY <1>0 DEF CoreSame, OpsSame, OthersSame, Types
<1>6. Issued(cod.ticket)'
  <2>1. Issued(cod.ticket)
    BY <1>0, <1>1 DEF Codecs
  <2> QED
    BY <2>1 DEF Issued, OthersSame, Local
<1>7. Codecs'
  BY <1>0, <1>6 DEF Codecs, OthersSame
<1>8. gate' = "maint" => gate = "maint"
  BY DEF Nobody
<1> QED
  BY <1>1, <1>2, <1>3, <1>4, <1>7, <1>8, CodecKeeps DEF OthersSame

(* It sets out to publish.                                                 *)
LEMMA PublishesInv ==
  ASSUME ControlInv, Working, cod.pc # "leave", NEW kind, NEW w \in States, MayPublish(kind, w),
         CodecOnly(Publishes(kind, w))
  PROVE  ControlInv'
<1>0. cod \in CodecTypes
  BY DEF ControlInv, Types
<1>1. OthersSame /\ gate' = gate
  BY DEF CodecOnly, quiet, OthersSame
<1>2. kind \in {"loop", "final", "fail"}
  BY DEF MayPublish
<1>3. /\ cod'.pc = "copy" /\ cod'.ticket = cod.ticket /\ cod'.kind = kind /\ cod'.worker = w
      /\ cod' \in CodecTypes
  BY <1>0, <1>2 DEF CodecOnly, Publishes, CodecTypes, CodecLabels
<1>4. PublishedPhase' /\ LoopPhase'
  BY <1>3 DEF PublishedPhase, LoopPhase
<1> QED
  BY <1>1, <1>3, <1>4, CodecStep

(* It goes on to another point of the same operation.                      *)
LEMMA MovesInv ==
  ASSUME ControlInv, Working, cod.pc # "leave",
         NEW pc \in {"start", "capacity", "reserved", "loop", "copy"}, NEW tries \in Nat,
         CodecOnly([cod EXCEPT !.pc = pc, !.tries = tries]),
         pc = "copy" => MayPublish(cod.kind, cod.worker),
         pc = "loop" => cod.worker.phase \in {"RUNNING", "DRAINING", "FAULT"}
  PROVE  ControlInv'
<1>0. cod \in CodecTypes
  BY DEF ControlInv, Types
<1>1. OthersSame /\ gate' = gate
  BY DEF CodecOnly, quiet, OthersSame
<1>3. /\ cod'.pc = pc /\ cod'.ticket = cod.ticket /\ cod'.kind = cod.kind /\ cod'.worker = cod.worker
      /\ cod' \in CodecTypes
  BY <1>0 DEF CodecOnly, CodecTypes, CodecLabels
<1>4. PublishedPhase' /\ LoopPhase'
  BY <1>3 DEF PublishedPhase, LoopPhase
<1> QED
  BY <1>1, <1>3, <1>4, CodecStep

(* The same without another try.                                           *)
LEMMA MovesOn ==
  ASSUME ControlInv, Working, cod.pc # "leave",
         NEW pc \in {"start", "capacity", "reserved", "loop"},
         CodecOnly([cod EXCEPT !.pc = pc]),
         pc = "loop" => cod.worker.phase \in {"RUNNING", "DRAINING", "FAULT"}
  PROVE  ControlInv'
<1>0. cod \in CodecTypes
  BY DEF ControlInv, Types
<1>1. OthersSame /\ gate' = gate
  BY DEF CodecOnly, quiet, OthersSame
<1>3. /\ cod'.pc = pc /\ cod'.ticket = cod.ticket /\ cod'.kind = cod.kind /\ cod'.worker = cod.worker
      /\ cod' \in CodecTypes
  BY <1>0 DEF CodecOnly, CodecTypes, CodecLabels
<1>4. PublishedPhase' /\ LoopPhase'
  BY <1>3 DEF PublishedPhase, LoopPhase
<1> QED
  BY <1>1, <1>3, <1>4, CodecStep

(* What the codec thread has is known.                                     *)
LEMMA WorkingFacts ==
  ASSUME ControlInv, Working
  PROVE  /\ cod.ticket = lrc.current /\ lrc.current # 0 /\ Known(lrc, lrc.current)
         /\ Active(StateAt(lrc, lrc.current)) /\ StateAt(lrc, lrc.current) \in States
         /\ StateAt(lrc, lrc.current).op # 0
         /\ FailedStart(cod.ticket) \in States /\ MayPublish("fail", FailedStart(cod.ticket))
         /\ cod.worker.op \in 0..(LocalBase + MaxTaps) /\ cod \in CodecTypes /\ link # "off"
<1>0. Types /\ Ledger /\ Codecs /\ lrc \in LrcTypes /\ cod \in CodecTypes
  BY DEF ControlInv, Types
<1>1. /\ cod.ticket = lrc.current /\ lrc.current # 0 /\ Known(lrc, lrc.current)
      /\ Active(StateAt(lrc, lrc.current))
  BY <1>0 DEF Codecs, Ledger
<1>2. lrc.current \in Nat
  BY <1>0, LedgerTypes
<1>3. StateAt(lrc, lrc.current) \in States /\ StateAt(lrc, lrc.current).op # 0
  BY <1>0, <1>1, <1>2, OneTicket
<1>4. FailedStart(cod.ticket) \in States /\ FailedStart(cod.ticket).phase = "FAULT"
  <2>1. StateAt(lrc, lrc.current).op \in 0..(LocalBase + MaxTaps)
    BY <1>3 DEF States
  <2>2. State(StateAt(lrc, lrc.current).op, "FAULT", "ADMISSION", FALSE) \in States
    BY <2>1, StateTypes, RankFacts
  <2> QED
    BY <1>1, <2>2 DEF FailedStart, State
<1>5. cod.worker.op \in 0..(LocalBase + MaxTaps)
  BY <1>0 DEF CodecTypes, States
<1>6. link # "off"
  BY DeviceUp DEF Working
<1> QED
  BY <1>0, <1>1, <1>3, <1>4, <1>5, <1>6 DEF MayPublish

(* mount_writable and rsb_select.                                          *)
LEMMA CodecMountsInv ==
  ASSUME ControlInv, CodecMounts PROVE ControlInv'
<1>1. Working /\ cod.pc # "leave"
  BY DEF CodecMounts, Working
<1>2. CASE CodecOnly([cod EXCEPT !.pc = "start"])
  BY <1>1, <1>2, MovesOn
<1>3. CASE CodecOnly(Publishes("fail", FailedStart(cod.ticket)))
  BY <1>1, <1>3, WorkingFacts, PublishesInv
<1>4. CASE Fatal
  BY <1>4, FatalInv
<1> QED
  BY <1>2, <1>3, <1>4 DEF CodecMounts

(* lcw_start.                                                              *)
LEMMA CodecStartsInv ==
  ASSUME ControlInv, CodecStarts PROVE ControlInv'
<1>1. Working /\ cod.pc # "leave" /\ cod.tries \in Nat
  BY DEF CodecStarts, Working, ControlInv, Types, CodecTypes
<1>2. CASE CodecOnly([cod EXCEPT !.tries = @ + 1])
  <2>1. OthersSame /\ gate' = gate
    BY <1>2 DEF CodecOnly, quiet, OthersSame
  <2>2. /\ cod'.pc = cod.pc /\ cod'.ticket = cod.ticket /\ cod.pc = "start"
        /\ cod' \in CodecTypes
    <3>1. cod.tries + 1 \in Nat /\ cod \in CodecTypes
      BY <1>1, WorkingFacts
    <3> QED
      BY <1>2, <3>1 DEF CodecOnly, CodecTypes, CodecStarts
  <2>3. PublishedPhase' /\ LoopPhase'
    BY <2>2 DEF PublishedPhase, LoopPhase
  <2> QED
    BY <1>1, <2>1, <2>2, <2>3, CodecStep
<1>3. CASE CodecOnly(Publishes("fail", FailedStart(cod.ticket)))
  BY <1>1, <1>3, WorkingFacts, PublishesInv
<1>4. CASE Fatal
  BY <1>4, FatalInv
<1>5. CASE /\ gate = Nobody /\ gate' = "codec"
           /\ cod' = [Leaves(cod, "admit") EXCEPT !.worker = StateAt(lrc, cod.ticket)]
           /\ UNCHANGED <<quiet, lrc, ble, work, btn, rt>>
  <2>1. OthersSame
    BY <1>5 DEF quiet, OthersSame
  <2>2. /\ cod'.pc = "leave" /\ cod'.to = "admit" /\ cod'.ticket = cod.ticket
        /\ cod' \in CodecTypes
    <3>1. StateAt(lrc, cod.ticket) \in States /\ cod \in CodecTypes
      BY <1>1, WorkingFacts
    <3> QED
      BY <1>5, <3>1 DEF Leaves, CodecTypes, CodecLabels
  <2>3. PublishedPhase' /\ LoopPhase'
    BY <2>2 DEF PublishedPhase, LoopPhase
  <2> QED
    BY <1>1, <1>5, <2>1, <2>2, <2>3, CodecStep
<1> QED
  BY <1>2, <1>3, <1>4, <1>5 DEF CodecStarts

(* rw_start_inner's three questions.                                       *)
LEMMA CodecConsentsInv ==
  ASSUME ControlInv, CodecConsents PROVE ControlInv'
<1>1. Working /\ cod.pc # "leave"
  BY DEF CodecConsents, Working
<1>2. \A phase \in DOMAIN Rank, reason \in {"USER", "FULL", "NONE"}, created \in BOOLEAN :
        /\ Worker(phase, reason, created) \in States
        /\ Worker(phase, reason, created).phase = phase
  <2>1. cod.worker.op \in 0..(LocalBase + MaxTaps)
    BY <1>1, WorkingFacts
  <2> QED
    BY <2>1, StateTypes, StateFacts DEF Worker, Clean
<1>3. CASE Fatal
  BY <1>3, FatalInv
<1>4. ASSUME NEW c \in NextStart, CodecOnly(c) PROVE ControlInv'
  <2>1. \/ c = [cod EXCEPT !.pc = "capacity"] \/ c = [cod EXCEPT !.pc = "reserved"]
        \/ c = Publishes("final", Worker("STOPPED", "USER", TRUE))
        \/ c = Publishes("final", Worker("CANCELLED", "USER", FALSE))
        \/ c = Publishes("final", Worker("NO_CAPACITY", "FULL", FALSE))
        \/ c = Publishes("loop", Worker("RUNNING", "NONE", TRUE))
    BY DEF NextStart
  <2>2. CASE c = [cod EXCEPT !.pc = "capacity"]
    BY <1>1, <1>4, <2>2, MovesOn
  <2>3. CASE c = [cod EXCEPT !.pc = "reserved"]
    BY <1>1, <1>4, <2>3, MovesOn
  <2>4. ASSUME NEW phase \in {"STOPPED", "CANCELLED", "NO_CAPACITY"},
               NEW reason \in {"USER", "FULL", "NONE"}, NEW created \in BOOLEAN,
               c = Publishes("final", Worker(phase, reason, created))
        PROVE  ControlInv'
    <3>1. phase \in DOMAIN Rank
      BY RankFacts
    <3>2. Worker(phase, reason, created) \in States
          /\ MayPublish("final", Worker(phase, reason, created))
      BY <1>2, <3>1 DEF MayPublish
    <3> QED
      BY <1>1, <1>4, <2>4, <3>2, PublishesInv
  <2>5. CASE c = Publishes("loop", Worker("RUNNING", "NONE", TRUE))
    <3>1. "RUNNING" \in DOMAIN Rank
      BY RankFacts
    <3>2. Worker("RUNNING", "NONE", TRUE) \in States
          /\ MayPublish("loop", Worker("RUNNING", "NONE", TRUE))
      BY <1>2, <3>1 DEF MayPublish
    <3> QED
      BY <1>1, <1>4, <2>5, <3>2, PublishesInv
  <2> QED
    BY <2>1, <2>2, <2>3, <2>4, <2>5
<1> QED
  BY <1>3, <1>4 DEF CodecConsents

(* A turn of record_loop that ends with the worker as w.                   *)
LEMMA BecomesInv ==
  ASSUME ControlInv, NEW w \in States, Becomes(w), cod.pc = "loop",
         cod.worker.phase \in {"RUNNING", "DRAINING"},
         w.phase \in {"RUNNING", "DRAINING", "STOPPED", "FAULT"}
  PROVE  ControlInv'
<1>1. Working /\ cod.pc # "leave"
  BY DEF Working
<1>2. MayPublish(IF w.phase = "STOPPED" THEN "final" ELSE "loop", w)
  BY DEF MayPublish
<1> QED
  BY <1>1, <1>2, PublishesInv DEF Becomes

(* record_loop.                                                            *)
LEMMA CodecLoopsInv ==
  ASSUME ControlInv, CodecStays \/ CodecEvent \/ CodecStops \/ CodecDrains \/ CodecFails
  PROVE  ControlInv'
<1>0. cod \in CodecTypes
  BY DEF ControlInv, Types
<1>1. ASSUME NEW phase \in {"DRAINING", "STOPPED", "FAULT"}, NEW reason,
             reason \in Clean \cup {"NONE", "ADMISSION", "OVERFLOW", "CORE"}
      PROVE  Worker(phase, reason, TRUE) \in States /\ Worker(phase, reason, TRUE).phase = phase
  <2>1. cod.worker.op \in 0..(LocalBase + MaxTaps)
    BY <1>0 DEF CodecTypes, States
  <2>2. phase \in DOMAIN Rank
    BY RankFacts
  <2>3. State(cod.worker.op, phase, reason, TRUE) \in States
    BY <1>1, <2>1, <2>2, StateTypes
  <2> QED
    BY <2>3 DEF Worker, State
<1>2. ASSUME NEW reason, reason \in Clean \cup {"NONE", "ADMISSION", "OVERFLOW", "CORE"}
      PROVE  Ended(reason) \in States /\ Ended(reason).phase \in {"STOPPED", "FAULT"}
  BY <1>1, <1>2 DEF Ended
<1>3. CASE CodecStays
  <2>1. cod.worker \in States /\ Becomes(cod.worker) /\ cod.pc = "loop"
        /\ cod.worker.phase \in {"RUNNING", "DRAINING"}
    BY <1>0, <1>3 DEF CodecStays, Loop, CodecTypes
  <2> QED
    BY <2>1, BecomesInv
<1>4. CASE CodecEvent
  <2>1. cod.pc = "loop" /\ cod.worker.phase = "RUNNING"
    BY <1>4 DEF CodecEvent, Loop
  <2>2. CASE Becomes(Ended("CORE"))
    BY <1>2, <2>1, <2>2, BecomesInv
  <2>3. ASSUME NEW r \in Events, Becomes(Worker("DRAINING", r, TRUE)) \/ Becomes(Ended(r))
        PROVE  ControlInv'
    <3>1. r \in Clean \cup {"NONE", "ADMISSION", "OVERFLOW", "CORE"}
      BY EventsAssumption DEF EventsAssumption, Clean
    <3> QED
      BY <1>1, <1>2, <2>1, <2>3, <3>1, BecomesInv
  <2> QED
    BY <1>4, <2>2, <2>3 DEF CodecEvent
<1>5. CASE CodecStops
  <2>1. cod.pc = "loop" /\ cod.worker.phase = "RUNNING"
        /\ (Becomes(Worker("DRAINING", "USER", TRUE)) \/ Becomes(Ended("USER")))
    BY <1>5 DEF CodecStops, Loop
  <2>2. "USER" \in Clean \cup {"NONE", "ADMISSION", "OVERFLOW", "CORE"}
    BY DEF Clean
  <2> QED
    BY <1>1, <1>2, <2>1, <2>2, BecomesInv
<1>6. CASE CodecDrains
  <2>1. cod.pc = "loop" /\ cod.worker.phase = "DRAINING"
        /\ (Becomes(Ended(cod.worker.reason)) \/ Becomes(Ended("CORE")))
    BY <1>6 DEF CodecDrains, Loop
  <2>2. cod.worker.reason \in Clean \cup {"NONE", "ADMISSION", "OVERFLOW", "CORE"}
    BY <1>0 DEF CodecTypes, States
  <2> QED
    BY <1>2, <2>1, <2>2, BecomesInv
<1>7. CASE CodecFails
  BY <1>7, FatalInv DEF CodecFails
<1> QED
  BY <1>3, <1>4, <1>5, <1>6, <1>7

(* A step that leaves operations and gesture alone, whatever the runtime   *)
(* and the codec thread do.                                                *)
LEMMA CoreKeeps ==
  ASSUME ControlInv, link' # "off", Types', Gates', Numbers', Runtime', Codecs',
         Owned', CoreSame, GestureSame, count'.taps = count.taps, SameTurn(work, work'),
         SameTurn(btn, btn'), rt'.msg = rt.msg, Working' => Working, ran' = ran,
         last' = last, StillAnswers
  PROVE  ControlInv'
<1>1. Ledger' /\ Fresh'
  BY LedgerCalm DEF ControlInv, CoreSame
<1>2. Waits'
  BY WaitsCalm DEF ControlInv
<1>4. Grows
  BY CoreGrows DEF ControlInv, CoreSame
<1>5. Runs' /\ Told'
  BY <1>1, <1>4, RunsGrow, ToldGrows DEF ControlInv
<1>7. Off'
  BY DEF Off
<1> QED
  BY <1>1, <1>2, <1>5, <1>7 DEF ControlInv

(* lrc_leave of the codec thread.                                          *)
LEMMA CodecLeavesInv ==
  ASSUME ControlInv, CodecLeaves PROVE ControlInv'
<1>0. Types /\ Gates /\ Codecs /\ cod \in CodecTypes /\ cod.pc = "leave" /\ gate = "codec"
  BY DEF ControlInv, Types, Gates, CodecLeaves
<1>1. /\ OthersSame /\ gate' = Nobody /\ cod'.pc = cod.to /\ cod'.ticket = cod.ticket
      /\ cod'.kind = cod.kind /\ cod'.worker = cod.worker /\ cod' \in CodecTypes
  BY <1>0 DEF CodecLeaves, quiet, OthersSame, CodecTypes
<1>2. cod.to \in {"admit", "publish", "loop", "end"}
  BY <1>0 DEF Codecs
<1>3. Working' => Working
  BY <1>0, <1>1, <1>2 DEF Working
<1>4. Types' /\ Gates'
  BY <1>0, <1>1, <1>2 DEF Types, OthersSame, Gates, Nobody
<1>5. PublishedPhase' /\ LoopPhase'
  BY <1>0, <1>1, <1>2 DEF Codecs, PublishedPhase, LoopPhase
<1>6. Issued(cod.ticket)'
  BY <1>0, <1>1 DEF Codecs, Issued, OthersSame, Local
<1>7. Codecs'
  BY <1>0, <1>1, <1>2, <1>3, <1>5, <1>6 DEF Codecs, OthersSame
<1>8. link # "off"
  BY <1>0, DeviceUp
<1> QED
  BY <1>0, <1>1, <1>2, <1>3, <1>4, <1>7, <1>8, CodecKeeps DEF OthersSame, Nobody

(* The cache could not be brought up to date.                              *)
LEMMA GivesUpInv ==
  ASSUME ControlInv, GivesUp, cod.pc \in {"copy", "publish"} PROVE ControlInv'
<1>0. /\ Types /\ Gates /\ Numbers /\ Codecs /\ Runtime /\ cod \in CodecTypes
      /\ lrc \in LrcTypes /\ rt \in RuntimeTypes
  BY DEF ControlInv, Types
<1>1. /\ link' = link /\ maint' = maint /\ count' = count /\ ran' = ran /\ last' = last
      /\ gate' = gate /\ ble' = ble /\ work' = work /\ btn' = btn
  BY DEF GivesUp, quiet
<1>2. Working /\ link # "off"
  BY DeviceUp DEF Working
<1>3. CoreSame /\ GestureSame /\ lrc'.seq = lrc.seq /\ lrc'.fault
  <2>1. lrc' \in LrcTypes /\ lrc'.fault
    BY <1>0 DEF GivesUp, LrcTypes
  <2> QED
    BY <1>0, <2>1 DEF GivesUp, CoreSame, OpsSame, GestureSame, LrcTypes
<1>4. rt' \in RuntimeTypes /\ rt'.msg = rt.msg /\ rt'.busy = rt.busy
  BY <1>0 DEF GivesUp, RuntimeTypes
<1>5. cod' \in CodecTypes /\ cod'.pc = "end" /\ cod'.ticket = cod.ticket
  BY <1>0 DEF GivesUp, CodecTypes, CodecLabels
<1>6. Types' /\ Gates' /\ Numbers'
  BY <1>0, <1>1, <1>3, <1>4, <1>5 DEF Types, Gates, Numbers, CoreSame, OpsSame
<1>7. Runtime'
  BY <1>0, <1>1, <1>3, <1>4, <1>5, CoreFacts DEF Runtime, NeverRan
<1>8. Codecs'
  <2>1. Issued(cod.ticket)'
    BY <1>0, <1>3, <1>5 DEF Codecs, Issued, CoreSame, OpsSame, Local
  <2> QED
    BY <1>3, <1>5, <2>1 DEF Codecs, Working, PublishedPhase, LoopPhase
<1>9. Owned'
  BY <1>3 DEF Owned
<1>10. SameTurn(work, work') /\ SameTurn(btn, btn') /\ StillAnswers
  BY <1>1 DEF SameTurn, StillAnswers, Answered
<1> QED
  BY <1>1, <1>2, <1>3, <1>4, <1>6, <1>7, <1>8, <1>9, <1>10, CoreKeeps

(* A collision at the gate.                                                *)
LEMMA CollidesInv ==
  ASSUME ControlInv, Collides, cod.pc \in {"copy", "publish"} PROVE ControlInv'
<1>1. Working /\ cod.pc # "leave" /\ cod.tries \in Nat /\ MayPublish(cod.kind, cod.worker)
  BY DEF Working, ControlInv, Types, CodecTypes, Codecs, PublishedPhase
<1>2. CASE cod.kind = "loop" /\ CodecOnly([cod EXCEPT !.pc = "loop"])
  BY <1>1, <1>2, MovesOn DEF MayPublish
<1>3. CASE CodecOnly([cod EXCEPT !.pc = "copy", !.tries = @ + 1])
  <2>1. cod.tries + 1 \in Nat
    BY <1>1
  <2> QED
    BY <1>1, <1>3, <2>1, MovesInv
<1>4. CASE GivesUp
  BY <1>4, GivesUpInv
<1> QED
  BY <1>2, <1>3, <1>4 DEF Collides

(* A refused publication.                                                  *)
LEMMA RefusedInv ==
  ASSUME ControlInv, Refused, cod.pc \in {"copy", "publish"} PROVE ControlInv'
BY FatalInv, GivesUpInv DEF Refused

(* The snapshot before a publication.                                      *)
LEMMA CodecCopiesInv ==
  ASSUME ControlInv, CodecCopies PROVE ControlInv'
<1>1. Working /\ cod.pc = "copy" /\ MayPublish(cod.kind, cod.worker)
  BY DEF CodecCopies, Working, ControlInv, Codecs, PublishedPhase
<1>2. CASE Collides
  BY <1>1, <1>2, CollidesInv
<1>3. CASE Refused
  BY <1>1, <1>3, RefusedInv
<1>4. CASE /\ gate = Nobody /\ gate' = "codec" /\ cod' = Leaves(cod, "publish")
           /\ UNCHANGED <<quiet, lrc, ble, work, btn, rt>>
  <2>1. OthersSame
    BY <1>4 DEF quiet, OthersSame
  <2>2. /\ cod'.pc = "leave" /\ cod'.to = "publish" /\ cod'.ticket = cod.ticket
        /\ cod'.kind = cod.kind /\ cod'.worker = cod.worker /\ cod' \in CodecTypes
    <3>1. cod \in CodecTypes
      BY <1>1, WorkingFacts
    <3> QED
      BY <1>4, <3>1 DEF Leaves, CodecTypes, CodecLabels
  <2>3. PublishedPhase' /\ LoopPhase'
    BY <1>1, <2>2 DEF PublishedPhase, LoopPhase
  <2> QED
    BY <1>1, <1>4, <2>1, <2>2, <2>3, CodecStep
<1> QED
  BY <1>2, <1>3, <1>4 DEF CodecCopies

(* The end of execute_active.                                              *)
LEMMA CodecEndsInv ==
  ASSUME ControlInv, CodecEnds PROVE ControlInv'
<1>0. /\ Types /\ Gates /\ Numbers /\ Codecs /\ Runtime /\ Owned /\ cod.pc = "end"
      /\ lrc \in LrcTypes /\ rt \in RuntimeTypes
  BY DEF ControlInv, Types, CodecEnds
<1>1. /\ link' = link /\ maint' = maint /\ count' = count /\ ran' = ran /\ last' = last
      /\ gate' = gate /\ ble' = ble /\ work' = work /\ btn' = btn /\ lrc' = lrc /\ cod' = NoJob
  BY DEF CodecEnds, quiet
<1>2. link # "off"
  BY <1>0, DeviceUp
<1>3. CoreSame /\ GestureSame
  BY <1>0, <1>1 DEF CoreSame, OpsSame, GestureSame
<1>4. rt' \in RuntimeTypes /\ rt'.msg = rt.msg /\ rt'.busy = "no" /\ rt.msg = 0 /\ rt.busy = "command"
  <2>1. rt' \in RuntimeTypes
    BY <1>0 DEF CodecEnds, RuntimeTypes
  <2> QED
    BY <1>0, <2>1 DEF CodecEnds, RuntimeTypes, Runtime
<1>5. cod' \in CodecTypes /\ cod'.pc = "idle" /\ cod'.ticket = 0
  BY <1>1, InitialTypes DEF NoJob
<1>6. Types' /\ Gates' /\ Numbers'
  BY <1>0, <1>1, <1>4, <1>5 DEF Types, Gates, Numbers
<1>7. Runtime'
  BY <1>0, <1>1, <1>4, <1>5 DEF Runtime
<1>8. Codecs' /\ ~Working'
  <2>1. Issued(0)'
    <3>1. Len(lrc.states) \in Nat /\ lrc.lticket \in Nat /\ LocalBase \in Nat
      BY <1>0, LedgerTypes, TicketFacts
    <3> QED
      BY <1>1, <3>1 DEF Issued, Local
  <2> QED
    BY <1>5, <2>1 DEF Codecs, Working, PublishedPhase, LoopPhase
<1>9. SameTurn(work, work') /\ SameTurn(btn, btn') /\ StillAnswers
  BY <1>1 DEF SameTurn, StillAnswers, Answered
<1>10. Owned'
  <2>1. Waiting' <=> Waiting
    BY <1>1 DEF Waiting, Asks, Submits
  <2>2. Waiting \/ lrc.fault \/ ~Busy(lrc)
    <3>1. Busy(lrc) => lrc.current # 0
      BY DEF Busy
    <3> QED
      BY <1>0, <1>4, <3>1 DEF Owned, Codecs
  <2> QED
    BY <1>1, <2>1, <2>2 DEF Owned
<1> QED
  BY <1>1, <1>2, <1>3, <1>4, <1>6, <1>7, <1>8, <1>9, <1>10, CoreKeeps

(* The codec thread takes what is queued.                                  *)
LEMMA CodecTakesInv ==
  ASSUME ControlInv, CodecTakes PROVE ControlInv'
<1>0. /\ Types /\ Gates /\ Numbers /\ Ledger /\ Waits /\ Fresh /\ Runtime /\ Codecs /\ Owned /\ Runs
      /\ Told /\ lrc \in LrcTypes /\ rt \in RuntimeTypes /\ ran \in Seq(Nat)
      /\ cod.pc = "idle" /\ rt.msg # 0
  BY DEF ControlInv, Types, CodecTakes
<1> DEFINE op == StateAt(lrc, lrc.current).op
<1>1. /\ link' = link /\ maint' = maint /\ count' = count /\ last' = last
      /\ gate' = gate /\ ble' = ble /\ work' = work /\ btn' = btn /\ lrc' = lrc
      /\ cod' = [NoJob EXCEPT !.pc = "mount", !.ticket = rt.msg]
      /\ rt' = [rt EXCEPT !.msg = 0]
      /\ ran' = Append(ran, StateAt(lrc, rt.msg).op)
  BY DEF CodecTakes
<1>2. link # "off"
  BY <1>0, DeviceUp
<1>3. /\ rt.msg = lrc.current /\ StateAt(lrc, lrc.current).phase = "STARTING" /\ NeverRan(op)
      /\ rt.busy = "command" /\ lrc.current # 0
  BY <1>0 DEF Runtime
<1>4. /\ Known(lrc, lrc.current) /\ lrc.current \in Nat /\ Recorded(op)
      /\ op \in Nat /\ lrc.current \in AllTickets
  <2>1. Known(lrc, lrc.current) /\ lrc.current \in Nat /\ lrc.current \in AllTickets
    BY <1>0, <1>3, LedgerTypes DEF Ledger, LrcTypes
  <2>2. Recorded(op) /\ StateAt(lrc, lrc.current) \in States
    BY <1>0, <1>3, <2>1, OneTicket
  <2> QED
    BY <2>1, <2>2, TicketFacts DEF States
<1>5. cod' \in CodecTypes /\ cod'.pc = "mount" /\ cod'.ticket = lrc.current
  BY <1>1, <1>3, <1>4, InitialTypes DEF NoJob, CodecTypes, CodecLabels
<1>6. rt' \in RuntimeTypes /\ rt'.msg = 0 /\ rt'.busy = "command"
  BY <1>0, <1>1, <1>3, TicketFacts DEF RuntimeTypes
<1>7. ran' \in Seq(Nat) /\ Len(ran) \in Nat /\ Len(ran') = Len(ran) + 1 /\ ran'[Len(ran) + 1] = op
      /\ \A i \in 1..Len(ran) : ran'[i] = ran[i]
  BY <1>0, <1>1, <1>3, <1>4
<1>8. Types' /\ Gates' /\ Numbers'
  BY <1>0, <1>1, <1>5, <1>6, <1>7 DEF Types, Gates, Numbers
<1>9. ~Waiting /\ ~Waiting'
  BY <1>0, <1>1 DEF Waits, Waiting, Asks, Submits
<1>10. Waits'
  BY <1>0, <1>1, <1>9 DEF Waits, Submits
<1>11. Ledger' /\ Fresh'
  BY <1>0, <1>1 DEF Ledger, Fresh, Issued
<1>12. Runtime'
  BY <1>0, <1>1, <1>3, <1>5, <1>6 DEF Runtime
<1>13. Codecs'
  <2>1. Issued(lrc.current)
    <3>1. lrc.lticket \in Nat /\ Len(lrc.states) \in Nat
      BY <1>0, LedgerTypes
    <3> QED
      BY <1>4, <3>1 DEF Known, Issued
  <2>2. Issued(cod.ticket)'
    BY <1>1, <1>5, <2>1 DEF Issued
  <2>3. Active(StateAt(lrc, lrc.current))
    BY <1>3 DEF Active
  <2> QED
    BY <1>1, <1>3, <1>5, <2>2, <2>3 DEF Codecs, Working, PublishedPhase, LoopPhase
<1>14. Owned'
  BY <1>1, <1>5, <1>6 DEF Owned
<1>15. Runs'
  <2>1. \A i \in 1..Len(ran') : i \in 1..Len(ran) \/ i = Len(ran) + 1
    BY <1>7
  <2>2. \A i \in 1..Len(ran) : ran[i] # op /\ Recorded(ran[i])
    BY <1>0, <1>3 DEF NeverRan, Runs
  <2>3. StartedOnce'
    BY <1>0, <1>7, <2>1, <2>2 DEF StartedOnce, Runs
  <2>4. \A i \in 1..Len(ran') : Recorded(ran'[i])
    BY <1>4, <1>7, <2>1, <2>2
  <2>5. \A i \in 1..Len(ran') : Recorded(ran[i])'
    BY <1>1, <2>4 DEF Recorded
  <2> QED
    BY <2>3, <2>5 DEF Runs
<1>16. Told'
  <2>1. CoreSame
    BY <1>0, <1>1 DEF CoreSame, OpsSame
  <2>2. StillAnswers
    BY <1>1 DEF StillAnswers, Answered
  <2> QED
    BY <1>0, <1>1, <1>11, <2>1, <2>2, CoreGrows, ToldGrows DEF CoreSame
<1>17. Off'
  BY <1>1, <1>2 DEF Off
<1> QED
  BY <1>8, <1>10, <1>11, <1>12, <1>13, <1>14, <1>15, <1>16, <1>17 DEF ControlInv

-----------------------------------------------------------------------------
(* Maintenance.                                                            *)

(* A step of a claim.                                                      *)
LEMMA MaintStepInv ==
  ASSUME ControlInv, NEW from \in MaintLabels \ {"off"}, NEW to \in MaintLabels \ {"off"}, NEW g, NEW busy,
         MaintStep(from, to, g, busy),
         g \in {Nobody, "work", "button", "codec", "maint"},
         busy \in {"no", "command", "prefs", "pair"},
         g = gate \/ (g = "maint" /\ gate = Nobody) \/ (g = Nobody /\ gate = "maint"),
         g = "maint" <=> to \in {"prefs", "prefs_free", "pair_gate"},
         g = "maint" /\ gate # "maint" => Idle,
         busy = "command" <=> rt.busy = "command",
         busy = "prefs" <=> to \in {"prefs_busy", "prefs"},
         busy = "pair" <=> to \in {"pair_busy", "pair_gate", "pair"}
  PROVE  ControlInv'
<1>0. /\ Types /\ Gates /\ Numbers /\ Runtime /\ rt \in RuntimeTypes /\ count \in CountTypes
  BY DEF ControlInv, Types
<1>1. /\ maint = from /\ maint' = to /\ gate' = g /\ rt' = [rt EXCEPT !.busy = busy]
      /\ link' = link /\ ran' = ran /\ last' = last /\ lrc' = lrc /\ ble' = ble /\ work' = work
      /\ btn' = btn /\ cod' = cod
      /\ count' = (IF from = "idle" THEN [count EXCEPT !.claims = @ + 1] ELSE count)
  BY DEF MaintStep
<1>2. link # "off"
  BY <1>1, DeviceUp
<1>3. rt' \in RuntimeTypes /\ rt'.msg = rt.msg /\ rt'.busy = busy
  BY <1>0, <1>1 DEF RuntimeTypes
<1>4. count' \in CountTypes /\ count'.taps = count.taps /\ count'.requests = count.requests
  <2>1. count.claims + 1 \in Nat
    BY <1>0 DEF CountTypes
  <2> QED
    BY <1>0, <1>1, <2>1 DEF CountTypes
<1>5. Types'
  BY <1>0, <1>1, <1>3, <1>4 DEF Types
<1>6. Gates'
  BY <1>0, <1>1 DEF Gates, Nobody
<1>7. Runtime'
  BY <1>0, <1>1, <1>3 DEF Runtime, NeverRan, Idle
<1> QED
  BY <1>1, <1>2, <1>3, <1>4, <1>5, <1>6, <1>7, MaintKeeps

(* The preferences write and the pairing.                                  *)
LEMMA MaintInv ==
  ASSUME ControlInv, PrefsBegin \/ PairBegin \/ MaintStarted PROVE ControlInv'
<1>0. /\ Gates /\ Runtime /\ gate \in {Nobody, "work", "button", "codec", "maint"}
      /\ rt.busy \in {"no", "command", "prefs", "pair"}
  BY DEF ControlInv, Types, RuntimeTypes, Gates
<1> USE DEF Nobody
<1>1. CASE PrefsBegin
  BY <1>0, <1>1, MaintStepInv DEF PrefsBegin, Gates, Runtime, MaintStep, MaintLabels
<1>2. CASE PrefsClaim
  BY <1>0, <1>2, MaintStepInv DEF PrefsClaim, MayOwn, Gates, Runtime, MaintStep, MaintLabels
<1>3. CASE PrefsGiveUp
  BY <1>0, <1>3, MaintStepInv DEF PrefsGiveUp, Gates, Runtime, MaintStep, MaintLabels
<1>4. CASE PrefsRelease
  BY <1>0, <1>4, MaintStepInv DEF PrefsRelease, Gates, Runtime, MaintStep, MaintLabels
<1>5. CASE PrefsFree
  BY <1>0, <1>5, MaintStepInv DEF PrefsFree, Gates, Runtime, MaintStep, MaintLabels
<1>6. CASE PairBegin
  BY <1>0, <1>6, MaintStepInv DEF PairBegin, Gates, Runtime, MaintStep, MaintLabels
<1>7. CASE PairClaim
  <2>1. CASE rt.busy = "no" /\ MaintStep("pair_wait", "pair_busy", gate, "pair")
    BY <1>0, <2>1, MaintStepInv DEF Gates, Runtime, MaintStep, MaintLabels
  <2>2. CASE MaintStep("pair_wait", "idle", gate, rt.busy)
    BY <1>0, <2>2, MaintStepInv DEF Gates, Runtime, MaintStep, MaintLabels
  <2> QED
    BY <1>7, <2>1, <2>2 DEF PairClaim
<1>8. CASE PairCheck
  BY <1>0, <1>8, MaintStepInv DEF PairCheck, MayOwn, Gates, Runtime, MaintStep, MaintLabels
<1>9. CASE PairGiveUp
  BY <1>0, <1>9, MaintStepInv DEF PairGiveUp, Gates, Runtime, MaintStep, MaintLabels
<1>10. CASE PairOwned
  BY <1>0, <1>10, MaintStepInv DEF PairOwned, Gates, Runtime, MaintStep, MaintLabels
<1>11. CASE PairRelease
  BY <1>0, <1>11, MaintStepInv DEF PairRelease, Gates, Runtime, MaintStep, MaintLabels
<1> QED
  BY <1>1, <1>2, <1>3, <1>4, <1>5, <1>6, <1>7, <1>8, <1>9, <1>10, <1>11 DEF MaintStarted

-----------------------------------------------------------------------------
(* Steps that advance the current operation.                               *)

Advances(s) ==
  /\ lrc' \in LrcTypes /\ s \in States /\ Progress(StateAt(lrc, lrc.current), s)
  /\ lrc.current # 0 /\ Known(lrc, lrc.current)
  /\ lrc'.states = (IF Local(lrc.current) THEN lrc.states ELSE [lrc.states EXCEPT ![lrc.current] = s])
  /\ lrc'.local = (IF Local(lrc.current) THEN s ELSE lrc.local)
  /\ lrc'.lticket = lrc.lticket /\ lrc'.current = lrc.current /\ lrc.stop \subseteq lrc'.stop

(* What such a step does to the ledger.                                    *)
LEMMA AdvancesFacts ==
  ASSUME Types, Ledger, NEW s, Advances(s)
  PROVE  /\ StateAt(lrc', lrc'.current) = s /\ s.op = StateAt(lrc, lrc.current).op
         /\ Len(lrc'.states) = Len(lrc.states) /\ Known(lrc', lrc'.current)
         /\ Active(s) => Active(StateAt(lrc, lrc.current))
         /\ Busy(lrc') => Active(s)
         /\ \A t \in 1..Len(lrc.states) : lrc'.states[t].op = lrc.states[t].op
         /\ lrc'.local.op = lrc.local.op
         /\ \A t : Issued(t)' <=> Issued(t)
         /\ Grows
<1>0. lrc \in LrcTypes /\ lrc' \in LrcTypes /\ s \in States
  BY DEF Types, Advances
<1>1. /\ lrc.states \in Seq(States) /\ Len(lrc.states) \in Nat /\ lrc.current \in Nat
      /\ DOMAIN lrc.states = 1..Len(lrc.states)
  BY <1>0, LedgerTypes
<1>2. StateAt(lrc, lrc.current) \in States
  BY <1>1, OneTicket DEF Advances
<1>3. /\ s.op = StateAt(lrc, lrc.current).op
      /\ Active(s) => Active(StateAt(lrc, lrc.current))
  BY <1>0, <1>2, ProgressForward DEF Advances
<1>4. Len(lrc'.states) = Len(lrc.states)
  BY <1>1 DEF Advances
<1>5. CASE Local(lrc.current)
  <2>1. /\ lrc'.states = lrc.states /\ lrc'.local = s /\ StateAt(lrc, lrc.current) = lrc.local
        /\ StateAt(lrc', lrc'.current) = s /\ lrc.current = lrc.lticket
    BY <1>5 DEF Advances, StateAt, Known
  <2>2. Grows
    BY <1>0, <1>1, <2>1 DEF Advances, Grows, Follows
  <2>3. \A t : Issued(t)' <=> Issued(t)
    BY <2>1 DEF Issued, Advances, Local
  <2> QED
    BY <1>3, <1>4, <1>5, <2>1, <2>2, <2>3 DEF Advances, Known, Busy, Local
<1>6. CASE ~Local(lrc.current)
  <2>1. /\ lrc'.states = [lrc.states EXCEPT ![lrc.current] = s] /\ lrc'.local = lrc.local
        /\ lrc.current \in 1..Len(lrc.states)
        /\ StateAt(lrc, lrc.current) = lrc.states[lrc.current]
    BY <1>6 DEF Advances, StateAt, Known
  <2>2. /\ lrc'.states[lrc.current] = s
        /\ \A t \in 1..Len(lrc.states) : t # lrc.current => lrc'.states[t] = lrc.states[t]
    BY <1>1, <2>1
  <2>3. StateAt(lrc', lrc'.current) = s
    BY <1>6, <2>2 DEF Advances, StateAt, Local
  <2>4. Grows
    BY <1>0, <1>1, <1>4, <2>1, <2>2 DEF Advances, Grows, Follows
  <2>5. \A t : Issued(t)' <=> Issued(t)
    BY <1>4 DEF Issued, Advances, Local
  <2>6. \A t \in 1..Len(lrc.states) : lrc'.states[t].op = lrc.states[t].op
    BY <1>3, <2>1, <2>2
  <2> QED
    BY <1>3, <1>4, <1>6, <2>1, <2>3, <2>4, <2>5, <2>6 DEF Advances, Known, Busy, Local
<1> QED
  BY <1>5, <1>6

(* The ledger after it.                                                    *)
LEMMA AdvancesLedger ==
  ASSUME Types, Ledger, NEW s, Advances(s), count'.taps \in Nat, count.taps <= count'.taps,
         lrc'.press \in {0, lrc.press, lrc.current}, 
         lrc'.tapping => HasRoom(lrc.lticket, count'.taps)
  PROVE  Ledger'
<1>0. lrc \in LrcTypes /\ lrc' \in LrcTypes /\ LocalBase \in Nat /\ count.taps \in Nat
  BY TicketFacts DEF Types, Advances, CountTypes
<1>1. /\ Len(lrc.states) \in Nat /\ lrc.lticket \in Nat /\ lrc.current \in Nat
  BY <1>0, LedgerTypes
<1>2. /\ Len(lrc'.states) = Len(lrc.states) /\ Known(lrc', lrc'.current)
      /\ \A t \in 1..Len(lrc.states) : lrc'.states[t].op = lrc.states[t].op
      /\ lrc'.local.op = lrc.local.op /\ lrc'.lticket = lrc.lticket
      /\ \A t : Issued(t)' <=> Issued(t)
      /\ lrc.current # 0 /\ Known(lrc, lrc.current)
  BY AdvancesFacts DEF Advances
<1>3. Issued(0) /\ Issued(lrc.current) /\ Issued(lrc.press)
  BY <1>0, <1>1, <1>2 DEF Issued, Known, Local, Ledger
<1>4. Issued(lrc.press)'
  <2>1. \A t \in {0, lrc.press, lrc.current} : Issued(t)'
    BY <1>2, <1>3
  <2>2. PICK t \in {0, lrc.press, lrc.current} : lrc'.press = t
    OBVIOUS
  <2>3. Issued(t)'
    BY <2>1
  <2> QED
    BY <2>2, <2>3 DEF Issued, Local
<1>5. lrc'.lticket <= LocalBase + count'.taps
  BY <1>0, <1>1, <1>2 DEF Ledger
<1>6. (lrc.current # 0 => Known(lrc, lrc.current))'
  BY <1>2
<1> QED
  BY <1>2, <1>4, <1>5, <1>6 DEF Ledger

(* lrc_publish.                                                            *)
LEMMA CodecPublishesInv ==
  ASSUME ControlInv, CodecPublishes PROVE ControlInv'
<1>1. Working /\ cod.pc = "publish" /\ MayPublish(cod.kind, cod.worker)
  BY DEF CodecPublishes, Working, ControlInv, Codecs, PublishedPhase
<1>2. CASE Collides
  BY <1>1, <1>2, CollidesInv
<1>3. CASE Refused
  BY <1>1, <1>3, RefusedInv
<1>4. CASE /\ gate = Nobody /\ cod.ticket = lrc.current
           /\ Progress(StateAt(lrc, cod.ticket), cod.worker)
           /\ gate' = "codec" /\ lrc' = Put(lrc, cod.ticket, cod.worker)
           /\ cod' = Leaves(cod, IF cod.kind = "loop" THEN "loop" ELSE "end")
           /\ UNCHANGED <<quiet, ble, work, btn, rt>>
  <2>0. /\ Types /\ Gates /\ Numbers /\ Ledger /\ Waits /\ Fresh /\ Runtime /\ Codecs /\ Runs /\ Told
        /\ lrc \in LrcTypes /\ cod \in CodecTypes
    BY DEF ControlInv, Types
  <2> DEFINE w == cod.worker
  <2>1. /\ link' = link /\ maint' = maint /\ count' = count /\ ran' = ran /\ last' = last
        /\ ble' = ble /\ work' = work /\ btn' = btn /\ rt' = rt
    BY <1>4 DEF quiet
  <2>2. /\ lrc.current # 0 /\ Known(lrc, lrc.current) /\ link # "off" /\ w \in States
        /\ lrc.current \in Nat /\ lrc.states \in Seq(States)
    BY <1>1, <2>0, WorkingFacts, LedgerTypes DEF CodecTypes
  <2>3. /\ lrc' \in LrcTypes
        /\ lrc'.states = (IF Local(lrc.current) THEN lrc.states ELSE [lrc.states EXCEPT ![lrc.current] = w])
        /\ lrc'.local = (IF Local(lrc.current) THEN w ELSE lrc.local)
        /\ lrc'.lticket = lrc.lticket /\ lrc'.current = lrc.current /\ lrc'.stop = lrc.stop
        /\ lrc'.press = lrc.press /\ lrc'.tapping = lrc.tapping /\ lrc'.fresh = lrc.fresh
        /\ lrc'.armed = lrc.armed /\ lrc'.submitting = lrc.submitting /\ lrc'.seq = lrc.seq
        /\ lrc'.fault = lrc.fault
    <3>1. CASE Local(lrc.current)
      BY <1>4, <2>0, <2>2, <3>1 DEF Put, LrcTypes
    <3>2. CASE ~Local(lrc.current)
      <4>1. lrc.current \in 1..Len(lrc.states)
        BY <2>2, <3>2 DEF Known
      <4>2. [lrc.states EXCEPT ![lrc.current] = w] \in Seq(States)
        BY <2>2, <4>1
      <4>3. lrc' = [lrc EXCEPT !.states = [lrc.states EXCEPT ![lrc.current] = w]]
        BY <1>4, <2>0, <3>2 DEF Put, LrcTypes
      <4> QED
        BY <2>0, <3>2, <4>2, <4>3 DEF LrcTypes
    <3> QED
      BY <3>1, <3>2
  <2>4. Advances(w)
    BY <1>4, <2>2, <2>3 DEF Advances
  <2>5. /\ StateAt(lrc', lrc'.current) = w /\ Grows /\ (Busy(lrc') => Active(w))
        /\ (Active(w) => Active(StateAt(lrc, lrc.current)))
        /\ \A t : Issued(t)' <=> Issued(t)
    BY <2>0, <2>4, AdvancesFacts
  <2>6. Ledger'
    <3>1. count.taps \in Nat
      BY <2>0, TicketFacts DEF Types, CountTypes
    <3> QED
      BY <2>0, <2>1, <2>3, <2>4, <3>1, AdvancesLedger DEF Ledger
  <2>7. Busy(lrc) /\ ~Waiting /\ rt.msg = 0 /\ lrc.armed = 0
    BY <1>1, <2>0, WorkingFacts DEF Busy, Waits, Runtime, Waiting
  <2>8. /\ cod' \in CodecTypes /\ cod'.pc = "leave" /\ cod'.ticket = lrc.current /\ cod'.worker = w
        /\ cod'.to = (IF cod.kind = "loop" THEN "loop" ELSE "end")
    BY <1>4, <2>0 DEF Leaves, CodecTypes, CodecLabels
  <2>9. Types' /\ Gates' /\ Numbers'
    BY <1>1, <1>4, <2>0, <2>1, <2>3, <2>8 DEF Types, Gates, Numbers, Nobody
  <2>10. ~Waiting'
    BY <2>1, <2>3, <2>7 DEF Waiting, Asks, Submits
  <2>11. Waits'
    BY <2>0, <2>1, <2>3, <2>7, <2>10 DEF Waits, Submits
  <2>12. Fresh'
    BY <2>0, <2>3, <2>7 DEF Fresh
  <2>13. Runtime'
    BY <1>1, <1>4, <2>0, <2>1, <2>7, <2>8 DEF Runtime
  <2>14. Codecs'
    <3>1. Issued(cod.ticket)'
      <4>1. Issued(lrc.current)
        BY <1>1, <1>4, <2>0 DEF Codecs
      <4>2. \A t : Issued(t) => Issued(t)'
        BY <2>5
      <4> QED
        BY <2>3, <2>8, <4>1, <4>2 DEF Issued
    <3>2. CASE cod.kind = "loop"
      <4>1. w.phase \in {"RUNNING", "DRAINING", "FAULT"}
        BY <1>1, <3>2 DEF MayPublish
      <4> QED
        BY <2>2, <2>3, <2>5, <2>8, <3>1, <3>2, <4>1 DEF Codecs, Working, PublishedPhase, LoopPhase, Active
    <3>3. CASE cod.kind # "loop"
      <4>1. ~Active(w)
        BY <1>1, <3>3 DEF MayPublish, Active
      <4> QED
        BY <2>5, <2>8, <3>1, <3>3, <4>1 DEF Codecs, Working, PublishedPhase, LoopPhase
    <3> QED
      BY <3>2, <3>3
  <2>15. Owned'
    BY <1>1, <2>0, <2>1, <2>3, <2>8 DEF Owned, Runtime
  <2>16. Runs'
    BY <2>0, <2>1, <2>5, RunsGrow
  <2>17. Told'
    <3>1. StillAnswers
      BY <2>1 DEF StillAnswers, Answered
    <3> QED
      BY <2>0, <2>1, <2>5, <2>6, <3>1, ToldGrows
  <2>18. Off'
    BY <2>1, <2>2 DEF Off
  <2> QED
    BY <2>6, <2>9, <2>11, <2>12, <2>13, <2>14, <2>15, <2>16, <2>17, <2>18 DEF ControlInv
<1> QED
  BY <1>2, <1>3, <1>4 DEF CodecPublishes

(* The codec thread.                                                       *)
LEMMA CodecInv ==
  ASSUME ControlInv, Codec PROVE ControlInv'
BY CodecTakesInv, CodecMountsInv, CodecStartsInv, CodecLeavesInv, CodecConsentsInv,
   CodecLoopsInv, CodecCopiesInv, CodecPublishesInv, CodecEndsInv DEF Codec

-----------------------------------------------------------------------------
(* The work queue.                                                         *)

(* A step of control_work that leaves the operations alone.                *)
LEMMA WorkStep ==
  ASSUME ControlInv, link # "off", UNCHANGED <<link, maint, count, ran, btn, cod, rt>>,
         CoreSame, GestureSame, lrc'.seq <= count.requests, ble' \in BleTypes,
         ble'.request = ble.request \/ ble'.request = NoRequest, work' \in WorkTypes,
         IF work'.pc = "leave" THEN gate' = "work" /\ gate = Nobody
         ELSE IF work.pc = "leave" THEN gate' = Nobody ELSE gate' = gate,
         work'.pc = "leave" => work'.to \in {"answered", "queue", "reply", "notify", "close", "forget"},
         SameTurn(work, work'), (last' = last /\ StillAnswers) \/ (Told' /\ last'.state \in States
           /\ last' \in [cmd : {"NONE", "START", "ARM", "STOP", "STATUS"}, state : States])
  PROVE  ControlInv'
<1>0. Types /\ Gates /\ Numbers
  BY DEF ControlInv
<1>1. Types'
  BY <1>0 DEF Types, CoreSame, OpsSame
<1>2. Gates'
  BY <1>0 DEF Gates, Nobody
<1>3. Numbers'
  <2>1. NoRequest.seq = 0 /\ count.requests \in Nat
    BY <1>0, TicketFacts DEF NoRequest, Types, CountTypes
  <2>2. ble'.request.seq <= count.requests
    BY <1>0, <2>1 DEF Numbers
  <2> QED
    BY <2>2 DEF Numbers
<1>4. SameTurn(btn, btn')
  BY DEF SameTurn
<1>5. gate' = "maint" => gate = "maint"
  BY DEF Nobody
<1> QED
  BY <1>1, <1>2, <1>3, <1>4, <1>5, SteadyKeeps

(* What control_work makes of a result.                                    *)
LEMMA ReturnsFacts ==
  ASSUME Types, NEW rc, Returns(rc)
  PROVE  /\ ble' \in BleTypes /\ ble'.request = ble.request /\ work' \in WorkTypes
         /\ work'.pc = "allow" \/ work'.pc = "close"
         /\ work'.pc = "allow" => rc = "OK" /\ work'.req = work.req /\ work'.state = work.state
<1>0. ble \in BleTypes /\ work \in WorkTypes
  BY DEF Types
<1>1. ble' \in BleTypes /\ ble'.request = ble.request
  BY <1>0 DEF Returns, BleTypes
<1>2. CASE rc = "OK"
  BY <1>0, <1>1, <1>2 DEF Returns, WorkTypes, WorkLabels
<1>3. CASE rc # "OK"
  <2>1. work' = [NoWork EXCEPT !.pc = "close", !.epoch = work.epoch]
    BY <1>3 DEF Returns
  <2> QED
    BY <1>0, <1>1, <2>1, InitialTypes DEF WorkTypes, WorkLabels
<1> QED
  BY <1>2, <1>3

(* Nothing is submitted by a call that returns.                            *)
LEMMA LeavesWithFacts ==
  ASSUME work \in WorkTypes, NEW rc \in {"OK", "DEFERRED", "REFUSED", "FAULT", "BUSY", "PENDING"}
  PROVE  /\ LeavesWith(rc) \in WorkTypes /\ LeavesWith(rc).pc = "leave"
         /\ LeavesWith(rc).to = "answered" /\ LeavesWith(rc).rc = rc
         /\ LeavesWith(rc).req = work.req /\ LeavesWith(rc).state = work.state
BY DEF LeavesWith, Leaves, WorkTypes, WorkLabels

(* A pass begins.                                                          *)
LEMMA WorkBeginInv ==
  ASSUME ControlInv, WorkBegin PROVE ControlInv'
<1>0. ble \in BleTypes /\ lrc \in LrcTypes /\ Numbers /\ Types
  BY DEF ControlInv, Types
<1>1. /\ UNCHANGED <<link, maint, count, ran, last, gate, lrc, btn, cod, rt>> /\ link # "off"
      /\ work.pc = "idle"
  BY DeviceUp DEF WorkBegin, quiet
<1>2. PICK revoked \in BOOLEAN : ble' = [ble EXCEPT !.revoked = revoked]
  BY <1>0 DEF WorkBegin, BleTypes
<1>3. ble' \in BleTypes /\ ble'.request = ble.request
  BY <1>0, <1>2 DEF BleTypes
<1>4. PICK pc \in {"close", "again", "command"} : work' = [NoWork EXCEPT !.epoch = ble.epoch, !.pc = pc]
  BY DEF WorkBegin
<1>5. work' \in WorkTypes /\ work'.pc \in {"close", "again", "command"}
  <2>1. ble.epoch \in Nat
    BY <1>0 DEF BleTypes
  <2> QED
    BY <1>4, <2>1, InitialTypes DEF WorkTypes, WorkLabels
<1>6. SameTurn(work, work') /\ StillAnswers
  BY <1>1, <1>5 DEF SameTurn, Submits, Asks, StillAnswers, Answered
<1>7. CoreSame /\ GestureSame /\ lrc'.seq <= count.requests
  BY <1>0, <1>1 DEF CoreSame, OpsSame, GestureSame, Numbers
<1> QED
  BY <1>1, <1>3, <1>5, <1>6, <1>7, WorkStep

(* A pass that comes back from where nothing is submitted.                 *)
LEMMA ReturnsInv ==
  ASSUME ControlInv, link # "off", NEW rc, Returns(rc), UNCHANGED <<quiet, lrc, btn, cod, rt>>,
         ~Submits(work), IF work.pc = "leave" THEN gate' = Nobody ELSE gate' = gate,
         rc = "OK" => Answered
  PROVE  ControlInv'
<1>0. lrc \in LrcTypes /\ Numbers /\ Types
  BY DEF ControlInv, Types
<1>1. UNCHANGED <<link, maint, count, ran, last, lrc, btn, cod, rt>>
  BY DEF quiet
<1>2. /\ ble' \in BleTypes /\ ble'.request = ble.request /\ work' \in WorkTypes
      /\ work'.pc \in {"allow", "close"}
      /\ work'.pc = "allow" => rc = "OK" /\ work'.req = work.req /\ work'.state = work.state
  BY <1>0, ReturnsFacts
<1>3. SameTurn(work, work') /\ StillAnswers
  BY <1>2 DEF SameTurn, Submits, Asks, StillAnswers, Answered
<1>4. CoreSame /\ GestureSame /\ lrc'.seq <= count.requests
  BY <1>0, <1>1 DEF CoreSame, OpsSame, GestureSame, Numbers
<1> QED
  BY <1>1, <1>2, <1>3, <1>4, WorkStep

(* lrc_command before the gate.                                            *)
LEMMA CommandInv ==
  ASSUME ControlInv, Command PROVE ControlInv'
<1>0. lrc \in LrcTypes /\ Numbers /\ Types /\ work \in WorkTypes /\ ble \in BleTypes
  BY DEF ControlInv, Types
<1>1. work.pc = "command" /\ link # "off"
  BY DeviceUp DEF Command
<1>2. CASE Returns("REFUSED") /\ UNCHANGED <<quiet, gate, lrc, btn, cod, rt>>
  BY <1>1, <1>2, ReturnsInv DEF Submits
<1>3. CASE /\ ble' = ble /\ UNCHANGED <<quiet, gate, lrc, btn, cod, rt>>
           /\ \E ok \in MayBeReady : work' = [work EXCEPT !.pc = "admit", !.ok = ok]
  <2>1. PICK ok \in BOOLEAN : work' = [work EXCEPT !.pc = "admit", !.ok = ok]
    BY <1>3 DEF MayBeReady
  <2>2. work' \in WorkTypes /\ work'.pc = "admit"
    BY <1>0, <2>1 DEF WorkTypes, WorkLabels
  <2>3. SameTurn(work, work') /\ StillAnswers
    BY <1>1, <2>2 DEF SameTurn, Submits, Asks, StillAnswers, Answered
  <2>4. CoreSame /\ GestureSame /\ lrc'.seq <= count.requests
    BY <1>0, <1>3 DEF CoreSame, OpsSame, GestureSame, Numbers
  <2>5. UNCHANGED <<link, maint, count, ran, last, gate, lrc, btn, cod, rt>>
    BY <1>3 DEF quiet
  <2> QED
    BY <1>0, <1>1, <1>3, <2>2, <2>3, <2>4, <2>5, WorkStep
<1> QED
  BY <1>2, <1>3 DEF Command

(* control_work leaves the gate.                                           *)
LEMMA WorkLeavesInv ==
  ASSUME ControlInv, WorkLeaves PROVE ControlInv'
<1>0. lrc \in LrcTypes /\ Numbers /\ Types /\ Gates /\ work \in WorkTypes /\ ble \in BleTypes
  BY DEF ControlInv, Types
<1>1. work.pc = "leave" /\ link # "off" /\ gate' = Nobody
      /\ work.to \in {"answered", "queue", "reply", "notify", "close", "forget"}
      /\ UNCHANGED <<quiet, lrc, btn, cod, rt>>
  BY <1>0, DeviceUp DEF WorkLeaves, Gates
<1>2. CASE work.to = "answered" /\ Returns(work.rc)
  BY <1>1, <1>2, ReturnsInv DEF Submits, Answered
<1>3. CASE work.to # "answered" /\ work' = [work EXCEPT !.pc = work.to, !.ok = FALSE] /\ ble' = ble
  <2>1. /\ work' \in WorkTypes /\ work'.pc = work.to /\ work'.ticket = work.ticket
        /\ work'.req = work.req /\ work'.state = work.state /\ work'.pc # "leave"
    BY <1>0, <1>1, <1>3 DEF WorkTypes
  <2>2. SameTurn(work, work')
    BY <1>1, <1>3, <2>1 DEF SameTurn, Submits, Asks
  <2>3. StillAnswers
    BY <1>1, <1>3, <2>1 DEF StillAnswers, Answered
  <2>4. CoreSame /\ GestureSame /\ lrc'.seq <= count.requests
    BY <1>0, <1>1 DEF CoreSame, OpsSame, GestureSame, Numbers
  <2>5. UNCHANGED <<link, maint, count, ran, last, lrc, btn, cod, rt>>
    BY <1>1 DEF quiet
  <2> QED
    BY <1>0, <1>1, <1>3, <2>1, <2>2, <2>3, <2>4, <2>5, WorkStep
<1> QED
  BY <1>2, <1>3 DEF WorkLeaves

(* An answer is kept from the moment it is given.                          *)
LEMMA AnswerKept ==
  ASSUME Types, Ledger, NEW r, NEW t \in Nat, t # 0 => Known(lrc, t),
         Answers(r, StateAt(lrc, t), StopRequested(t))
  PROVE  Kept(r.cmd, StateAt(lrc, t))
<1>1. CASE t = 0
  BY <1>1 DEF StateAt, IdleState, State, Kept
<1>2. CASE t # 0
  <2>1. Tickets(lrc, StateAt(lrc, t).op) = {t} /\ Recorded(StateAt(lrc, t).op)
    BY <1>2, OneTicket
  <2>2. Holds(r.cmd, StateAt(lrc, t), t)
    BY DEF Holds, Answers, StopRequested
  <2> QED
    BY <2>1, <2>2 DEF Kept
<1> QED
  BY <1>1, <1>2

(* find_operation finds a known ticket.                                    *)
LEMMA TicketOfKnown ==
  ASSUME Types, Ledger, NEW op
  PROVE  /\ TicketOf(lrc, op) \in AllTickets /\ TicketOf(lrc, op) \in Nat
         /\ TicketOf(lrc, op) # 0 => Known(lrc, TicketOf(lrc, op))
<1>0. lrc \in LrcTypes
  BY DEF Types
<1>1. /\ lrc.current \in AllTickets /\ lrc.lticket \in AllTickets /\ Len(lrc.states) \in Nat
      /\ Len(lrc.states) <= MaxTickets /\ lrc.lticket \in Nat
      /\ lrc.lticket # 0 => lrc.lticket > LocalBase
      /\ lrc.current # 0 => Known(lrc, lrc.current)
  BY <1>0, LedgerTypes DEF LrcTypes, Ledger
<1>2. ASSUME NEW t \in Tickets(lrc, op) PROVE t \in AllTickets /\ Known(lrc, t)
  <2>1. CASE t \in 1..Len(lrc.states)
    <3>1. t \in Nat /\ t <= MaxTickets
      BY <1>1, <2>1, TicketFacts
    <3> QED
      BY <1>0, <1>1, <2>1, <3>1, RemoteTicket, TicketFacts
  <2>2. CASE t = lrc.lticket /\ t # 0
    BY <1>1, <2>2 DEF Known, Local
  <2> QED
    BY <2>1, <2>2 DEF Tickets
<1>3. TicketOf(lrc, op) \in {lrc.current, 0} \/ TicketOf(lrc, op) \in Tickets(lrc, op)
  BY DEF TicketOf
<1> QED
  BY <1>1, <1>2, <1>3, TicketFacts

(* An answer made under the gate.                                          *)
LEMMA AnswerInv ==
  ASSUME ControlInv, link # "off", ~Submits(work), work.pc # "leave", gate = Nobody, gate' = "work",
         ble' = ble, UNCHANGED <<quiet, lrc, btn, cod, rt>>, NEW t \in AllTickets,
         t # 0 => Known(lrc, t), work' = Answer(t)
  PROVE  ControlInv'
<1>0. /\ lrc \in LrcTypes /\ Numbers /\ Types /\ Ledger /\ Told /\ work \in WorkTypes
      /\ ble \in BleTypes /\ t \in Nat /\ ble.request \in Requestable
  BY TicketFacts DEF ControlInv, Types, BleTypes
<1>1. StateAt(lrc, t) \in States
  <2>1. CASE t = 0
    BY <2>1, InitialTypes DEF StateAt
  <2>2. CASE t # 0
    BY <1>0, <2>2, OneTicket
  <2> QED
    BY <2>1, <2>2
<1>2. PICK rc \in {"OK", "PENDING"} :
        /\ work' = [LeavesWith(rc) EXCEPT !.req = ble.request, !.state = StateAt(lrc, t)]
        /\ rc = "OK" => Answers(ble.request, StateAt(lrc, t), StopRequested(t))
  BY DEF Answer
<1>3. LeavesWith(rc) \in WorkTypes /\ LeavesWith(rc).pc = "leave" /\ LeavesWith(rc).to = "answered"
      /\ LeavesWith(rc).rc = rc
  BY <1>0, LeavesWithFacts
<1>4. /\ work' \in WorkTypes /\ work'.pc = "leave" /\ work'.to = "answered" /\ work'.rc = rc
      /\ work'.req = ble.request /\ work'.state = StateAt(lrc, t)
  BY <1>0, <1>1, <1>2, <1>3 DEF WorkTypes
<1>5. SameTurn(work, work')
  BY <1>4 DEF SameTurn, Submits, Asks
<1>6. CoreSame /\ GestureSame /\ lrc'.seq <= count.requests
  BY <1>0 DEF CoreSame, OpsSame, GestureSame, Numbers
<1>7. UNCHANGED <<link, maint, count, ran, last, lrc, btn, cod, rt>>
  BY DEF quiet
<1>8. Told'
  <2>1. Answered' => Kept(ble.request.cmd, StateAt(lrc, t))
    BY <1>0, <1>2, <1>4, AnswerKept DEF Answered
  <2>2. Answered' => Kept(work.req.cmd, work.state)'
    <3>1. ASSUME Kept(ble.request.cmd, StateAt(lrc, t)) PROVE Kept(work.req.cmd, work.state)'
      BY <1>4, <1>7, <3>1 DEF Kept, Recorded, Holds
    <3> QED
      BY <2>1, <3>1
  <2>3. Kept(last.cmd, last.state)'
    BY <1>0, <1>7 DEF Told, Kept, Recorded, Holds
  <2> QED
    BY <1>4, <2>2, <2>3 DEF Told
<1>9. last' \in [cmd : {"NONE", "START", "ARM", "STOP", "STATUS"}, state : States]
      /\ last'.state \in States
  BY <1>0, <1>7 DEF Types
<1> QED
  BY <1>0, <1>4, <1>5, <1>6, <1>7, <1>8, <1>9, WorkStep

(* A call that ends under the gate without an answer.                      *)
LEMMA LeavesWithInv ==
  ASSUME ControlInv, link # "off", ~Submits(work), work.pc # "leave", gate = Nobody, gate' = "work",
         ble' = ble, UNCHANGED <<quiet, btn, cod, rt>>, CoreSame, GestureSame,
         lrc'.seq <= count.requests, NEW rc \in {"REFUSED", "BUSY", "FAULT"}, work' = LeavesWith(rc)
  PROVE  ControlInv'
<1>0. Types /\ work \in WorkTypes /\ ble \in BleTypes
  BY DEF ControlInv, Types
<1>1. work' \in WorkTypes /\ work'.pc = "leave" /\ work'.to = "answered" /\ work'.rc = rc
  BY <1>0, LeavesWithFacts
<1>2. SameTurn(work, work') /\ StillAnswers
  BY <1>1 DEF SameTurn, Submits, Asks, StillAnswers, Answered
<1>3. UNCHANGED <<link, maint, count, ran, last, btn, cod, rt>>
  BY DEF quiet
<1> QED
  BY <1>0, <1>1, <1>2, <1>3, WorkStep

(* The end of lrc_command.                                                 *)
LEMMA ReplyInv ==
  ASSUME ControlInv, Reply PROVE ControlInv'
<1>0. Types /\ Numbers /\ work.ticket \in AllTickets
  BY DEF ControlInv, Types, WorkTypes
<1>1. /\ work.pc = "reply" /\ link # "off" /\ ~Submits(work)
      /\ UNCHANGED <<quiet, lrc, btn, cod, rt>>
  BY DeviceUp DEF Reply, Submits
<1>2. CASE Returns("BUSY") /\ gate' = gate
  BY <1>1, <1>2, ReturnsInv
<1>3. CASE /\ gate = Nobody /\ gate' = "work" /\ ble' = ble
           /\ work.ticket # 0 => Known(lrc, work.ticket)
           /\ work' = Answer(work.ticket)
  BY <1>0, <1>1, <1>3, AnswerInv
<1>4. CASE gate = Nobody /\ gate' = "work" /\ ble' = ble /\ work' = LeavesWith("REFUSED")
  <2>1. CoreSame /\ GestureSame /\ lrc'.seq <= count.requests
    BY <1>0, <1>1 DEF CoreSame, OpsSame, GestureSame, Numbers, Types
  <2> QED
    BY <1>1, <1>4, <2>1, LeavesWithInv
<1> QED
  BY <1>2, <1>3, <1>4 DEF Reply

(* lrc_pending_reply.                                                      *)
LEMMA AgainInv ==
  ASSUME ControlInv, Again PROVE ControlInv'
<1>0. Types /\ Ledger /\ Numbers
  BY DEF ControlInv
<1> DEFINE t == TicketOf(lrc, ble.request.op)
<1>1. /\ work.pc = "again" /\ link # "off" /\ ~Submits(work)
      /\ UNCHANGED <<quiet, lrc, btn, cod, rt>>
  BY DeviceUp DEF Again, Submits
<1>2. t \in AllTickets /\ (t # 0 => Known(lrc, t))
  BY <1>0, TicketOfKnown
<1>3. ASSUME NEW rc \in {"REFUSED", "BUSY"}, Returns(rc), gate' = gate PROVE ControlInv'
  BY <1>1, <1>3, ReturnsInv
<1>4. CASE gate = Nobody /\ gate' = "work" /\ ble' = ble /\ work' = Answer(t)
  BY <1>1, <1>2, <1>4, AnswerInv
<1>5. ASSUME gate = Nobody, gate' = "work", ble' = ble, NEW rc \in {"REFUSED", "BUSY"},
             work' = LeavesWith(rc)
      PROVE  ControlInv'
  <2>1. CoreSame /\ GestureSame /\ lrc'.seq <= count.requests
    BY <1>0, <1>1 DEF CoreSame, OpsSame, GestureSame, Numbers, Types
  <2> QED
    BY <1>1, <1>5, <2>1, LeavesWithInv
<1> QED
  BY <1>3, <1>4, <1>5 DEF Again

(* The reply may be sent, or not.                                          *)
LEMMA AllowInv ==
  ASSUME ControlInv, Allow PROVE ControlInv'
<1>0. Types /\ Numbers /\ work \in WorkTypes /\ ble \in BleTypes /\ lrc \in LrcTypes
  BY DEF ControlInv, Types
<1>1. /\ work.pc = "allow" /\ link # "off" /\ ~Submits(work) /\ Answered
      /\ UNCHANGED <<quiet, lrc, ble, btn, cod, rt>>
  BY DeviceUp DEF Allow, Submits, Answered
<1>2. CoreSame /\ GestureSame /\ lrc'.seq <= count.requests
  BY <1>0, <1>1 DEF CoreSame, OpsSame, GestureSame, Numbers
<1>3. UNCHANGED <<link, maint, count, ran, last, lrc, ble, btn, cod, rt>>
  BY <1>1 DEF quiet
<1>4. CASE work' = [NoWork EXCEPT !.pc = "close", !.epoch = work.epoch] /\ gate' = gate
  <2>1. work' \in WorkTypes /\ work'.pc = "close"
    BY <1>0, <1>4, InitialTypes DEF WorkTypes, WorkLabels
  <2>2. SameTurn(work, work') /\ StillAnswers
    BY <1>1, <2>1 DEF SameTurn, Submits, Asks, StillAnswers, Answered
  <2> QED
    BY <1>0, <1>1, <1>2, <1>3, <1>4, <2>1, <2>2, WorkStep
<1>5. ASSUME gate = Nobody, gate' = "work", NEW to \in {"notify", "close"}, work' = Leaves(work, to)
      PROVE  ControlInv'
  <2>1. /\ work' \in WorkTypes /\ work'.pc = "leave" /\ work'.to = to
        /\ work'.req = work.req /\ work'.state = work.state
    BY <1>0, <1>5 DEF Leaves, WorkTypes, WorkLabels
  <2>2. SameTurn(work, work') /\ StillAnswers
    BY <1>1, <1>3, <2>1 DEF SameTurn, Submits, Asks, StillAnswers
  <2> QED
    BY <1>0, <1>1, <1>2, <1>3, <1>5, <2>1, <2>2, WorkStep
<1> QED
  BY <1>4, <1>5 DEF Allow

(* The notify hook.                                                        *)
LEMMA NotifyInv ==
  ASSUME ControlInv, Notify PROVE ControlInv'
<1>0. /\ Types /\ Numbers /\ Told /\ work \in WorkTypes /\ ble \in BleTypes /\ lrc \in LrcTypes
  BY DEF ControlInv, Types
<1>1. /\ work.pc = "notify" /\ link # "off" /\ ~Submits(work) /\ Answered
      /\ UNCHANGED <<link, maint, count, ran, gate, lrc, btn, cod, rt>>
      /\ work' = [NoWork EXCEPT !.pc = "close", !.epoch = work.epoch]
  BY DeviceUp DEF Notify, Submits, Answered
<1>2. CoreSame /\ GestureSame /\ lrc'.seq <= count.requests
  BY <1>0, <1>1 DEF CoreSame, OpsSame, GestureSame, Numbers
<1>3. work' \in WorkTypes /\ work'.pc = "close"
  BY <1>0, <1>1, InitialTypes DEF WorkTypes, WorkLabels
<1>4. SameTurn(work, work') /\ StillAnswers /\ ~Answered'
  BY <1>1, <1>3 DEF SameTurn, Submits, Asks, StillAnswers, Answered
<1>5. CASE Sent
  <2>1. ble' \in BleTypes /\ ble'.request = NoRequest
    BY <1>0, <1>5, InitialTypes DEF Sent, BleTypes
  <2>2. last'.cmd = work.req.cmd /\ last'.state = work.state /\ last'.state \in States
        /\ last' \in [cmd : {"NONE", "START", "ARM", "STOP", "STATUS"}, state : States]
    BY <1>0, <1>5 DEF Sent, WorkTypes, Requestable
  <2>3. Kept(last.cmd, last.state)'
    BY <1>0, <1>1, <2>2 DEF Told, Kept, Recorded, Holds
  <2>4. Told'
    BY <1>4, <2>3 DEF Told
  <2> QED
    BY <1>1, <1>2, <1>3, <1>4, <2>1, <2>2, <2>4, WorkStep
<1>6. CASE last' = last /\ (ble' = ble \/ ble' = [ble EXCEPT !.revoked = TRUE])
  <2>1. ble' \in BleTypes /\ ble'.request = ble.request
    BY <1>0, <1>6 DEF BleTypes
  <2> QED
    BY <1>1, <1>2, <1>3, <1>4, <1>6, <2>1, WorkStep
<1> QED
  BY <1>5, <1>6 DEF Notify

(* lrc_disconnected, or the end of a pass.                                 *)
LEMMA CloseInv ==
  ASSUME ControlInv, Close PROVE ControlInv'
<1>0. Types /\ Numbers /\ work \in WorkTypes /\ ble \in BleTypes /\ lrc \in LrcTypes
  BY DEF ControlInv, Types
<1>1. /\ work.pc = "close" /\ link # "off" /\ ~Submits(work)
      /\ UNCHANGED <<link, maint, count, ran, last, ble, btn, cod, rt>>
  BY DeviceUp DEF Close, Submits, quiet
<1>2. CASE gate = Nobody /\ gate' = "work" /\ lrc' = Dropped(work.epoch) /\ work' = Leaves(work, "forget")
  <2>1. work' \in WorkTypes /\ work'.pc = "leave" /\ work'.to = "forget"
    BY <1>0, <1>2 DEF Leaves, WorkTypes, WorkLabels
  <2>2. SameTurn(work, work') /\ StillAnswers
    BY <1>1, <2>1 DEF SameTurn, Submits, Asks, StillAnswers, Answered
  <2>3. CoreSame /\ GestureSame /\ lrc'.seq <= count.requests
    <3>0. count.requests \in Nat /\ work.epoch \in Nat /\ lrc.last \in Nat /\ lrc.seq <= count.requests
      BY <1>0, TicketFacts DEF Types, CountTypes, WorkTypes, LrcTypes, Numbers
    <3>1. CASE lrc' = [lrc EXCEPT !.conn = 0, !.seq = 0]
      <4>1. lrc' \in LrcTypes /\ lrc'.seq = 0
        BY <1>0, <3>1 DEF LrcTypes
      <4> QED
        BY <1>0, <3>0, <3>1, <4>1 DEF CoreSame, OpsSame, GestureSame, LrcTypes
    <3>2. ASSUME NEW e \in Nat, lrc' = [lrc EXCEPT !.last = e]
          PROVE  CoreSame /\ GestureSame /\ lrc'.seq <= count.requests
      <4>1. lrc' \in LrcTypes /\ lrc'.seq = lrc.seq
        BY <1>0, <3>2 DEF LrcTypes
      <4> QED
        BY <1>0, <3>0, <3>2, <4>1 DEF CoreSame, OpsSame, GestureSame, LrcTypes
    <3>3. lrc' = [lrc EXCEPT !.last = IF work.epoch > lrc.last THEN work.epoch ELSE lrc.last]
          \/ lrc' = [lrc EXCEPT !.conn = 0, !.seq = 0]
      BY <1>2 DEF Dropped
    <3> QED
      BY <3>0, <3>1, <3>2, <3>3
  <2> QED
    BY <1>0, <1>1, <1>2, <2>1, <2>2, <2>3, WorkStep
<1>3. CASE work' = NoWork /\ gate' = gate /\ lrc' = lrc
  <2>1. work' \in WorkTypes /\ work'.pc = "idle"
    BY <1>3, InitialTypes DEF NoWork
  <2>2. SameTurn(work, work') /\ StillAnswers
    BY <1>1, <2>1 DEF SameTurn, Submits, Asks, StillAnswers, Answered
  <2>3. CoreSame /\ GestureSame /\ lrc'.seq <= count.requests
    BY <1>0, <1>3 DEF CoreSame, OpsSame, GestureSame, Numbers
  <2> QED
    BY <1>0, <1>1, <1>3, <2>1, <2>2, <2>3, WorkStep
<1> QED
  BY <1>2, <1>3 DEF Close

(* The broker lets go of a connection.                                     *)
LEMMA ForgetInv ==
  ASSUME ControlInv, Forget PROVE ControlInv'
<1>0. Types /\ Numbers /\ ble \in BleTypes /\ lrc \in LrcTypes
  BY DEF ControlInv, Types
<1>1. /\ work.pc = "forget" /\ link # "off" /\ ~Submits(work) /\ work' = NoWork
      /\ UNCHANGED <<link, maint, count, ran, last, gate, lrc, btn, cod, rt>>
      /\ ble' = [Ble0 EXCEPT !.epoch = ble.epoch]
  BY DeviceUp DEF Forget, Submits, quiet
<1>2. ble' \in BleTypes /\ ble'.request = NoRequest
  BY <1>0, <1>1, InitialTypes DEF BleTypes, Ble0
<1>3. work' \in WorkTypes /\ work'.pc = "idle"
  BY <1>1, InitialTypes DEF NoWork
<1>4. SameTurn(work, work') /\ StillAnswers
  BY <1>1, <1>3 DEF SameTurn, Submits, Asks, StillAnswers, Answered
<1>5. CoreSame /\ GestureSame /\ lrc'.seq <= count.requests
  BY <1>0, <1>1 DEF CoreSame, OpsSame, GestureSame, Numbers
<1> QED
  BY <1>1, <1>2, <1>3, <1>4, <1>5, WorkStep

-----------------------------------------------------------------------------
(* Operations begin, are queued, and cease to wait.                        *)

(* The runtime takes what a thread submits.                                *)
LEMMA QueuedInv ==
  ASSUME ControlInv, link # "off", UNCHANGED <<quiet, gate, lrc, ble, cod>>, Ready,
         Types', Gates', Asks(work) \/ Asks(btn), ~Asks(work)', ~Asks(btn)',
         Submits(work)' <=> Submits(work), Submits(btn)' <=> Submits(btn),
         work'.ticket = work.ticket, btn'.ticket = btn.ticket, StillAnswers,
         rt' = [rt EXCEPT !.busy = "command", !.msg = lrc.current]
  PROVE  ControlInv'
<1>0. /\ Types /\ Numbers /\ Ledger /\ Waits /\ Fresh /\ Runtime /\ Codecs /\ Runs /\ Told
      /\ lrc \in LrcTypes /\ rt \in RuntimeTypes /\ rt.busy = "no"
  BY DEF ControlInv, Types, Ready
<1>1. UNCHANGED <<link, maint, count, ran, last, gate, lrc, ble, cod>>
  BY DEF quiet
<1>2. rt'.busy = "command" /\ rt'.msg = lrc.current
  BY <1>0 DEF RuntimeTypes
<1>3. /\ lrc.current # 0 /\ Unbegun(StateAt(lrc, lrc.current))
      /\ NeverRan(StateAt(lrc, lrc.current).op) /\ ~Working /\ lrc.armed = 0
  BY <1>0 DEF Waits, Waiting, Asks
<1>4. ~Waiting' /\ ~Working'
  BY <1>1, <1>3 DEF Waiting, Working
<1>5. Waits'
  BY <1>0, <1>1, <1>3, <1>4 DEF Waits
<1>6. Ledger' /\ Fresh' /\ Numbers'
  BY <1>0, <1>1 DEF Ledger, Fresh, Issued, Numbers
<1>7. Runtime'
  <2>1. cod.pc \in {"idle", "off"} /\ cod.pc # "off" /\ maint \notin {"prefs", "prefs_busy", "pair_busy", "pair_gate", "pair"}
    <3>1. cod.pc \in {"idle", "off"} /\ maint \notin {"prefs", "prefs_busy", "pair_busy", "pair_gate", "pair"}
      BY <1>0 DEF Runtime
    <3>2. cod.pc # "off"
      BY DEF ControlInv, Gates
    <3> QED
      BY <3>1, <3>2
  <2> QED
    BY <1>0, <1>1, <1>2, <1>3, <2>1 DEF Runtime, Unbegun, NeverRan
<1>8. Codecs'
  BY <1>0, <1>1, <1>4 DEF Codecs, PublishedPhase, LoopPhase, Issued
<1>9. Owned'
  BY <1>1, <1>2 DEF Owned
<1>10. Runs'
  BY <1>0, <1>1 DEF Runs, StartedOnce, Recorded
<1>11. Told'
  <2>1. OpsSame
    BY <1>0, <1>1 DEF OpsSame
  <2> QED
    BY <1>0, <1>1, <1>6, <2>1, CoreGrows, ToldGrows
<1>12. Off'
  BY <1>1 DEF Off
<1> QED
  BY <1>5, <1>6, <1>7, <1>8, <1>9, <1>10, <1>11, <1>12 DEF ControlInv

(* A submission comes back, and what was submitted waits no more or the    *)
(* coordinator is fenced.                                                  *)
LEMMA SubmissionEnds ==
  ASSUME ControlInv, link # "off", UNCHANGED <<quiet, cod, rt>>, OpsSame, GestureSame,
         lrc'.armed = lrc.armed, ~lrc'.submitting, Submits(work) \/ Submits(btn),
         ~Submits(work)', ~Submits(btn)', Asks(work) \/ Asks(btn) => lrc'.fault,
         Types', Gates', Numbers', gate' = "maint" => gate = "maint", StillAnswers
  PROVE  ControlInv'
<1>0. /\ Types /\ Ledger /\ Waits /\ Fresh /\ Runtime /\ Codecs /\ Owned /\ Runs /\ Told
  BY DEF ControlInv
<1>1. UNCHANGED <<link, maint, count, ran, last, cod, rt>>
  BY DEF quiet
<1>2. lrc.submitting /\ lrc.armed = 0 /\ (Waiting => lrc'.fault)
  BY <1>0 DEF Waits, Waiting
<1>3. ~Waiting' /\ (Working' <=> Working)
  BY <1>1, <1>2 DEF Waiting, Asks, Working
<1>4. Waits'
  BY <1>2, <1>3 DEF Waits
<1>5. Ledger' /\ Fresh'
  BY <1>0, <1>1, LedgerCalm
<1>6. Runtime'
  BY <1>0, <1>1, <1>2, OpsFacts DEF Runtime, NeverRan
<1>7. Codecs'
  BY <1>0, <1>1, <1>3, OpsFacts DEF Codecs, PublishedPhase, LoopPhase, OpsSame
<1>8. Owned'
  BY <1>0, <1>1, <1>2, OpsFacts DEF Owned, OpsSame
<1>9. Runs' /\ Told'
  BY <1>0, <1>1, <1>5, CoreGrows, RunsGrow, ToldGrows
<1>10. Off'
  BY <1>1 DEF Off
<1> QED
  BY <1>4, <1>5, <1>6, <1>7, <1>8, <1>9, <1>10 DEF ControlInv

(* What waits is refused or cancelled.                                     *)
LEMMA WaitEnds ==
  ASSUME ControlInv, link # "off", UNCHANGED <<link, maint, ran, last, cod, rt>>, Waiting,
         NEW s, Advances(s), ~Active(s), lrc'.armed = 0, ~lrc'.submitting,
         ~Submits(work)', ~Submits(btn)', Types', Gates', Numbers', gate' # "maint", StillAnswers,
         count.taps <= count'.taps, lrc'.press \in {0, lrc.press, lrc.current},
         lrc'.tapping => HasRoom(lrc.lticket, count'.taps)
  PROVE  ControlInv'
<1>0. /\ Types /\ Ledger /\ Waits /\ Runtime /\ Codecs /\ Runs /\ Told
  BY DEF ControlInv
<1>1. ~Working /\ rt.msg = 0
  BY <1>0 DEF Waits
<1>2. ~Waiting' /\ ~Working'
  BY <1>1 DEF Waiting, Asks, Working
<1>3. Waits'
  BY <1>2 DEF Waits
<1>4. /\ Grows /\ ~Busy(lrc') /\ lrc'.current = lrc.current
      /\ \A t : Issued(t)' <=> Issued(t)
  BY <1>0, AdvancesFacts DEF Advances
<1>5. Ledger'
  <2>1. count'.taps \in Nat
    BY TicketFacts DEF Types, CountTypes
  <2> QED
    BY <1>0, <2>1, AdvancesLedger
<1>6. Fresh' /\ Owned'
  BY <1>4 DEF Fresh, Owned
<1>7. Runtime'
  BY <1>0, <1>1 DEF Runtime
<1>8. Codecs'
  <2>1. cod'.pc # "off" => Issued(cod.ticket)'
    <3>1. cod.pc # "off" => Issued(cod.ticket)
      BY <1>0 DEF Codecs
    <3>2. \A t : Issued(t) => Issued(t)'
      BY <1>4
    <3> QED
      BY <3>1, <3>2 DEF Issued
  <2> QED
    BY <1>0, <1>2, <1>4, <2>1 DEF Codecs, PublishedPhase, LoopPhase
<1>9. Runs' /\ Told'
  BY <1>0, <1>4, <1>5, RunsGrow, ToldGrows
<1>10. Off'
  BY DEF Off
<1> QED
  BY <1>3, <1>5, <1>6, <1>7, <1>8, <1>9, <1>10 DEF ControlInv

(* A new operation begins: it is armed, or a thread is to submit it.       *)
LEMMA OperationBegins ==
  ASSUME ControlInv, link # "off", UNCHANGED <<quiet, cod, rt>>, ~Busy(lrc), ~lrc.submitting,
         Grows, Ledger', ~Issued(lrc'.current), lrc'.current # 0,
         Unbegun(StateAt(lrc', lrc'.current)), ~Recorded(StateAt(lrc', lrc'.current).op),
         lrc'.tapping => lrc'.press = lrc.press,
         \/ /\ lrc'.armed = lrc'.current /\ lrc'.armed \in 1..Len(lrc'.states) /\ ~lrc'.submitting
            /\ ~Submits(work)' /\ ~Submits(btn)'
         \/ /\ lrc'.armed = 0 /\ lrc'.submitting
            /\ \/ Asks(work)' /\ work'.ticket = lrc'.current /\ ~Submits(btn)'
               \/ Asks(btn)' /\ btn'.ticket = lrc'.current /\ ~Submits(work)',
         Types', Gates', Numbers', gate' # "maint", StillAnswers
  PROVE  ControlInv'
<1>0. /\ Types /\ Ledger /\ Waits /\ Fresh /\ Runtime /\ Codecs /\ Runs /\ Told
      /\ lrc \in LrcTypes
  BY DEF ControlInv, Types
<1>1. UNCHANGED <<link, maint, count, ran, last, cod, rt>>
  BY DEF quiet
<1>2. rt.msg = 0 /\ ~Working
  BY <1>0 DEF Runtime, Codecs, Busy, Active
<1>3. Waiting' /\ ~Working'
  BY <1>1, <1>2 DEF Waiting, Working
<1>4. NeverRan(StateAt(lrc, lrc.current).op)'
  BY <1>0, <1>1 DEF Runs, NeverRan
<1>5. Waits'
  <2>1. Asks(work)' => Submits(work)'
    BY DEF Asks
  <2>2. Asks(btn)' => Submits(btn)'
    BY DEF Asks
  <2> QED
    BY <1>1, <1>2, <1>3, <1>4, <2>1, <2>2 DEF Waits
<1>6. Fresh'
  <2>1. Issued(lrc.press)
    BY <1>0 DEF Ledger
  <2> QED
    BY <2>1 DEF Fresh
<1>7. Runtime'
  BY <1>0, <1>1, <1>2 DEF Runtime
<1>8. Codecs'
  <2>1. cod'.pc # "off" => Issued(cod.ticket) /\ Issued(cod.ticket)'
    <3>1. cod.pc # "off" => Issued(cod.ticket)
      BY <1>0 DEF Codecs
    <3>2. cod.ticket \in Nat
      BY <1>0, TicketFacts DEF Types, CodecTypes
    <3>3. Issued(cod.ticket) => Issued(cod.ticket)'
      <4>1. \A t \in Nat : Issued(t) => Issued(t)'
        BY <1>0, RecordedGrows
      <4> QED
        BY <1>1, <3>2, <4>1 DEF Issued
    <3> QED
      BY <1>1, <3>1, <3>3
  <2>2. cod'.pc # "off" => cod'.ticket # lrc'.current
    BY <1>1, <2>1
  <2> QED
    BY <1>0, <1>1, <1>3, <2>1, <2>2 DEF Codecs, PublishedPhase, LoopPhase
<1>9. Owned'
  BY <1>3 DEF Owned
<1>10. Runs' /\ Told'
  BY <1>0, <1>1, RunsGrow, ToldGrows
<1>11. Off'
  BY <1>1 DEF Off
<1> QED
  BY <1>5, <1>6, <1>7, <1>8, <1>9, <1>10, <1>11 DEF ControlInv

(* The tap that an armed operation waits for: the button is to submit it.  *)
LEMMA ArmedBegins ==
  ASSUME ControlInv, link # "off", UNCHANGED <<quiet, work, cod, rt>>, OpsSame, lrc.armed # 0,
         lrc'.armed = 0, lrc'.submitting, ~lrc'.tapping, lrc'.press = 0,
         Asks(btn)', btn'.ticket = lrc.current,
         Types', Gates', Numbers', gate' # "maint", StillAnswers
  PROVE  ControlInv'
<1>0. /\ Types /\ Ledger /\ Waits /\ Fresh /\ Runtime /\ Codecs /\ Owned /\ Runs /\ Told
      /\ lrc \in LrcTypes
  BY DEF ControlInv, Types
<1>1. UNCHANGED <<link, maint, count, ran, last, work, cod, rt>>
  BY DEF quiet
<1>2. /\ Waiting /\ ~Submits(work) /\ lrc.current # 0 /\ Unbegun(StateAt(lrc, lrc.current))
      /\ NeverRan(StateAt(lrc, lrc.current).op) /\ rt.msg = 0 /\ ~Working
  BY <1>0 DEF Waits, Waiting
<1>3. Waiting' /\ ~Working' /\ ~Submits(work)' /\ Submits(btn)'
  BY <1>1, <1>2 DEF Waiting, Working, Submits, Asks
<1>4. Waits'
  BY <1>1, <1>2, <1>3, OpsFacts DEF Waits, NeverRan
<1>5. Ledger'
  <2>1. Issued(0)'
    <3>1. Len(lrc'.states) \in Nat /\ lrc'.lticket \in Nat /\ LocalBase \in Nat
      BY LedgerTypes, TicketFacts DEF OpsSame
    <3> QED
      BY <3>1 DEF Issued, Local
  <2>2. Issued(lrc.press)'
    BY <2>1 DEF Issued
  <2>3. (lrc.current # 0 => Known(lrc, lrc.current))'
    BY <1>0, OpsFacts DEF Ledger
  <2> QED
    BY <1>0, <1>1, <2>2, <2>3 DEF Ledger, OpsSame
<1>6. Fresh' /\ Owned'
  BY <1>3 DEF Fresh, Owned
<1>7. Runtime'
  BY <1>0, <1>1, <1>2 DEF Runtime
<1>8. Codecs'
  BY <1>0, <1>1, <1>3, OpsFacts DEF Codecs, PublishedPhase, LoopPhase, OpsSame
<1>9. Runs' /\ Told'
  BY <1>0, <1>1, <1>5, CoreGrows, RunsGrow, ToldGrows
<1>10. Off'
  BY <1>1 DEF Off
<1> QED
  BY <1>4, <1>5, <1>6, <1>7, <1>8, <1>9, <1>10 DEF ControlInv

-----------------------------------------------------------------------------
(* The call that queues, and lrc_command under the gate.                   *)

(* A state put in its place.                                               *)
LEMMA PutFacts ==
  ASSUME NEW l \in LrcTypes, NEW t \in Nat, t # 0, Known(l, t), NEW s \in States
  PROVE  /\ Put(l, t, s) \in LrcTypes
         /\ Put(l, t, s).states = IF Local(t) THEN l.states ELSE [l.states EXCEPT ![t] = s]
         /\ Put(l, t, s).local = IF Local(t) THEN s ELSE l.local
         /\ Put(l, t, s).lticket = l.lticket /\ Put(l, t, s).current = l.current
         /\ Put(l, t, s).stop = l.stop /\ Put(l, t, s).press = l.press
         /\ Put(l, t, s).tapping = l.tapping /\ Put(l, t, s).fresh = l.fresh
         /\ Put(l, t, s).armed = l.armed /\ Put(l, t, s).submitting = l.submitting
         /\ Put(l, t, s).seq = l.seq /\ Put(l, t, s).fault = l.fault
<1>1. CASE Local(t)
  BY <1>1 DEF Put, LrcTypes
<1>2. CASE ~Local(t)
  <2>1. t \in 1..Len(l.states) /\ l.states \in Seq(States)
    BY <1>2, LedgerTypes DEF Known
  <2>2. [l.states EXCEPT ![t] = s] \in Seq(States)
    BY <2>1
  <2>3. Put(l, t, s) = [l EXCEPT !.states = [l.states EXCEPT ![t] = s]]
    BY <1>2 DEF Put, LrcTypes
  <2> QED
    BY <1>2, <2>2, <2>3 DEF LrcTypes
<1> QED
  BY <1>1, <1>2

(* What waits is known, and may be refused or cancelled.                   *)
LEMMA WaitingFacts ==
  ASSUME ControlInv, Waiting
  PROVE  /\ lrc.current # 0 /\ lrc.current \in Nat /\ Known(lrc, lrc.current) /\ Busy(lrc)
         /\ Unbegun(StateAt(lrc, lrc.current)) /\ StateAt(lrc, lrc.current) \in States
         /\ \A b \in {State(StateAt(lrc, lrc.current).op, "CANCELLED", "USER", FALSE),
                      State(StateAt(lrc, lrc.current).op, "FAULT", "ADMISSION", FALSE)} :
              b \in States /\ Progress(StateAt(lrc, lrc.current), b) /\ ~Active(b)
<1>0. Types /\ Ledger /\ Waits /\ lrc \in LrcTypes
  BY DEF ControlInv, Types
<1>1. /\ lrc.current # 0 /\ lrc.current \in Nat /\ Known(lrc, lrc.current)
      /\ Unbegun(StateAt(lrc, lrc.current))
  BY <1>0, LedgerTypes DEF Waits, Ledger
<1>2. StateAt(lrc, lrc.current) \in States /\ StateAt(lrc, lrc.current).op # NoOp
  BY <1>0, <1>1, OneTicket DEF NoOp
<1>3. Busy(lrc)
  BY <1>1 DEF Busy, Unbegun, Active
<1> QED
  BY <1>1, <1>2, <1>3, UnbegunEnds

(* long_queue, called by control_work.                                     *)
LEMMA WorkQueueInv ==
  ASSUME ControlInv, WorkQueue PROVE ControlInv'
<1>0. Types /\ Gates /\ Numbers /\ Waits /\ work \in WorkTypes /\ ble \in BleTypes /\ lrc \in LrcTypes
      /\ rt \in RuntimeTypes
  BY DEF ControlInv, Types
<1>1. /\ work.pc = "queue" /\ link # "off" /\ Submits(work) /\ Asks(work)
      /\ UNCHANGED <<quiet, gate, lrc, ble, btn, cod>>
  BY DeviceUp DEF WorkQueue, Submits, Asks
<1>2. PICK ok \in MayBeReady : Queue(work.ticket, ok) /\ work' = [work EXCEPT !.pc = "queued", !.ok = ok]
  BY DEF WorkQueue
<1>3. ok \in BOOLEAN /\ (ok => Ready)
  BY DEF MayBeReady
<1>4. /\ work' \in WorkTypes /\ work'.pc = "queued" /\ work'.ok = ok /\ work'.ticket = work.ticket
  BY <1>0, <1>2, <1>3 DEF WorkTypes, WorkLabels
<1>5. UNCHANGED <<link, maint, count, ran, last, gate, lrc, ble, btn, cod>>
  BY <1>1 DEF quiet
<1>6. StillAnswers
  BY <1>4 DEF StillAnswers, Answered
<1>7. CASE ~ok
  <2>1. rt' = rt
    BY <1>2, <1>7 DEF Queue
  <2>2. SameTurn(work, work')
    BY <1>1, <1>4, <1>7 DEF SameTurn, Submits, Asks
  <2>3. CoreSame /\ GestureSame /\ lrc'.seq <= count.requests
    BY <1>0, <1>5 DEF CoreSame, OpsSame, GestureSame, Numbers
  <2> QED
    BY <1>0, <1>1, <1>4, <1>5, <1>6, <2>1, <2>2, <2>3, WorkStep
<1>8. CASE ok
  <2>1. work.ticket = lrc.current /\ ~Submits(btn)
    BY <1>0, <1>1 DEF Waits
  <2>2. rt' = [rt EXCEPT !.busy = "command", !.msg = lrc.current] /\ Ready
    BY <1>2, <1>3, <1>8, <2>1 DEF Queue
  <2>3. ~Asks(work)' /\ ~Asks(btn)' /\ (Submits(work)' <=> Submits(work)) /\ (Submits(btn)' <=> Submits(btn))
    BY <1>1, <1>4, <1>5, <1>8, <2>1 DEF Asks, Submits
  <2>4. rt' \in RuntimeTypes
    BY <1>0, <2>2 DEF RuntimeTypes, LrcTypes
  <2>5. Types' /\ Gates'
    BY <1>0, <1>1, <1>4, <1>5, <2>4 DEF Types, Gates
  <2> QED
    BY <1>1, <1>4, <1>5, <1>6, <2>2, <2>3, <2>5, QueuedInv
<1> QED
  BY <1>3, <1>7, <1>8

(* control_work is back from the queue.                                    *)
LEMMA WorkQueuedInv ==
  ASSUME ControlInv, WorkQueued PROVE ControlInv'
<1>0. /\ Types /\ Gates /\ Numbers /\ Waits /\ Ledger /\ Runtime /\ work \in WorkTypes
      /\ ble \in BleTypes /\ lrc \in LrcTypes /\ work.ok \in BOOLEAN
  BY DEF ControlInv, Types, WorkTypes
<1> DEFINE l == [lrc EXCEPT !.submitting = FALSE]
<1>1. /\ work.pc = "queued" /\ link # "off" /\ Submits(work) /\ UNCHANGED <<quiet, btn, cod, rt>>
      /\ (~work.ok => Asks(work)) /\ (work.ok => ~Asks(work))
  BY DeviceUp DEF WorkQueued, Submits, Asks
<1>2. work.ticket = lrc.current /\ ~Submits(btn) /\ ~Asks(btn) /\ lrc.submitting /\ lrc.armed = 0
  BY <1>0, <1>1 DEF Waits, Asks
<1>3. UNCHANGED <<link, maint, count, ran, last, btn, cod, rt>>
  BY <1>1 DEF quiet
<1>4. ~Submits(btn)'
  BY <1>2, <1>3 DEF Submits
<1>5. /\ l \in LrcTypes /\ l.submitting = FALSE /\ l.seq = lrc.seq /\ l.states = lrc.states
      /\ l.local = lrc.local /\ l.lticket = lrc.lticket /\ l.current = lrc.current
      /\ l.armed = lrc.armed /\ l.stop = lrc.stop /\ l.fault = lrc.fault
      /\ l.tapping = lrc.tapping /\ l.press = lrc.press /\ l.fresh = lrc.fresh
  BY <1>0 DEF LrcTypes
<1> HIDE DEF l
<1>6. ASSUME NEW f \in BOOLEAN, lrc.fault => f, ~work.ok => f,
             lrc' = [l EXCEPT !.fault = f] \/ (lrc' = l /\ f = lrc.fault),
             ble' \in BleTypes, ble'.request = ble.request, work' \in WorkTypes, ~Submits(work)', StillAnswers,
             IF work'.pc = "leave" THEN gate' = "work" /\ gate = Nobody ELSE gate' = gate,
             work'.pc = "leave" => work'.to \in {"answered", "queue", "reply", "notify", "close", "forget"}
      PROVE  ControlInv'
  <2>1. /\ lrc' \in LrcTypes /\ lrc'.submitting = FALSE /\ lrc'.seq = lrc.seq /\ lrc'.fault = f
        /\ OpsSame /\ GestureSame /\ lrc'.armed = lrc.armed
    <3>1. lrc' \in LrcTypes /\ lrc'.fault = f
      BY <1>5, <1>6 DEF LrcTypes
    <3> QED
      BY <1>5, <1>6, <3>1 DEF LrcTypes, OpsSame, GestureSame
  <2>2. Types' /\ Gates' /\ Numbers'
    BY <1>0, <1>1, <1>3, <1>6, <2>1 DEF Types, Gates, Numbers, Nobody
  <2>3. Asks(work) \/ Asks(btn) => lrc'.fault
    BY <1>1, <1>2, <1>6, <2>1
  <2>4. gate' = "maint" => gate = "maint"
    BY <1>6
  <2> QED
    BY <1>1, <1>4, <1>6, <2>1, <2>2, <2>3, <2>4, SubmissionEnds
<1>7. ASSUME gate # Nobody, lrc' = [l EXCEPT !.fault = @ \/ ~work.ok], gate' = gate,
             NEW rc \in {"BUSY", "FAULT"}, Returns(rc)
      PROVE  ControlInv'
  <2>1. /\ ble' \in BleTypes /\ ble'.request = ble.request /\ work' \in WorkTypes /\ work'.pc = "close"
    BY <1>0, <1>7, ReturnsFacts
  <2>2. ~Submits(work)' /\ StillAnswers
    BY <2>1 DEF Submits, StillAnswers, Answered
  <2>3. lrc' = [l EXCEPT !.fault = l.fault \/ ~work.ok] /\ (l.fault \/ ~work.ok) \in BOOLEAN
    BY <1>7
  <2> QED
    BY <1>5, <1>6, <1>7, <2>1, <2>2, <2>3
<1>8. ASSUME gate = Nobody, gate' = "work", ble' = ble, work' = Leaves(work, "reply"),
             work.ok, lrc' = l
      PROVE  ControlInv'
  <2>1. /\ work' \in WorkTypes /\ work'.pc = "leave" /\ work'.to = "reply"
    BY <1>0, <1>8 DEF Leaves, WorkTypes, WorkLabels
  <2>2. ~Submits(work)' /\ StillAnswers
    BY <2>1 DEF Submits, StillAnswers, Answered
  <2>3. lrc.fault \in BOOLEAN
    BY <1>0 DEF LrcTypes
  <2> QED
    BY <1>0, <1>6, <1>8, <2>1, <2>2, <2>3
<1>9. ASSUME gate = Nobody, gate' = "work", ble' = ble, work' = Leaves(work, "reply"),
             ~work.ok, lrc' = RefusedStart(l, work.ticket)
      PROVE  ControlInv'
  <2>1. /\ work' \in WorkTypes /\ work'.pc = "leave" /\ work'.to = "reply"
    BY <1>0, <1>9 DEF Leaves, WorkTypes, WorkLabels
  <2>2. ~Submits(work)' /\ StillAnswers
    BY <2>1 DEF Submits, StillAnswers, Answered
  <2> DEFINE s == FailedStart(lrc.current)
  <2>3. Waiting
    BY <1>1, <1>9 DEF Waiting
  <2>4. /\ s \in States /\ Progress(StateAt(lrc, lrc.current), s) /\ ~Active(s)
        /\ lrc.current # 0 /\ lrc.current \in Nat /\ Known(lrc, lrc.current)
    BY <2>3, WaitingFacts DEF FailedStart
  <2>5. Known(l, lrc.current)
    BY <1>5, <2>4 DEF Known
  <2>6. lrc' = Put(l, lrc.current, s)
    BY <1>2, <1>9 DEF RefusedStart
  <2> HIDE DEF s
  <2>7. /\ Advances(s) /\ lrc'.armed = 0 /\ ~lrc'.submitting /\ lrc'.press = lrc.press
        /\ lrc'.tapping = lrc.tapping /\ lrc'.seq = lrc.seq /\ lrc' \in LrcTypes
    BY <1>2, <1>5, <2>4, <2>5, <2>6, PutFacts DEF Advances
  <2>8. Types' /\ Gates' /\ Numbers'
    BY <1>0, <1>1, <1>3, <1>9, <2>1, <2>7 DEF Types, Gates, Numbers, Nobody
  <2>9. count.taps \in Nat /\ (lrc'.tapping => HasRoom(lrc.lticket, count.taps))
    BY <1>0, <2>7, TicketFacts DEF Types, CountTypes, Ledger
  <2> QED
    BY <1>1, <1>3, <1>4, <1>9, <2>2, <2>3, <2>4, <2>7, <2>8, <2>9, WaitEnds
<1>10. ~work.ok => /\ StateAt(lrc, work.ticket).phase = "STARTING"
                   /\ ~StateAt(lrc, work.ticket).created
  BY <1>0, <1>1, <1>2 DEF Waits, Waiting, Unbegun
<1> QED
  BY <1>7, <1>8, <1>9, <1>10 DEF WorkQueued, l

(* A new ticket of the phone.                                              *)
LEMMA NewTicket ==
  ASSUME Types, Ledger, NEW op \in Ops, ~Recorded(op), Len(lrc.states) < MaxTickets,
         lrc' \in LrcTypes, count' = count,
         Len(lrc'.states) = Len(lrc.states) + 1,
         lrc'.states[Len(lrc.states) + 1] = State(op, "STARTING", "NONE", FALSE),
         \A t \in 1..Len(lrc.states) : lrc'.states[t] = lrc.states[t],
         lrc'.current = Len(lrc.states) + 1, lrc'.local = lrc.local, lrc'.lticket = lrc.lticket,
         lrc'.stop = lrc.stop, lrc'.press = lrc.press, lrc'.tapping = lrc.tapping
  PROVE  /\ Grows /\ Ledger' /\ ~Issued(lrc'.current) /\ lrc'.current # 0
         /\ lrc'.current \in 1..Len(lrc'.states)
         /\ Unbegun(StateAt(lrc', lrc'.current)) /\ StateAt(lrc', lrc'.current).op = op
<1> DEFINE n == Len(lrc.states)
           s == State(op, "STARTING", "NONE", FALSE)
<1>0. /\ lrc \in LrcTypes /\ n \in Nat /\ lrc.lticket \in Nat /\ lrc.press \in Nat
      /\ LocalBase \in Nat /\ MaxTickets \in Nat /\ MaxTickets <= LocalBase /\ op \in 1..LocalBase
      /\ lrc.states \in Seq(States) /\ count.taps \in Nat
  <2>1. lrc \in LrcTypes
    BY DEF Types
  <2> QED
    BY <2>1, LedgerTypes, TicketFacts DEF Types, CountTypes
<1>1. s \in States
  <2>1. op \in 0..(LocalBase + MaxTaps)
    BY <1>0, TicketFacts
  <2> QED
    BY <2>1, RankFacts, StateTypes
<1>2. /\ Len(lrc'.states) = n + 1 /\ lrc'.states[n + 1] = s
      /\ \A t \in 1..n : lrc'.states[t] = lrc.states[t]
  OBVIOUS
<1>3. s.op = op /\ s.phase = "STARTING" /\ s.reason = "NONE" /\ s.created = FALSE
  BY DEF State
<1> HIDE DEF n, s
<1>4. ~Local(op) /\ \A t \in 1..n : lrc.states[t].op # op
  BY <1>0 DEF Recorded, Local, n
<1>5. Grows
  <2>0. \A t \in (n + 1)..(n + 1) : t = n + 1
    BY <1>0
  <2>1. \A t \in (n + 1)..(n + 1) : ~Recorded(lrc'.states[t].op)
    BY <1>2, <1>3, <2>0
  <2> QED
    BY <1>0, <1>2, <2>1 DEF Grows, Follows, n
<1>6. /\ lrc'.current = n + 1 /\ ~Local(n + 1) /\ n + 1 # 0 /\ n + 1 <= MaxTickets
  BY <1>0 DEF Local, n
<1>7. ~Issued(lrc'.current)
  BY <1>0, <1>6 DEF Issued, n
<1>8. StateAt(lrc', lrc'.current) = s /\ Known(lrc', lrc'.current)
  <2>1. lrc'.states[lrc'.current] = s /\ lrc'.current \in 1..Len(lrc'.states)
    BY <1>0, <1>2, <1>6
  <2> QED
    BY <1>6, <2>1 DEF StateAt, Known
<1>9. Ledger'
  <2>1. \A t \in 1..(n + 1) : t \in 1..n \/ t = n + 1
    BY <1>0
  <2>2. \A t \in 1..Len(lrc'.states) : lrc'.states[t].op \in Ops
    BY <1>2, <1>3, <2>1 DEF Ledger, n
  <2>3. \A t, u \in 1..Len(lrc'.states) : lrc'.states[t].op = lrc'.states[u].op => t = u
    <3>1. /\ \A t \in 1..n : lrc'.states[t].op = lrc.states[t].op /\ lrc.states[t].op # op
          /\ lrc'.states[n + 1].op = op
      BY <1>2, <1>3, <1>4
    <3>2. \A t, u \in 1..n : lrc.states[t].op = lrc.states[u].op => t = u
      BY DEF Ledger, n
    <3> QED
      BY <1>2, <2>1, <3>1, <3>2
  <2>4. Issued(lrc.press)'
    <3>1. Issued(lrc.press)
      BY DEF Ledger
    <3> QED
      BY <1>0, <1>2, <3>1 DEF Issued, Local, n
  <2>5. (lrc.current # 0 => Known(lrc, lrc.current))'
    BY <1>8
  <2> QED
    BY <1>0, <1>2, <1>6, <2>2, <2>3, <2>4, <2>5 DEF Ledger
<1> QED
  BY <1>0, <1>2, <1>3, <1>5, <1>6, <1>7, <1>8, <1>9 DEF Unbegun

(* cancel_arm, of a coordinator with an armed operation.                   *)
LEMMA CancelFacts ==
  ASSUME NEW l \in LrcTypes, l.armed \in 1..Len(l.states), Len(l.states) <= MaxTickets,
         NEW s \in States, s = State(l.states[l.armed].op, "CANCELLED", "USER", FALSE)
  PROVE  /\ CancelArm(l) \in LrcTypes
         /\ CancelArm(l).states = [l.states EXCEPT ![l.armed] = s] /\ CancelArm(l).local = l.local
         /\ CancelArm(l).lticket = l.lticket /\ CancelArm(l).current = l.current
         /\ CancelArm(l).stop = l.stop \cup {l.armed} /\ CancelArm(l).press = l.press
         /\ CancelArm(l).tapping = l.tapping /\ CancelArm(l).fresh = l.fresh
         /\ CancelArm(l).armed = 0 /\ CancelArm(l).submitting = l.submitting
         /\ CancelArm(l).seq = l.seq /\ CancelArm(l).fault = l.fault
<1>0. /\ ~Local(l.armed) /\ l.armed # 0 /\ StateAt(l, l.armed) = l.states[l.armed] /\ Known(l, l.armed)
      /\ l.armed \in Nat /\ l.armed \in AllTickets /\ l.stop \subseteq AllTickets
  <2>1. l.armed \in Nat /\ l.armed <= MaxTickets /\ l.stop \subseteq AllTickets
    BY LedgerTypes, TicketFacts
  <2> QED
    BY <2>1, RemoteTicket, TicketFacts
<1> DEFINE m == Stopped(l, l.armed)
<1>1. /\ m \in LrcTypes /\ m.states = l.states /\ m.local = l.local /\ m.lticket = l.lticket
      /\ m.current = l.current /\ m.stop = l.stop \cup {l.armed} /\ m.press = l.press
      /\ m.tapping = l.tapping /\ m.fresh = l.fresh /\ m.armed = l.armed
      /\ m.submitting = l.submitting /\ m.seq = l.seq /\ m.fault = l.fault
  <2>1. l.stop \cup {l.armed} \in SUBSET AllTickets
    BY <1>0
  <2> QED
    BY <2>1 DEF Stopped, LrcTypes
<1>2. CancelArm(l) = [Put(m, l.armed, s) EXCEPT !.armed = 0, !.late = FALSE]
  BY <1>0 DEF CancelArm
<1> HIDE DEF m
<1>3. Known(m, l.armed)
  BY <1>0, <1>1 DEF Known
<1> DEFINE p == Put(m, l.armed, s)
<1>4. /\ p \in LrcTypes /\ p.states = [l.states EXCEPT ![l.armed] = s]
      /\ p.local = l.local /\ p.lticket = l.lticket /\ p.current = l.current
      /\ p.stop = l.stop \cup {l.armed} /\ p.press = l.press
      /\ p.tapping = l.tapping /\ p.fresh = l.fresh /\ p.submitting = l.submitting
      /\ p.seq = l.seq /\ p.fault = l.fault
  <2>1. /\ p \in LrcTypes
        /\ p.states = (IF Local(l.armed) THEN m.states ELSE [m.states EXCEPT ![l.armed] = s])
        /\ p.local = (IF Local(l.armed) THEN s ELSE m.local)
        /\ p.lticket = m.lticket /\ p.current = m.current /\ p.stop = m.stop /\ p.press = m.press
        /\ p.tapping = m.tapping /\ p.fresh = m.fresh /\ p.submitting = m.submitting
        /\ p.seq = m.seq /\ p.fault = m.fault
    <3>1. m \in LrcTypes /\ l.armed \in Nat /\ l.armed # 0 /\ Known(m, l.armed) /\ s \in States
      BY <1>0, <1>1, <1>3
    <3> QED
      BY ONLY <3>1, PutFacts
  <2> HIDE DEF p
  <2> QED
    BY <1>0, <1>1, <2>1
<1>5. CancelArm(l) = [p EXCEPT !.armed = 0, !.late = FALSE]
  BY <1>2
<1> HIDE DEF p
<1>6. ASSUME NEW q \in LrcTypes, NEW d, d = [q EXCEPT !.armed = 0, !.late = FALSE]
      PROVE  /\ d \in LrcTypes /\ d.armed = 0
             /\ d.states = q.states /\ d.local = q.local /\ d.lticket = q.lticket
             /\ d.current = q.current /\ d.stop = q.stop /\ d.press = q.press
             /\ d.tapping = q.tapping /\ d.fresh = q.fresh /\ d.submitting = q.submitting
             /\ d.seq = q.seq /\ d.fault = q.fault
  BY ONLY <1>6 DEF LrcTypes
<1>7. p \in LrcTypes
  BY <1>4
<1> DEFINE d == CancelArm(l)
<1>8. d = [p EXCEPT !.armed = 0, !.late = FALSE]
  BY <1>5
<1> HIDE DEF d
<1>9. /\ d \in LrcTypes /\ d.armed = 0
      /\ d.states = p.states /\ d.local = p.local /\ d.lticket = p.lticket
      /\ d.current = p.current /\ d.stop = p.stop /\ d.press = p.press
      /\ d.tapping = p.tapping /\ d.fresh = p.fresh /\ d.submitting = p.submitting
      /\ d.seq = p.seq /\ d.fault = p.fault
  BY <1>6, <1>7, <1>8
<1> QED
  BY <1>4, <1>9, Zenon DEF d

(* An armed operation that is cancelled, in a coordinator whose operations *)
(* are those of lrc.                                                       *)
LEMMA CancelAdvances ==
  ASSUME ControlInv, lrc.armed # 0, NEW l \in LrcTypes, l.states = lrc.states, l.local = lrc.local,
         l.lticket = lrc.lticket, l.current = lrc.current, l.armed = lrc.armed,
         lrc.stop \subseteq l.stop, NEW c, c = CancelArm(l)
  PROVE  LET s == State(StateAt(lrc, lrc.current).op, "CANCELLED", "USER", FALSE) IN
         /\ lrc' = c => Advances(s)
         /\ ~Active(s) /\ c \in LrcTypes /\ c.armed = 0 /\ ~Busy(c)
         /\ c.submitting = l.submitting /\ c.press = l.press /\ c.tapping = l.tapping
         /\ c.fresh = l.fresh /\ c.seq = l.seq /\ c.fault = l.fault
         /\ c.states = [lrc.states EXCEPT ![lrc.armed] = s] /\ c.local = lrc.local
         /\ c.lticket = lrc.lticket /\ c.current = lrc.current /\ lrc.stop \subseteq c.stop
         /\ c.stop = l.stop \cup {lrc.armed} /\ ~Local(lrc.current) /\ lrc.armed = lrc.current
<1> DEFINE s == State(StateAt(lrc, lrc.current).op, "CANCELLED", "USER", FALSE)
<1>0. Types /\ Ledger /\ Waits /\ lrc \in LrcTypes /\ Waiting
  BY DEF ControlInv, Types, Waiting
<1>1. lrc.armed = lrc.current /\ lrc.armed \in 1..Len(lrc.states) /\ Len(lrc.states) <= MaxTickets
  BY <1>0 DEF Waits, Ledger
<1>2. ~Local(lrc.current) /\ StateAt(lrc, lrc.current) = lrc.states[lrc.current]
  BY <1>0, <1>1, RemoteTicket
<1>3. /\ s \in States /\ Progress(StateAt(lrc, lrc.current), s) /\ ~Active(s)
      /\ lrc.current # 0 /\ Known(lrc, lrc.current)
  BY <1>0, WaitingFacts
<1>4. s = State(l.states[l.armed].op, "CANCELLED", "USER", FALSE)
  BY <1>1, <1>2
<1> HIDE DEF s
<1>5. /\ c \in LrcTypes
      /\ c.states = [l.states EXCEPT ![l.armed] = s] /\ c.local = l.local
      /\ c.lticket = l.lticket /\ c.current = l.current
      /\ c.stop = l.stop \cup {l.armed} /\ c.press = l.press
      /\ c.tapping = l.tapping /\ c.fresh = l.fresh
      /\ c.armed = 0 /\ c.submitting = l.submitting
      /\ c.seq = l.seq /\ c.fault = l.fault
  BY <1>1, <1>3, <1>4, CancelFacts
<1>6. lrc' = c => Advances(s)
  BY <1>1, <1>2, <1>3, <1>5 DEF Advances
<1>7. ~Busy(c)
  <2>1. lrc.states \in Seq(States)
    BY <1>0, LedgerTypes
  <2>2. StateAt(c, c.current) = s
    BY <1>1, <1>2, <1>3, <1>5, <2>1 DEF StateAt
  <2> QED
    BY <1>3, <2>2 DEF Busy
<1> QED
  BY <1>1, <1>2, <1>3, <1>5, <1>6, <1>7 DEF s

(* lrc_command, under the gate.                                            *)
LEMMA AdmitInv ==
  ASSUME ControlInv, Admit PROVE ControlInv'
<1>0. /\ Types /\ Gates /\ Numbers /\ Ledger /\ Waits /\ work \in WorkTypes /\ ble \in BleTypes
      /\ lrc \in LrcTypes /\ ble.request \in Requestable /\ count.requests \in Nat
      /\ work.epoch \in Nat /\ ble.request.seq \in Nat
      /\ ble.request.seq <= count.requests /\ lrc.seq <= count.requests
  BY TicketFacts DEF ControlInv, Types, WorkTypes, BleTypes, CountTypes, Numbers, Requestable
<1>1. work.pc = "admit" /\ link # "off" /\ ~Submits(work) /\ UNCHANGED <<quiet, btn, cod, rt>>
  BY DeviceUp DEF Admit, Submits
<1>2. UNCHANGED <<link, maint, count, ran, last, btn, cod, rt>>
  BY <1>1 DEF quiet
<1>3. CASE Returns("DEFERRED") /\ UNCHANGED <<gate, lrc>>
  BY <1>1, <1>3, ReturnsInv
<1>4. CASE gate = Nobody /\ gate' = "work" /\ Admission(ble.request) /\ ble' = ble
  <2> DEFINE r == ble.request
             c == Claimed(work.epoch)
             l == [c EXCEPT !.seq = r.seq]
             t == TicketOf(l, r.op)
             new == Starts(r) /\ t = 0
             begun == Begun(l, r)
             Same(m) == /\ m \in LrcTypes /\ m.states = lrc.states /\ m.local = lrc.local
                        /\ m.lticket = lrc.lticket /\ m.current = lrc.current /\ m.armed = lrc.armed
                        /\ m.submitting = lrc.submitting /\ m.stop = lrc.stop /\ m.fault = lrc.fault
                        /\ m.tapping = lrc.tapping /\ m.fresh = lrc.fresh /\ m.press = lrc.press
                        /\ m.seq <= count.requests
  <2>1. Same(lrc) /\ Same(c) /\ Same(l)
    <3>1. Same(lrc)
      BY <1>0
    <3>3. Same(c)
      <4>1. c = lrc \/ c = [lrc EXCEPT !.conn = work.epoch, !.last = work.epoch, !.seq = 0]
        BY DEF Claimed
      <4> HIDE DEF c
      <4>2. CASE c = [lrc EXCEPT !.conn = work.epoch, !.last = work.epoch, !.seq = 0]
        <5>1. /\ c \in LrcTypes /\ c.states = lrc.states /\ c.local = lrc.local
              /\ c.lticket = lrc.lticket /\ c.current = lrc.current /\ c.armed = lrc.armed
              /\ c.submitting = lrc.submitting /\ c.stop = lrc.stop /\ c.fault = lrc.fault
              /\ c.tapping = lrc.tapping /\ c.fresh = lrc.fresh /\ c.press = lrc.press /\ c.seq = 0
          <6>1. lrc \in LrcTypes /\ work.epoch \in Nat
            BY <1>0
          <6> HIDE DEF Same
          <6> QED
            BY ONLY <4>2, <6>1 DEF LrcTypes
        <5> QED
          BY <1>0, <5>1
      <4> QED
        BY <3>1, <4>1, <4>2
    <3>4. ASSUME NEW q \in LrcTypes, NEW e \in Nat, NEW d, d = [q EXCEPT !.seq = e]
          PROVE  /\ d \in LrcTypes /\ d.states = q.states /\ d.local = q.local
                 /\ d.lticket = q.lticket /\ d.current = q.current /\ d.armed = q.armed
                 /\ d.submitting = q.submitting /\ d.stop = q.stop /\ d.fault = q.fault
                 /\ d.tapping = q.tapping /\ d.fresh = q.fresh /\ d.press = q.press /\ d.seq = e
      BY ONLY <3>4 DEF LrcTypes
    <3> HIDE DEF c
    <3>5. Same(l)
      <4>1. l = [c EXCEPT !.seq = r.seq]
        OBVIOUS
      <4> HIDE DEF l
      <4> QED
        BY <1>0, <3>3, <3>4, <4>1
    <3> QED
      BY <3>1, <3>3, <3>5
  <2>2. \A op : TicketOf(l, op) = TicketOf(lrc, op)
    <3>1. l.states = lrc.states /\ l.local = lrc.local /\ l.lticket = lrc.lticket /\ l.current = lrc.current
      BY <2>1
    <3>2. \A op : Tickets(l, op) = Tickets(lrc, op)
      BY <3>1 DEF Tickets
    <3>3. ASSUME NEW op PROVE (CHOOSE u \in Tickets(l, op) : TRUE) = (CHOOSE u \in Tickets(lrc, op) : TRUE)
      <4>1. Tickets(l, op) = Tickets(lrc, op)
        BY <3>2
      <4> QED
        BY <4>1, Zenon
    <3>4. ASSUME NEW op PROVE TicketOf(l, op) = TicketOf(lrc, op)
      <4>1. CASE op = NoOp
        BY <3>1, <4>1 DEF TicketOf
      <4>2. CASE op # NoOp /\ Tickets(lrc, op) = {}
        BY <3>2, <4>2 DEF TicketOf
      <4>3. CASE op # NoOp /\ Tickets(lrc, op) # {}
        <5>1. /\ TicketOf(l, op) = (CHOOSE u \in Tickets(l, op) : TRUE)
              /\ TicketOf(lrc, op) = (CHOOSE u \in Tickets(lrc, op) : TRUE)
          BY <3>2, <4>3, Zenon DEF TicketOf
        <5> QED
          BY <3>3, <5>1, Zenon
      <4> QED
        BY <4>1, <4>2, <4>3
    <3> QED
      BY <3>4
  <2>3. t \in AllTickets /\ t \in Nat /\ (t # 0 => Known(lrc, t)) /\ t = TicketOf(lrc, r.op)
    BY <1>0, <2>2, TicketOfKnown
  <2>4. \/ lrc' \in {lrc, c, l} /\ work' = LeavesWith("REFUSED")
        \/ /\ ~lrc.fault /\ ~lrc.submitting /\ new /\ MayStart(l, r) /\ lrc' = begun
           /\ work' = [Leaves(work, IF begun.submitting THEN "queue" ELSE "reply")
                         EXCEPT !.ticket = begun.current]
        \/ /\ ~lrc.fault /\ ~lrc.submitting
           /\ lrc' = l \/ (t # 0 /\ lrc' = Stopping(l, t))
           /\ work' = [Leaves(work, "reply") EXCEPT !.ticket = t]
    BY <1>4 DEF Admission
  <2>5. ASSUME NEW m, Same(m), lrc' = m PROVE CoreSame /\ GestureSame /\ lrc'.seq <= count.requests
    BY <2>5 DEF CoreSame, OpsSame, GestureSame
  <2> HIDE DEF c, l, t, begun
  <2>6. CASE lrc' \in {lrc, c, l} /\ work' = LeavesWith("REFUSED")
    <3>1. CoreSame /\ GestureSame /\ lrc'.seq <= count.requests
      BY <2>1, <2>5, <2>6
    <3> HIDE DEF Same
    <3> QED
      BY <1>1, <1>4, <2>6, <3>1, LeavesWithInv
  <2>7. CASE /\ ~lrc.fault /\ ~lrc.submitting
             /\ lrc' = l \/ (t # 0 /\ lrc' = Stopping(l, t))
             /\ work' = [Leaves(work, "reply") EXCEPT !.ticket = t]
    <3>1. /\ work' \in WorkTypes /\ work'.pc = "leave" /\ work'.to = "reply"
      BY <1>0, <2>3, <2>7 DEF Leaves, WorkTypes, WorkLabels
    <3>2. SameTurn(work, work') /\ StillAnswers /\ ~Submits(work)'
      BY <1>1, <3>1 DEF SameTurn, Submits, Asks, StillAnswers, Answered
    <3>3. ASSUME CoreSame, GestureSame, lrc'.seq <= count.requests PROVE ControlInv'
      BY <1>0, <1>1, <1>2, <1>4, <3>1, <3>2, <3>3, WorkStep
    <3>4. CASE lrc' = l
      BY <2>1, <2>5, <3>3, <3>4
    <3>5. CASE lrc' = Stopped(l, t)
      <4>1. \A q \in LrcTypes, p \in SUBSET AllTickets : LET d == [q EXCEPT !.stop = p] IN
              /\ d \in LrcTypes /\ d.states = q.states /\ d.local = q.local
              /\ d.lticket = q.lticket /\ d.current = q.current /\ d.armed = q.armed
              /\ d.submitting = q.submitting /\ d.stop = p /\ d.fault = q.fault
              /\ d.tapping = q.tapping /\ d.fresh = q.fresh /\ d.press = q.press /\ d.seq = q.seq
        BY DEF LrcTypes
      <4>2. lrc' = [l EXCEPT !.stop = l.stop \cup {t}] /\ l \in LrcTypes /\ l.stop \cup {t} \in SUBSET AllTickets
        BY <2>1, <2>3, <3>5, LedgerTypes DEF Stopped
      <4>3. CoreSame /\ GestureSame /\ lrc'.seq <= count.requests
        BY <2>1, <4>1, <4>2 DEF CoreSame, OpsSame, GestureSame
      <4> QED
        BY <3>3, <4>3
    <3>6. CASE t # 0 /\ l.armed = t /\ lrc' = CancelArm(l)
      <4> DEFINE s == State(StateAt(lrc, lrc.current).op, "CANCELLED", "USER", FALSE)
      <4>1. /\ Advances(s) /\ ~Active(s) /\ lrc' \in LrcTypes /\ lrc'.armed = 0
            /\ lrc'.submitting = lrc.submitting /\ lrc'.press = lrc.press /\ lrc'.tapping = lrc.tapping
            /\ lrc'.seq = l.seq
        BY <2>1, <3>6, CancelAdvances
      <4>2. Waiting /\ ~Submits(btn)
        BY <1>0, <2>1, <3>6 DEF Waits, Waiting
      <4>3. ~Submits(btn)'
        BY <1>2, <4>2 DEF Submits
      <4>4. lrc'.seq <= count.requests
        BY <2>1, <4>1
      <4> HIDE DEF Same, s
      <4>5. Types' /\ Gates' /\ Numbers'
        BY <1>0, <1>1, <1>2, <1>4, <3>1, <4>1, <4>4 DEF Types, Gates, Numbers, Nobody
      <4>6. count.taps \in Nat /\ (lrc'.tapping => HasRoom(lrc.lticket, count.taps))
        BY <1>0, <4>1, TicketFacts DEF Types, CountTypes, Ledger
      <4> QED
        BY <1>1, <1>2, <1>4, <2>7, <3>2, <4>1, <4>2, <4>3, <4>5, <4>6, WaitEnds
    <3> QED
      BY <2>7, <3>4, <3>5, <3>6 DEF Stopping
  <2>8. CASE /\ ~lrc.fault /\ ~lrc.submitting /\ new /\ MayStart(l, r) /\ lrc' = begun
             /\ work' = [Leaves(work, IF begun.submitting THEN "queue" ELSE "reply")
                           EXCEPT !.ticket = begun.current]
    <3> DEFINE n == Len(lrc.states)
               x == State(r.op, "STARTING", "NONE", FALSE)
    <3>1. r.op \in Ops /\ r.cmd \in {"START", "ARM"} /\ r.op # NoOp
      BY <1>0, <2>8 DEF Starts, Requestable
    <3>2. Tickets(lrc, r.op) = {}
      <4>1. ASSUME Tickets(lrc, r.op) # {} PROVE FALSE
        <5>1. TicketOf(lrc, r.op) = CHOOSE u \in Tickets(lrc, r.op) : TRUE
          BY <3>1, <4>1, Zenon DEF TicketOf
        <5>2. TicketOf(lrc, r.op) \in Tickets(lrc, r.op)
          BY <4>1, <5>1
        <5>3. 0 \notin Tickets(lrc, r.op)
          BY DEF Tickets
        <5> QED
          BY <2>3, <2>8, <5>2, <5>3
      <4> QED
        BY <4>1
    <3>3. ~Recorded(r.op)
      <4>1. r.op \in 1..LocalBase /\ LocalBase \in Nat
        BY <3>1, TicketFacts
      <4> QED
        BY <3>2, <4>1 DEF Tickets, Recorded, Local
    <3>4. ~Busy(lrc) /\ n < MaxTickets /\ n \in Nat
      <4>1. ~Busy(l) /\ Len(l.states) < MaxTickets
        BY <2>8 DEF MayStart
      <4>2. l.states = lrc.states /\ l.local = lrc.local /\ l.current = lrc.current
        BY <2>1
      <4>3. n \in Nat
        BY <1>0, LedgerTypes
      <4> QED
        BY <4>1, <4>2, <4>3 DEF Busy, StateAt
    <3>5. lrc.armed = 0 /\ ~Submits(btn)
      <4>1. lrc.armed # 0 => Waiting
        BY DEF Waiting
      <4> QED
        BY <1>0, <2>8, <3>4, <4>1, WaitingFacts DEF Waits
    <3>6. PICK a \in Nat, b \in BOOLEAN :
            /\ begun = [l EXCEPT !.states = Append(l.states, x), !.current = Len(l.states) + 1,
                                 !.late = FALSE, !.armed = a, !.submitting = b]
            /\ \/ r.cmd = "ARM" /\ a = n + 1 /\ b = FALSE
               \/ r.cmd = "START" /\ a = 0 /\ b = TRUE
      <4>1. l.states = lrc.states /\ l.armed = 0
        BY <2>1, <3>5
      <4>2. CASE r.cmd = "ARM"
        <5>1. begun = [l EXCEPT !.states = Append(l.states, x), !.current = Len(l.states) + 1,
                                !.late = FALSE, !.armed = n + 1, !.submitting = FALSE]
          BY <4>1, <4>2 DEF begun, Begun
        <5>2. n + 1 \in Nat
          BY <3>4
        <5> QED
          BY <4>2, <5>1, <5>2
      <4>3. CASE r.cmd = "START"
        <5>1. begun = [l EXCEPT !.states = Append(l.states, x), !.current = Len(l.states) + 1,
                                !.late = FALSE, !.armed = l.armed, !.submitting = TRUE]
          BY <4>1, <4>3 DEF begun, Begun
        <5>2. begun = [l EXCEPT !.states = Append(l.states, x), !.current = Len(l.states) + 1,
                                !.late = FALSE, !.armed = 0, !.submitting = TRUE]
          BY <4>1, <5>1
        <5> QED
          BY <4>3, <5>2
      <4> QED
        BY <3>1, <4>2, <4>3
    <3>7. /\ l \in LrcTypes /\ l.states = lrc.states /\ l.local = lrc.local /\ l.lticket = lrc.lticket
          /\ l.stop = lrc.stop /\ l.press = lrc.press /\ l.tapping = lrc.tapping
          /\ l.seq <= count.requests
      BY <2>1
    <3>8. x \in States
      <4>1. r.op \in 0..(LocalBase + MaxTaps)
        BY <3>1, TicketFacts
      <4> QED
        BY <4>1, RankFacts, StateTypes
    <3> HIDE DEF x, Same
    <3>9. /\ Append(l.states, x) \in Seq(States) /\ Len(Append(l.states, x)) = n + 1
          /\ Append(l.states, x)[n + 1] = x /\ \A u \in 1..n : Append(l.states, x)[u] = lrc.states[u]
      <4>1. l.states \in Seq(States)
        BY <3>7, LedgerTypes
      <4> QED
        BY <3>7, <3>8, <4>1
    <3>10. ASSUME NEW q, q = Append(l.states, x)
           PROVE  /\ lrc' \in LrcTypes /\ lrc'.states = q /\ lrc'.current = n + 1
                  /\ lrc'.armed = a /\ lrc'.submitting = b /\ lrc'.local = lrc.local
                  /\ lrc'.lticket = lrc.lticket /\ lrc'.stop = lrc.stop /\ lrc'.press = lrc.press
                  /\ lrc'.tapping = lrc.tapping /\ lrc'.seq <= count.requests
      <4>1. lrc' = [l EXCEPT !.states = q, !.current = n + 1, !.late = FALSE, !.armed = a, !.submitting = b]
        BY <2>8, <3>6, <3>7, <3>10
      <4>2. n + 1 \in AllTickets /\ q \in Seq(States)
        BY <3>4, <3>9, <3>10, TicketFacts
      <4>3. l \in LrcTypes /\ a \in Nat /\ b \in BOOLEAN
        BY <3>7
      <4> HIDE DEF n
      <4>4. /\ lrc' \in LrcTypes /\ lrc'.states = q /\ lrc'.current = n + 1
            /\ lrc'.armed = a /\ lrc'.submitting = b /\ lrc'.local = l.local
            /\ lrc'.lticket = l.lticket /\ lrc'.stop = l.stop /\ lrc'.press = l.press
            /\ lrc'.tapping = l.tapping /\ lrc'.seq = l.seq
        BY ONLY <4>1, <4>2, <4>3 DEF LrcTypes
      <4> QED
        BY <3>7, <4>4
    <3>11. /\ lrc' \in LrcTypes /\ Len(lrc'.states) = n + 1 /\ lrc'.states[n + 1] = x
           /\ \A u \in 1..n : lrc'.states[u] = lrc.states[u]
           /\ lrc'.current = n + 1
           /\ lrc'.armed = a /\ lrc'.submitting = b /\ lrc'.local = lrc.local
           /\ lrc'.lticket = lrc.lticket /\ lrc'.stop = lrc.stop /\ lrc'.press = lrc.press
           /\ lrc'.tapping = lrc.tapping /\ lrc'.seq <= count.requests
      BY <3>9, <3>10
    <3>12. /\ Grows /\ Ledger' /\ ~Issued(lrc'.current) /\ lrc'.current # 0
           /\ lrc'.current \in 1..Len(lrc'.states)
           /\ Unbegun(StateAt(lrc', lrc'.current)) /\ StateAt(lrc', lrc'.current).op = r.op
      BY <1>0, <1>2, <3>1, <3>3, <3>4, <3>11, NewTicket DEF x
    <3>13. /\ work' \in WorkTypes /\ work'.pc = "leave" /\ work'.ticket = lrc'.current
           /\ work'.to = (IF b THEN "queue" ELSE "reply")
      <4>1. work' = [Leaves(work, IF b THEN "queue" ELSE "reply") EXCEPT !.ticket = lrc'.current]
        BY <2>8, <3>11
      <4>2. lrc'.current \in AllTickets
        BY <3>11 DEF LrcTypes
      <4> QED
        BY ONLY <1>0, <4>1, <4>2, b \in BOOLEAN DEF Leaves, WorkTypes, WorkLabels
    <3>14. StillAnswers
      BY <3>13 DEF StillAnswers, Answered
    <3>15. ~Submits(btn)'
      BY <1>2, <3>5 DEF Submits
    <3>16. Types' /\ Gates' /\ Numbers'
      BY <1>0, <1>1, <1>2, <1>4, <3>11, <3>13 DEF Types, Gates, Numbers, Nobody
    <3>17. CASE b
      <4>1. Asks(work)'
        BY <3>13, <3>17 DEF Asks, Submits
      <4>2. lrc'.armed = 0 /\ lrc'.submitting
        BY <3>6, <3>11, <3>17
      <4> QED
        BY <1>1, <1>4, <2>8, <3>3, <3>4, <3>11, <3>12, <3>13, <3>14, <3>15, <3>16, <4>1, <4>2,
           OperationBegins DEF Nobody
    <3>18. CASE ~b
      <4>1. ~Submits(work)'
        BY <3>13, <3>18 DEF Submits
      <4>2. lrc'.armed = lrc'.current /\ ~lrc'.submitting
        BY <3>6, <3>11, <3>18
      <4> QED
        BY <1>1, <1>4, <2>8, <3>3, <3>4, <3>11, <3>12, <3>13, <3>14, <3>15, <3>16, <4>1, <4>2,
           OperationBegins DEF Nobody
    <3> QED
      BY <3>17, <3>18
  <2> QED
    BY <2>4, <2>6, <2>7, <2>8
<1> QED
  BY <1>3, <1>4 DEF Admit

(* The work queue.                                                         *)
LEMMA WorkInv ==
  ASSUME ControlInv, Work PROVE ControlInv'
BY WorkBeginInv, CommandInv, AdmitInv, WorkLeavesInv, WorkQueueInv, WorkQueuedInv, ReplyInv,
   AgainInv, AllowInv, NotifyInv, CloseInv, ForgetInv DEF Work

-----------------------------------------------------------------------------
(* The button.                                                             *)

(* A step of the button's thread that leaves the operations alone.         *)
LEMMA ButtonStep ==
  ASSUME ControlInv, link # "off", UNCHANGED <<link, maint, ran, last, ble, work, cod, rt>>,
         CoreSame, lrc'.seq = lrc.seq, btn' \in ButtonTypes, SameTurn(btn, btn'),
         count' \in CountTypes, count'.requests = count.requests,
         IF btn'.pc = "leave" THEN gate' = "button" /\ gate = Nobody
         ELSE IF btn.pc = "leave" THEN gate' = Nobody ELSE gate' = gate,
         btn'.pc = "leave" => btn'.to \in {"idle", "queue"},
         (GestureSame /\ count' = count) \/ (Ledger' /\ Fresh')
  PROVE  ControlInv'
<1>0. Types /\ Gates /\ Numbers
  BY DEF ControlInv
<1>1. Types'
  BY <1>0 DEF Types, CoreSame, OpsSame
<1>2. Gates'
  BY <1>0 DEF Gates, Nobody
<1>3. Numbers'
  BY <1>0 DEF Numbers
<1>4. SameTurn(work, work') /\ StillAnswers
  BY DEF SameTurn, StillAnswers, Answered
<1>5. gate' = "maint" => gate = "maint"
  BY DEF Nobody
<1>6. Ledger' /\ Fresh'
  BY LedgerCalm DEF ControlInv, CoreSame
<1> QED
  BY <1>1, <1>2, <1>3, <1>4, <1>5, <1>6, GestureKeeps

(* The main thread reads the runtime's readiness before it samples.        *)
LEMMA ButtonReadsInv ==
  ASSUME ControlInv, ButtonReads PROVE ControlInv'
<1>0. Types /\ lrc \in LrcTypes /\ count \in CountTypes
  BY DEF ControlInv, Types
<1>1. /\ btn.pc = "idle" /\ link # "off"
      /\ UNCHANGED <<link, maint, count, ran, last, gate, lrc, ble, work, cod, rt>>
  BY DeviceUp DEF ButtonReads, quiet
<1>2. PICK ok \in BOOLEAN : btn' = [NoSample EXCEPT !.pc = "sample", !.ok = ok]
  BY DEF ButtonReads, MayBeReady
<1>3. btn' \in ButtonTypes /\ btn'.pc = "sample"
  BY <1>2, InitialTypes DEF ButtonTypes, ButtonLabels
<1>4. SameTurn(btn, btn')
  BY <1>1, <1>3 DEF SameTurn, Submits, Asks
<1>5. CoreSame /\ GestureSame
  BY <1>0, <1>1 DEF CoreSame, OpsSame, GestureSame
<1> QED
  BY <1>0, <1>1, <1>3, <1>4, <1>5, ButtonStep

(* It leaves the gate.                                                     *)
LEMMA ButtonLeavesInv ==
  ASSUME ControlInv, ButtonLeaves PROVE ControlInv'
<1>0. Types /\ Gates /\ lrc \in LrcTypes /\ count \in CountTypes /\ btn \in ButtonTypes
  BY DEF ControlInv, Types
<1>1. /\ btn.pc = "leave" /\ link # "off" /\ gate' = Nobody /\ btn.to \in {"idle", "queue"}
      /\ UNCHANGED <<link, maint, count, ran, last, lrc, ble, work, cod, rt>>
      /\ btn' = IF btn.to = "idle" THEN NoSample ELSE [btn EXCEPT !.pc = btn.to]
  BY <1>0, DeviceUp DEF ButtonLeaves, quiet, Gates
<1>2. btn' \in ButtonTypes /\ btn'.pc = btn.to /\ (btn.to = "queue" => btn'.ticket = btn.ticket)
  <2>1. NoSample.pc = "idle" /\ NoSample \in ButtonTypes
    BY InitialTypes DEF NoSample
  <2> QED
    BY <1>0, <1>1, <2>1 DEF ButtonTypes
<1>3. SameTurn(btn, btn')
  BY <1>1, <1>2 DEF SameTurn, Submits, Asks
<1>4. CoreSame /\ GestureSame
  BY <1>0, <1>1 DEF CoreSame, OpsSame, GestureSame
<1> QED
  BY <1>0, <1>1, <1>2, <1>3, <1>4, ButtonStep

(* long_queue, called by lrc_button_sample.                                *)
LEMMA ButtonQueueInv ==
  ASSUME ControlInv, ButtonQueue PROVE ControlInv'
<1>0. Types /\ Gates /\ Waits /\ lrc \in LrcTypes /\ count \in CountTypes
      /\ btn \in ButtonTypes /\ rt \in RuntimeTypes
  BY DEF ControlInv, Types
<1>1. /\ btn.pc = "queue" /\ link # "off" /\ Submits(btn) /\ Asks(btn)
      /\ UNCHANGED <<quiet, gate, lrc, ble, work, cod>>
  BY DeviceUp DEF ButtonQueue, Submits, Asks
<1>2. PICK ok \in MayBeReady : Queue(btn.ticket, ok) /\ btn' = [btn EXCEPT !.pc = "queued", !.ok = ok]
  BY DEF ButtonQueue
<1>3. ok \in BOOLEAN /\ (ok => Ready)
  BY DEF MayBeReady
<1>4. /\ btn' \in ButtonTypes /\ btn'.pc = "queued" /\ btn'.ok = ok /\ btn'.ticket = btn.ticket
  BY <1>0, <1>2, <1>3 DEF ButtonTypes, ButtonLabels
<1>5. UNCHANGED <<link, maint, count, ran, last, gate, lrc, ble, work, cod>>
  BY <1>1 DEF quiet
<1>6. StillAnswers
  BY <1>5 DEF StillAnswers, Answered
<1>7. CASE ~ok
  <2>1. rt' = rt
    BY <1>2, <1>7 DEF Queue
  <2>2. SameTurn(btn, btn')
    BY <1>1, <1>4, <1>7 DEF SameTurn, Submits, Asks
  <2>3. CoreSame /\ GestureSame
    BY <1>0, <1>5 DEF CoreSame, OpsSame, GestureSame
  <2> QED
    BY <1>0, <1>1, <1>4, <1>5, <2>1, <2>2, <2>3, ButtonStep
<1>8. CASE ok
  <2>1. btn.ticket = lrc.current /\ ~Submits(work)
    BY <1>0, <1>1 DEF Waits
  <2>2. rt' = [rt EXCEPT !.busy = "command", !.msg = lrc.current] /\ Ready
    BY <1>2, <1>3, <1>8, <2>1 DEF Queue
  <2>3. ~Asks(work)' /\ ~Asks(btn)' /\ (Submits(work)' <=> Submits(work)) /\ (Submits(btn)' <=> Submits(btn))
    BY <1>1, <1>4, <1>5, <1>8, <2>1 DEF Asks, Submits
  <2>4. rt' \in RuntimeTypes
    BY <1>0, <2>2 DEF RuntimeTypes, LrcTypes
  <2>5. Types' /\ Gates'
    BY <1>0, <1>1, <1>4, <1>5, <2>4 DEF Types, Gates
  <2> QED
    BY <1>1, <1>4, <1>5, <1>6, <2>2, <2>3, <2>5, QueuedInv
<1> QED
  BY <1>3, <1>7, <1>8

(* lrc_button_sample is back from the queue.                               *)
LEMMA ButtonQueuedInv ==
  ASSUME ControlInv, ButtonQueued PROVE ControlInv'
<1>0. /\ Types /\ Gates /\ Numbers /\ Waits /\ Ledger /\ btn \in ButtonTypes
      /\ lrc \in LrcTypes /\ btn.ok \in BOOLEAN
  BY DEF ControlInv, Types, ButtonTypes
<1> DEFINE l == [lrc EXCEPT !.submitting = FALSE]
<1>1. /\ btn.pc = "queued" /\ link # "off" /\ Submits(btn) /\ UNCHANGED <<quiet, ble, work, cod, rt>>
      /\ (~btn.ok => Asks(btn)) /\ (btn.ok => ~Asks(btn))
  BY DeviceUp DEF ButtonQueued, Submits, Asks
<1>2. btn.ticket = lrc.current /\ ~Submits(work) /\ ~Asks(work) /\ lrc.submitting /\ lrc.armed = 0
  BY <1>0, <1>1 DEF Waits, Asks
<1>3. UNCHANGED <<link, maint, count, ran, last, ble, work, cod, rt>>
  BY <1>1 DEF quiet
<1>4. ~Submits(work)' /\ StillAnswers
  BY <1>2, <1>3 DEF Submits, StillAnswers, Answered
<1>5. /\ l \in LrcTypes /\ l.submitting = FALSE /\ l.seq = lrc.seq /\ l.states = lrc.states
      /\ l.local = lrc.local /\ l.lticket = lrc.lticket /\ l.current = lrc.current
      /\ l.armed = lrc.armed /\ l.stop = lrc.stop /\ l.fault = lrc.fault
      /\ l.tapping = lrc.tapping /\ l.press = lrc.press /\ l.fresh = lrc.fresh
  BY <1>0 DEF LrcTypes
<1> HIDE DEF l
<1>6. ASSUME NEW f \in BOOLEAN, lrc.fault => f, ~btn.ok => f,
             lrc' = [l EXCEPT !.fault = f] \/ (lrc' = l /\ f = lrc.fault),
             btn' \in ButtonTypes, ~Submits(btn)',
             IF btn'.pc = "leave" THEN gate' = "button" /\ gate = Nobody ELSE gate' = gate,
             btn'.pc = "leave" => btn'.to \in {"idle", "queue"}
      PROVE  ControlInv'
  <2>1. /\ lrc' \in LrcTypes /\ lrc'.submitting = FALSE /\ lrc'.seq = lrc.seq /\ lrc'.fault = f
        /\ OpsSame /\ GestureSame /\ lrc'.armed = lrc.armed
    <3>1. lrc' \in LrcTypes /\ lrc'.fault = f
      BY <1>5, <1>6 DEF LrcTypes
    <3> QED
      BY <1>5, <1>6, <3>1 DEF LrcTypes, OpsSame, GestureSame
  <2>2. Types' /\ Gates' /\ Numbers'
    BY <1>0, <1>1, <1>3, <1>6, <2>1 DEF Types, Gates, Numbers, Nobody
  <2>3. Asks(work) \/ Asks(btn) => lrc'.fault
    BY <1>1, <1>2, <1>6, <2>1
  <2>4. gate' = "maint" => gate = "maint"
    BY <1>6
  <2> QED
    BY <1>1, <1>4, <1>6, <2>1, <2>2, <2>3, <2>4, SubmissionEnds
<1>7. CASE gate # Nobody /\ lrc' = [l EXCEPT !.fault = @ \/ ~btn.ok] /\ btn' = NoSample /\ gate' = gate
  <2>1. btn' \in ButtonTypes /\ btn'.pc = "idle"
    BY <1>7, InitialTypes DEF NoSample
  <2>2. ~Submits(btn)'
    BY <2>1 DEF Submits
  <2>3. lrc' = [l EXCEPT !.fault = l.fault \/ ~btn.ok] /\ (l.fault \/ ~btn.ok) \in BOOLEAN
    BY <1>7
  <2> QED
    BY <1>5, <1>6, <1>7, <2>1, <2>2, <2>3
<1>8. ASSUME gate = Nobody, gate' = "button", btn' = Leaves(btn, "idle")
      PROVE  btn' \in ButtonTypes /\ btn'.pc = "leave" /\ btn'.to = "idle" /\ ~Submits(btn)'
  <2>1. btn' \in ButtonTypes /\ btn'.pc = "leave" /\ btn'.to = "idle"
    BY <1>0, <1>8 DEF Leaves, ButtonTypes, ButtonLabels
  <2> QED
    BY <2>1 DEF Submits
<1>9. CASE gate = Nobody /\ gate' = "button" /\ btn' = Leaves(btn, "idle") /\ btn.ok /\ lrc' = l
  <2>1. lrc.fault \in BOOLEAN
    BY <1>0 DEF LrcTypes
  <2> QED
    BY <1>6, <1>8, <1>9, <2>1
<1>10. CASE /\ gate = Nobody /\ gate' = "button" /\ btn' = Leaves(btn, "idle") /\ ~btn.ok
            /\ lrc' = RefusedStart(l, btn.ticket)
  <2> DEFINE s == FailedStart(lrc.current)
  <2>3. Waiting
    BY <1>1, <1>10 DEF Waiting
  <2>4. /\ s \in States /\ Progress(StateAt(lrc, lrc.current), s) /\ ~Active(s)
        /\ lrc.current # 0 /\ lrc.current \in Nat /\ Known(lrc, lrc.current)
    BY <2>3, WaitingFacts DEF FailedStart
  <2>5. Known(l, lrc.current)
    BY <1>5, <2>4 DEF Known
  <2>6. lrc' = Put(l, lrc.current, s)
    BY <1>2, <1>10 DEF RefusedStart
  <2> HIDE DEF s
  <2>7. /\ Advances(s) /\ lrc'.armed = 0 /\ ~lrc'.submitting /\ lrc'.press = lrc.press
        /\ lrc'.tapping = lrc.tapping /\ lrc'.seq = lrc.seq /\ lrc' \in LrcTypes
    BY <1>2, <1>5, <2>4, <2>5, <2>6, PutFacts DEF Advances
  <2>8. Types' /\ Gates' /\ Numbers'
    BY <1>0, <1>1, <1>3, <1>8, <1>10, <2>7 DEF Types, Gates, Numbers, Nobody
  <2>9. count.taps \in Nat /\ (lrc'.tapping => HasRoom(lrc.lticket, count.taps))
    BY <1>0, <2>7, TicketFacts DEF Types, CountTypes, Ledger
  <2> QED
    BY <1>1, <1>3, <1>4, <1>8, <1>10, <2>3, <2>4, <2>7, <2>8, <2>9, WaitEnds
<1> QED
  BY <1>0, <1>7, <1>9, <1>10 DEF ButtonQueued, l

(* What a sample that gets the gate does besides the gesture.              *)
Samples ==
  /\ btn.pc \in {"idle", "sample"} /\ gate = Nobody /\ gate' = "button" /\ ~lrc.submitting
  /\ UNCHANGED <<link, maint, ran, last, ble, work, cod, rt>>
  /\ lrc' \in LrcTypes /\ lrc'.seq = lrc.seq
  /\ btn' = [Leaves(btn, IF lrc'.submitting THEN "queue" ELSE "idle")
               EXCEPT !.ticket = IF lrc'.submitting THEN lrc'.current ELSE 0]
  /\ count' \in CountTypes /\ count'.requests = count.requests

(* Its effect on everybody else.                                           *)
LEMMA SampleFacts ==
  ASSUME ControlInv, Samples
  PROVE  /\ link # "off" /\ Types' /\ Gates' /\ Numbers' /\ StillAnswers
         /\ ~Submits(work) /\ ~Submits(work)' /\ ~Submits(btn) /\ gate' # "maint"
         /\ lrc'.submitting => Asks(btn)' /\ btn'.ticket = lrc'.current
         /\ ~lrc'.submitting => ~Submits(btn)'
<1>0. /\ Types /\ Gates /\ Numbers /\ Waits /\ btn \in ButtonTypes /\ lrc' \in LrcTypes
      /\ btn.pc \in {"idle", "sample"} /\ gate = Nobody /\ gate' = "button" /\ ~lrc.submitting
      /\ UNCHANGED <<link, maint, ran, last, ble, work, cod, rt>> /\ lrc'.seq = lrc.seq
      /\ count' \in CountTypes /\ count'.requests = count.requests
  BY DEF ControlInv, Types, Samples
<1>1. lrc'.submitting \in BOOLEAN /\ lrc'.current \in AllTickets /\ 0 \in AllTickets
  BY <1>0, TicketFacts DEF LrcTypes
<1>2. /\ btn' \in ButtonTypes /\ btn'.pc = "leave"
      /\ btn'.to = (IF lrc'.submitting THEN "queue" ELSE "idle")
      /\ lrc'.submitting => btn'.ticket = lrc'.current
  <2>1. PICK to \in {"queue", "idle"}, k \in AllTickets :
          /\ btn' = [Leaves(btn, to) EXCEPT !.ticket = k]
          /\ to = (IF lrc'.submitting THEN "queue" ELSE "idle")
          /\ lrc'.submitting => k = lrc'.current
    <3>1. CASE lrc'.submitting
      BY <1>1, <3>1 DEF Samples
    <3>2. CASE ~lrc'.submitting
      BY <1>1, <3>2 DEF Samples
    <3> QED
      BY <3>1, <3>2
  <2>2. btn' \in ButtonTypes /\ btn'.pc = "leave" /\ btn'.to = to /\ btn'.ticket = k
    BY <1>0, <2>1 DEF Leaves, ButtonTypes, ButtonLabels
  <2> QED
    BY <2>1, <2>2
<1>3. link # "off"
  BY <1>0, DeviceUp
<1>4. ~Submits(work) /\ ~Submits(work)' /\ ~Submits(btn)
  BY <1>0 DEF Waits, Submits
<1>5. Types'
  BY <1>0, <1>2 DEF Types
<1>6. Gates'
  BY <1>0, <1>2 DEF Gates, Nobody
<1>7. Numbers' /\ StillAnswers
  BY <1>0 DEF Numbers, StillAnswers, Answered
<1>8. /\ lrc'.submitting => Asks(btn)'
      /\ ~lrc'.submitting => ~Submits(btn)'
  BY <1>2 DEF Asks, Submits
<1> QED
  BY <1>0, <1>2, <1>3, <1>4, <1>5, <1>6, <1>7, <1>8

(* A sample that leaves the operations alone, whatever the gesture does.   *)
LEMMA SampleCalm ==
  ASSUME ControlInv, Samples, OpsSame, lrc'.armed = lrc.armed, ~lrc'.submitting,
         lrc'.press \in {0, lrc.press, lrc.current}, count.taps <= count'.taps,
         lrc'.tapping => HasRoom(lrc.lticket, count'.taps),
         Fresh'
  PROVE  ControlInv'
<1>0. /\ Types /\ Ledger /\ lrc \in LrcTypes /\ count' \in CountTypes /\ count \in CountTypes
  BY DEF ControlInv, Types, Samples
<1>1. CoreSame
  BY <1>0 DEF CoreSame, LrcTypes, Samples
<1>2. SameTurn(work, work') /\ SameTurn(btn, btn')
  <2>1. ~Submits(work) /\ ~Submits(work)' /\ ~Submits(btn) /\ ~Submits(btn)'
    BY SampleFacts
  <2> QED
    BY <2>1 DEF SameTurn, Asks
<1>3. Ledger'
  <2>0. /\ lrc.lticket \in Nat /\ LocalBase \in Nat /\ count.taps \in Nat /\ count'.taps \in Nat
        /\ Len(lrc.states) \in Nat /\ lrc.current \in Nat
    BY <1>0, LedgerTypes, TicketFacts DEF CountTypes
  <2>1. Issued(0) /\ Issued(lrc.press) /\ Issued(lrc.current)
    <3>1. Issued(0)
      BY <2>0 DEF Issued, Local
    <3>2. lrc.current # 0 => Issued(lrc.current)
      BY <1>0, <2>0 DEF Ledger, Known, Issued
    <3> QED
      BY <1>0, <3>1, <3>2 DEF Ledger
  <2>2. \A t : Issued(t) => Issued(t)'
    BY OpsFacts
  <2>3. Issued(lrc.press)'
    BY <2>1, <2>2 DEF Issued
  <2>4. (lrc.current # 0 => Known(lrc, lrc.current))'
    BY <1>0, OpsFacts DEF Ledger
  <2>5. lrc.lticket <= LocalBase + count'.taps
    BY <1>0, <2>0 DEF Ledger
  <2> QED
    BY <1>0, <2>3, <2>4, <2>5 DEF Ledger, OpsSame
<1>4. /\ link # "off" /\ link' # "off" /\ Types' /\ Gates' /\ Numbers' /\ StillAnswers
      /\ gate' # "maint" /\ cod' = cod /\ rt' = rt /\ maint' = maint /\ ran' = ran /\ last' = last
  BY SampleFacts DEF Samples
<1> QED
  BY <1>1, <1>2, <1>3, <1>4, GestureKeeps

(* A new local ticket.                                                     *)
LEMMA NewLocal ==
  ASSUME Types, Ledger, lrc.tapping, NEW t, t = IF lrc.lticket = 0 THEN LocalBase + 1 ELSE lrc.lticket + 1,
         lrc' \in LrcTypes, count' = count, lrc'.states = lrc.states, lrc'.current = t,
         lrc'.lticket = t, lrc'.local = State(t, "STARTING", "NONE", FALSE),
         lrc'.stop = lrc.stop \ {lrc.lticket}, lrc'.press = 0, ~lrc'.tapping
  PROVE  /\ Grows /\ Ledger' /\ ~Issued(lrc'.current) /\ lrc'.current # 0
         /\ Unbegun(StateAt(lrc', lrc'.current)) /\ ~Recorded(StateAt(lrc', lrc'.current).op)
<1>0. /\ lrc \in LrcTypes /\ lrc.lticket \in Nat /\ LocalBase \in Nat /\ count.taps \in Nat
      /\ Len(lrc.states) \in Nat
  <2>1. lrc \in LrcTypes
    BY DEF Types
  <2> QED
    BY <2>1, LedgerTypes, TicketFacts DEF Types, CountTypes
<1>1. /\ lrc.lticket # 0 => lrc.lticket > LocalBase
      /\ lrc.lticket < LocalBase + count.taps /\ count.taps > 0
  BY DEF Ledger, HasRoom
<1>2. t \in Nat /\ t > LocalBase /\ t > lrc.lticket /\ t <= LocalBase + count.taps
  <2>1. CASE lrc.lticket = 0
    BY <1>0, <1>1, <2>1
  <2>2. CASE lrc.lticket # 0
    BY <1>0, <1>1, <2>2
  <2> QED
    BY <2>1, <2>2
<1>3. Local(t) /\ t # 0
  BY <1>0, <1>2 DEF Local
<1>4. /\ lrc'.local.op = t /\ lrc'.local.phase = "STARTING" /\ lrc'.local.reason = "NONE"
      /\ lrc'.local.created = FALSE
  BY DEF State
<1>5. StateAt(lrc', lrc'.current) = lrc'.local /\ Known(lrc', lrc'.current)
  BY <1>3 DEF StateAt, Known
<1>6. ~Issued(lrc'.current) /\ ~Recorded(t)
  BY <1>0, <1>2, <1>3 DEF Issued, Recorded
<1>7. Grows
  <2>1. \A u \in (Len(lrc.states) + 1)..Len(lrc'.states) : FALSE
    BY <1>0
  <2>2. lrc'.lticket > lrc.lticket /\ lrc'.lticket # lrc.lticket
    BY <1>0, <1>2
  <2>3. \A u \in lrc.stop : u \in lrc'.stop \/ (u = lrc.lticket /\ lrc'.lticket # lrc.lticket)
    BY <2>2
  <2>4. \A u \in 1..Len(lrc.states) : Follows(lrc.states[u], lrc'.states[u])
    BY DEF Follows
  <2>5. Len(lrc.states) <= Len(lrc'.states)
    BY <1>0
  <2> QED
    BY <2>1, <2>2, <2>3, <2>4, <2>5 DEF Grows
<1>8. Ledger'
  <2>1. Issued(lrc.press)'
    <3>1. Len(lrc'.states) \in Nat /\ lrc'.lticket \in Nat
      BY <1>0, <1>2
    <3> QED
      BY <1>0, <3>1 DEF Issued, Local
  <2>2. (lrc.current # 0 => Known(lrc, lrc.current))'
    BY <1>5
  <2>3. lrc'.lticket > LocalBase /\ lrc'.lticket <= LocalBase + count'.taps
    BY <1>2
  <2>4. lrc'.local.op = lrc'.lticket
    BY <1>4
  <2> QED
    BY <2>1, <2>2, <2>3, <2>4 DEF Ledger
<1> QED
  BY <1>3, <1>4, <1>5, <1>6, <1>7, <1>8 DEF Unbegun

(* bg_sample, and what is kept of a press.                                 *)
LEMMA DecodedFacts ==
  ASSUME NEW l \in LrcTypes, NEW e \in {"NONE", "PRESS", "SINGLE", "OTHER", "INVALID"},
         NEW d, d = Decoded(l, e)
  PROVE  /\ d \in LrcTypes /\ d.states = l.states /\ d.local = l.local /\ d.lticket = l.lticket
         /\ d.current = l.current /\ d.stop = l.stop /\ d.armed = l.armed /\ d.seq = l.seq
         /\ d.submitting = l.submitting /\ d.fault = l.fault
         /\ d.press = IF e = "PRESS" THEN l.current ELSE IF e = "SINGLE" THEN 0 ELSE l.press
         /\ d.tapping => e = "PRESS" \/ (e = "NONE" /\ l.tapping)
         /\ d.tapping /\ d.fresh => (e = "PRESS" /\ ~Busy(l)) \/ (e = "NONE" /\ l.fresh)
<1>0. l.current \in AllTickets /\ 0 \in AllTickets /\ (~Busy(l)) \in BOOLEAN
  BY TicketFacts DEF LrcTypes
<1>1. ASSUME NEW t \in BOOLEAN, NEW p \in AllTickets, NEW f \in BOOLEAN,
             d = [l EXCEPT !.tapping = t, !.press = p, !.fresh = f]
      PROVE  /\ d \in LrcTypes /\ d.states = l.states /\ d.local = l.local /\ d.lticket = l.lticket
             /\ d.current = l.current /\ d.stop = l.stop /\ d.armed = l.armed /\ d.seq = l.seq
             /\ d.submitting = l.submitting /\ d.fault = l.fault
             /\ d.press = p /\ d.tapping = t /\ d.fresh = f
  <2>1. l \in LrcTypes
    OBVIOUS
  <2> QED
    BY ONLY <1>1, <2>1 DEF LrcTypes
<1>2. ASSUME NEW t \in BOOLEAN, NEW f \in BOOLEAN, d = [l EXCEPT !.tapping = t, !.fresh = f]
      PROVE  /\ d \in LrcTypes /\ d.states = l.states /\ d.local = l.local /\ d.lticket = l.lticket
             /\ d.current = l.current /\ d.stop = l.stop /\ d.armed = l.armed /\ d.seq = l.seq
             /\ d.submitting = l.submitting /\ d.fault = l.fault
             /\ d.press = l.press /\ d.tapping = t /\ d.fresh = f
  <2>1. l \in LrcTypes
    OBVIOUS
  <2> QED
    BY ONLY <1>2, <2>1 DEF LrcTypes
<1>3. CASE e = "PRESS"
  <2>1. d = [l EXCEPT !.tapping = TRUE, !.press = l.current, !.fresh = ~Busy(l)]
    BY <1>3 DEF Decoded
  <2> QED
    BY <1>0, <1>1, <1>3, <2>1
<1>4. CASE e = "SINGLE"
  <2>1. d = [l EXCEPT !.tapping = FALSE, !.press = 0, !.fresh = FALSE]
    BY <1>4 DEF Decoded
  <2> QED
    BY <1>0, <1>1, <1>4, <2>1
<1>5. CASE e \in {"OTHER", "INVALID"}
  <2>1. d = [l EXCEPT !.tapping = FALSE, !.fresh = FALSE]
    BY <1>5 DEF Decoded
  <2> QED
    BY <1>2, <1>5, <2>1
<1>6. CASE e = "NONE"
  <2>1. d = l
    BY <1>6 DEF Decoded
  <2> QED
    BY <1>6, <2>1
<1> QED
  BY <1>3, <1>4, <1>5, <1>6

(* What a sample counts.                                                   *)
LEMMA SampleCounts ==
  ASSUME Types, Ledger, NEW e \in ButtonEvents,
         count' = IF e = "PRESS" THEN [count EXCEPT !.taps = @ + 1] ELSE count
  PROVE  /\ count' \in CountTypes /\ count'.requests = count.requests
         /\ count.taps <= count'.taps
         /\ e # "PRESS" => count' = count
         /\ e = "PRESS" => HasRoom(lrc.lticket, count'.taps)
<1>0. /\ count \in CountTypes /\ MaxTaps \in Nat /\ LocalBase \in Nat /\ lrc.lticket \in Nat
      /\ count.taps \in Nat /\ lrc.lticket <= LocalBase + count.taps
  BY LedgerTypes, TicketFacts DEF Types, CountTypes, Ledger
<1>1. CASE e = "PRESS"
  <2>1. count.taps < MaxTaps
    BY <1>1 DEF ButtonEvents
  <2>2. count' = [count EXCEPT !.taps = count.taps + 1]
    BY <1>1
  <2>3. count' \in CountTypes /\ count'.requests = count.requests /\ count'.taps = count.taps + 1
    BY <1>0, <2>1, <2>2 DEF CountTypes
  <2> QED
    BY <1>0, <1>1, <2>3 DEF HasRoom
<1>2. CASE e # "PRESS"
  BY <1>0, <1>2
<1> QED
  BY <1>1, <1>2

(* A gesture that goes on, ends, or stops what it was meant for.           *)
LEMMA GestureInv ==
  ASSUME ControlInv, Samples, NEW e \in ButtonEvents, NEW d, d = Decoded(lrc, e),
         lrc' = d \/ (e = "SINGLE" /\ lrc' = Stopped(d, lrc.press)),
         count' = IF e = "PRESS" THEN [count EXCEPT !.taps = @ + 1] ELSE count
  PROVE  ControlInv'
<1>0. Types /\ Ledger /\ Fresh /\ lrc \in LrcTypes /\ lrc.press \in AllTickets /\ ~lrc.submitting
  BY DEF ControlInv, Types, LrcTypes, Samples
<1>1. e \in {"NONE", "PRESS", "SINGLE", "OTHER", "INVALID"}
  BY DEF ButtonEvents
<1>2. /\ d \in LrcTypes /\ d.states = lrc.states /\ d.local = lrc.local /\ d.lticket = lrc.lticket
      /\ d.current = lrc.current /\ d.stop = lrc.stop /\ d.armed = lrc.armed /\ d.seq = lrc.seq
      /\ d.submitting = lrc.submitting /\ d.fault = lrc.fault
      /\ d.press = (IF e = "PRESS" THEN lrc.current ELSE IF e = "SINGLE" THEN 0 ELSE lrc.press)
      /\ d.tapping => e = "PRESS" \/ (e = "NONE" /\ lrc.tapping)
      /\ d.tapping /\ d.fresh => (e = "PRESS" /\ ~Busy(lrc)) \/ (e = "NONE" /\ lrc.fresh)
  BY <1>0, <1>1, DecodedFacts
<1>3. /\ count.taps <= count'.taps /\ (e # "PRESS" => count' = count)
      /\ (e = "PRESS" => HasRoom(lrc.lticket, count'.taps))
  <2>1. Types /\ Ledger
    BY <1>0
  <2> QED
    BY ONLY <2>1, SampleCounts, e \in ButtonEvents,
       count' = IF e = "PRESS" THEN [count EXCEPT !.taps = @ + 1] ELSE count
<1>4. /\ lrc' \in LrcTypes /\ lrc'.states = lrc.states /\ lrc'.local = lrc.local
      /\ lrc'.lticket = lrc.lticket /\ lrc'.current = lrc.current /\ lrc.stop \subseteq lrc'.stop
      /\ lrc'.armed = lrc.armed /\ lrc'.submitting = lrc.submitting /\ lrc'.fault = lrc.fault
      /\ lrc'.press = d.press /\ lrc'.tapping = d.tapping /\ lrc'.fresh = d.fresh
  <2>1. CASE lrc' = d
    BY <1>2, <2>1
  <2>2. CASE lrc' = Stopped(d, lrc.press)
    <3>1. d.stop \cup {lrc.press} \in SUBSET AllTickets
      BY <1>0, <1>2, LedgerTypes
    <3>2. /\ lrc' \in LrcTypes /\ lrc'.states = d.states /\ lrc'.local = d.local
          /\ lrc'.lticket = d.lticket /\ lrc'.current = d.current
          /\ lrc'.stop = d.stop \cup {lrc.press}
          /\ lrc'.armed = d.armed /\ lrc'.submitting = d.submitting /\ lrc'.fault = d.fault
          /\ lrc'.press = d.press /\ lrc'.tapping = d.tapping /\ lrc'.fresh = d.fresh
      BY ONLY <2>2, <3>1, <1>2 DEF Stopped, LrcTypes
    <3> QED
      BY <1>2, <3>2
  <2> QED
    BY <2>1, <2>2
<1>5. OpsSame
  BY <1>4 DEF OpsSame
<1>6. Busy(lrc') <=> Busy(lrc)
  BY <1>5, OpsFacts
<1>7. Fresh'
  BY <1>0, <1>1, <1>2, <1>4, <1>6 DEF Fresh
<1>8. lrc'.tapping => HasRoom(lrc.lticket, count'.taps)
  BY <1>0, <1>2, <1>3, <1>4 DEF Ledger
<1> QED
  BY <1>0, <1>2, <1>3, <1>4, <1>5, <1>7, <1>8, SampleCalm

(* A tap on an armed operation.                                            *)
LEMMA TapArmedInv ==
  ASSUME ControlInv, Samples, lrc.armed # 0, NEW d, d = Decoded(lrc, "SINGLE"), count' = count,
         \/ lrc' = [d EXCEPT !.armed = 0, !.late = FALSE, !.submitting = TRUE]
         \/ lrc' = CancelArm(d)
  PROVE  ControlInv'
<1>0. Types /\ lrc \in LrcTypes /\ count.taps \in Nat /\ ~lrc.submitting
      /\ UNCHANGED <<link, maint, ran, last, ble, work, cod, rt>>
  BY TicketFacts DEF ControlInv, Types, CountTypes, Samples
<1>1. /\ d \in LrcTypes /\ d.states = lrc.states /\ d.local = lrc.local /\ d.lticket = lrc.lticket
      /\ d.current = lrc.current /\ d.stop = lrc.stop /\ d.armed = lrc.armed /\ d.seq = lrc.seq
      /\ d.submitting = lrc.submitting /\ d.fault = lrc.fault
      /\ d.press = 0 /\ ~d.tapping
  BY <1>0, DecodedFacts
<1>2. /\ link # "off" /\ Types' /\ Gates' /\ Numbers' /\ StillAnswers /\ ~Submits(work)'
      /\ gate' # "maint"
      /\ lrc'.submitting => Asks(btn)' /\ btn'.ticket = lrc'.current
      /\ ~lrc'.submitting => ~Submits(btn)'
  BY SampleFacts
<1>3. CASE lrc' = [d EXCEPT !.armed = 0, !.late = FALSE, !.submitting = TRUE]
  <2>1. /\ lrc' \in LrcTypes /\ lrc'.states = d.states /\ lrc'.local = d.local
        /\ lrc'.lticket = d.lticket /\ lrc'.current = d.current /\ lrc'.stop = d.stop
        /\ lrc'.armed = 0 /\ lrc'.submitting = TRUE /\ lrc'.fault = d.fault
        /\ lrc'.press = d.press /\ lrc'.tapping = d.tapping
    BY ONLY <1>1, <1>3 DEF LrcTypes
  <2>2. OpsSame /\ lrc'.submitting /\ lrc'.armed = 0 /\ ~lrc'.tapping /\ lrc'.press = 0
    BY <1>1, <2>1 DEF OpsSame
  <2>3. UNCHANGED <<quiet, work, cod, rt>>
    BY <1>0 DEF quiet
  <2>4. Asks(btn)' /\ btn'.ticket = lrc.current
    BY <1>1, <1>2, <2>1
  <2> QED
    BY <1>2, <2>2, <2>3, <2>4, ArmedBegins
<1>4. CASE lrc' = CancelArm(d)
  <2> DEFINE s == State(StateAt(lrc, lrc.current).op, "CANCELLED", "USER", FALSE)
             c == CancelArm(d)
  <2>1. /\ lrc' = c => Advances(s)
        /\ ~Active(s) /\ c.armed = 0 /\ c.submitting = d.submitting /\ c.press = d.press
        /\ c.tapping = d.tapping
    BY <1>0, <1>1, CancelAdvances
  <2> HIDE DEF s, c
  <2>2. Advances(s) /\ lrc'.armed = 0 /\ ~lrc'.submitting /\ lrc'.press = 0 /\ ~lrc'.tapping
    BY <1>0, <1>1, <1>4, <2>1 DEF c
  <2>3. Waiting /\ ~Submits(btn)' /\ count.taps <= count'.taps
    BY <1>0, <1>2, <2>2 DEF Waiting
  <2> QED
    BY <1>0, <1>2, <2>1, <2>2, <2>3, WaitEnds
<1> QED
  BY <1>3, <1>4

(* The coordinator with a new local operation.                             *)
LEMMA LocalFacts ==
  ASSUME Types, Ledger, lrc.tapping, NEW d, d = Decoded(lrc, "SINGLE"), NEW m, m = LocalBegun(d)
  PROVE  LET t == IF lrc.lticket = 0 THEN LocalBase + 1 ELSE lrc.lticket + 1 IN
         /\ m \in LrcTypes /\ m.states = lrc.states /\ m.lticket = t /\ m.current = t
         /\ m.local = State(t, "STARTING", "NONE", FALSE) /\ m.stop = lrc.stop \ {lrc.lticket}
         /\ m.armed = lrc.armed /\ m.submitting /\ m.press = 0 /\ ~m.tapping /\ m.seq = lrc.seq
<1> DEFINE t == IF lrc.lticket = 0 THEN LocalBase + 1 ELSE lrc.lticket + 1
           s == State(t, "STARTING", "NONE", FALSE)
<1>0. lrc \in LrcTypes
  BY DEF Types
<1>1. /\ d \in LrcTypes /\ d.states = lrc.states /\ d.lticket = lrc.lticket
      /\ d.stop = lrc.stop /\ d.armed = lrc.armed /\ d.seq = lrc.seq /\ d.press = 0 /\ ~d.tapping
  BY <1>0, DecodedFacts
<1>2. t \in AllTickets /\ s \in States
  <2>0. /\ lrc.lticket \in Nat /\ LocalBase \in Nat /\ count.taps \in Nat /\ MaxTaps \in Nat
        /\ count.taps <= MaxTaps
    BY <1>0, LedgerTypes, TicketFacts DEF Types, CountTypes
  <2>1. /\ lrc.lticket # 0 => lrc.lticket > LocalBase
        /\ lrc.lticket < LocalBase + count.taps /\ count.taps > 0
    BY DEF Ledger, HasRoom
  <2>2. t \in Nat /\ t > LocalBase /\ t <= LocalBase + MaxTaps
    <3>1. CASE lrc.lticket = 0
      BY <2>0, <2>1, <3>1
    <3>2. CASE lrc.lticket # 0
      BY <2>0, <2>1, <3>2
    <3> QED
      BY <3>1, <3>2
  <2> HIDE DEF t
  <2>3. t \in AllTickets /\ t \in 0..(LocalBase + MaxTaps)
    BY <2>0, <2>2, TicketFacts
  <2> QED
    BY <2>3, RankFacts, StateTypes
<1>3. m = [d EXCEPT !.lticket = t, !.current = t, !.submitting = TRUE, !.local = s,
                    !.stop = d.stop \ {lrc.lticket}]
  BY <1>1 DEF LocalBegun
<1> HIDE DEF t, s
<1>4. /\ m \in LrcTypes /\ m.states = d.states /\ m.local = s /\ m.lticket = t
      /\ m.current = t /\ m.stop = d.stop \ {lrc.lticket} /\ m.armed = d.armed
      /\ m.submitting = TRUE /\ m.press = d.press /\ m.tapping = d.tapping /\ m.seq = d.seq
  BY ONLY <1>1, <1>2, <1>3 DEF LrcTypes
<1> QED
  BY <1>1, <1>4 DEF t, s

(* A tap that begins a recording.                                          *)
LEMMA TapBeginsInv ==
  ASSUME ControlInv, Samples, lrc.tapping, lrc.press = lrc.current, lrc.fresh,
         NEW d, d = Decoded(lrc, "SINGLE"), count' = count, lrc' = LocalBegun(d)
  PROVE  ControlInv'
<1> DEFINE t == IF lrc.lticket = 0 THEN LocalBase + 1 ELSE lrc.lticket + 1
<1>0. /\ Types /\ Ledger /\ ~lrc.submitting /\ ~Busy(lrc)
      /\ UNCHANGED <<link, maint, ran, last, ble, work, cod, rt>>
  BY DEF ControlInv, Fresh, Samples
<1>1. lrc.armed = 0
  BY <1>0, WaitingFacts DEF Waiting
<1>2. /\ lrc' \in LrcTypes /\ lrc'.states = lrc.states /\ lrc'.lticket = t /\ lrc'.current = t
      /\ lrc'.local = State(t, "STARTING", "NONE", FALSE) /\ lrc'.stop = lrc.stop \ {lrc.lticket}
      /\ lrc'.armed = lrc.armed /\ lrc'.submitting /\ lrc'.press = 0 /\ ~lrc'.tapping
  BY <1>0, LocalFacts
<1>3. /\ Grows /\ Ledger' /\ ~Issued(lrc'.current) /\ lrc'.current # 0
      /\ Unbegun(StateAt(lrc', lrc'.current)) /\ ~Recorded(StateAt(lrc', lrc'.current).op)
  BY <1>0, <1>2, NewLocal
<1>4. /\ link # "off" /\ Types' /\ Gates' /\ Numbers' /\ StillAnswers /\ ~Submits(work)'
      /\ gate' # "maint" /\ Asks(btn)' /\ btn'.ticket = lrc'.current
  BY <1>2, SampleFacts
<1>5. UNCHANGED <<quiet, cod, rt>> /\ lrc'.armed = 0
  BY <1>0, <1>1, <1>2 DEF quiet
<1> QED
  BY <1>0, <1>2, <1>3, <1>4, <1>5, OperationBegins

(* A sample that finds an arming late, or a gesture it cannot read.        *)
LEMMA SampleCancelsInv ==
  ASSUME ControlInv, Samples, lrc.armed # 0, NEW e \in ButtonEvents,
         lrc' = Decoded(CancelArm(lrc), e),
         count' = IF e = "PRESS" THEN [count EXCEPT !.taps = @ + 1] ELSE count
  PROVE  ControlInv'
<1> DEFINE s == State(StateAt(lrc, lrc.current).op, "CANCELLED", "USER", FALSE)
           c == CancelArm(lrc)
<1>0. /\ Types /\ Ledger /\ Fresh /\ lrc \in LrcTypes /\ ~lrc.submitting
      /\ e \in {"NONE", "PRESS", "SINGLE", "OTHER", "INVALID"}
      /\ UNCHANGED <<link, maint, ran, last, ble, work, cod, rt>>
  BY DEF ControlInv, Types, Samples, ButtonEvents
<1>1. /\ ~Active(s) /\ c \in LrcTypes /\ c.armed = 0 /\ ~Busy(c)
      /\ c.submitting = lrc.submitting /\ c.press = lrc.press /\ c.tapping = lrc.tapping
      /\ c.fresh = lrc.fresh /\ c.seq = lrc.seq
      /\ c.states = [lrc.states EXCEPT ![lrc.armed] = s] /\ c.local = lrc.local
      /\ c.lticket = lrc.lticket /\ c.current = lrc.current /\ lrc.stop \subseteq c.stop
      /\ ~Local(lrc.current) /\ lrc.armed = lrc.current
  BY <1>0, CancelAdvances
<1>2. /\ Waiting /\ Busy(lrc) /\ s \in States /\ Progress(StateAt(lrc, lrc.current), s)
      /\ lrc.current # 0 /\ Known(lrc, lrc.current)
  <2>1. Waiting
    BY DEF Waiting
  <2> QED
    BY <2>1, WaitingFacts
<1>3. lrc' = Decoded(c, e)
  OBVIOUS
<1> HIDE DEF s, c
<1>4. /\ lrc' \in LrcTypes /\ lrc'.states = c.states /\ lrc'.local = c.local
      /\ lrc'.lticket = c.lticket /\ lrc'.current = c.current /\ lrc'.stop = c.stop
      /\ lrc'.armed = c.armed /\ lrc'.submitting = c.submitting
      /\ lrc'.press = (IF e = "PRESS" THEN c.current ELSE IF e = "SINGLE" THEN 0 ELSE c.press)
      /\ lrc'.tapping => e = "PRESS" \/ (e = "NONE" /\ c.tapping)
  BY <1>0, <1>1, <1>3, DecodedFacts
<1>5. Advances(s)
  BY <1>1, <1>2, <1>4 DEF Advances
<1>6. /\ count.taps <= count'.taps /\ (e # "PRESS" => count' = count)
      /\ (e = "PRESS" => HasRoom(lrc.lticket, count'.taps))
  <2>1. Types /\ Ledger
    BY <1>0
  <2> QED
    BY ONLY <2>1, SampleCounts, e \in ButtonEvents,
       count' = IF e = "PRESS" THEN [count EXCEPT !.taps = @ + 1] ELSE count
<1>7. lrc'.tapping => HasRoom(lrc.lticket, count'.taps)
  BY <1>0, <1>1, <1>4, <1>6 DEF Ledger
<1>8. lrc'.press \in {0, lrc.press, lrc.current} /\ lrc'.armed = 0 /\ ~lrc'.submitting
  BY <1>0, <1>1, <1>4
<1>9. /\ link # "off" /\ Types' /\ Gates' /\ Numbers' /\ StillAnswers /\ ~Submits(work)'
      /\ gate' # "maint" /\ ~Submits(btn)'
  BY <1>8, SampleFacts
<1> QED
  BY <1>0, <1>1, <1>2, <1>5, <1>6, <1>7, <1>8, <1>9, WaitEnds

(* lrc_button_sample, under the gate.                                      *)
LEMMA ButtonSampleInv ==
  ASSUME ControlInv, ButtonSample PROVE ControlInv'
<1>0. /\ Types /\ Gates /\ Ledger /\ Waits /\ lrc \in LrcTypes /\ count \in CountTypes
      /\ btn \in ButtonTypes
  BY DEF ControlInv, Types
<1>1. /\ btn.pc \in {"idle", "sample"} /\ link # "off"
      /\ UNCHANGED <<link, maint, ran, last, ble, work, cod, rt>>
  BY DeviceUp DEF ButtonSample
<1>2. ASSUME lrc' = lrc, count' = count, btn' \in ButtonTypes,
             \/ btn'.pc = "idle" /\ gate' = gate
             \/ btn'.pc = "leave" /\ btn'.to = "idle" /\ gate = Nobody /\ gate' = "button"
      PROVE  ControlInv'
  <2>1. SameTurn(btn, btn')
    BY <1>1, <1>2 DEF SameTurn, Submits, Asks
  <2>2. CoreSame /\ GestureSame
    BY <1>0, <1>2 DEF CoreSame, OpsSame, GestureSame
  <2> QED
    BY <1>0, <1>1, <1>2, <2>1, <2>2, ButtonStep
<1>3. CASE btn' = NoSample /\ UNCHANGED <<gate, lrc, count>>
  <2>1. btn' \in ButtonTypes /\ btn'.pc = "idle"
    BY <1>3, InitialTypes DEF NoSample
  <2> QED
    BY <1>2, <1>3, <2>1
<1>4. CASE gate = Nobody /\ gate' = "button" /\ btn' = Leaves(btn, "idle") /\ UNCHANGED <<lrc, count>>
  <2>1. btn' \in ButtonTypes /\ btn'.pc = "leave" /\ btn'.to = "idle"
    BY <1>0, <1>4 DEF Leaves, ButtonTypes, ButtonLabels
  <2> QED
    BY <1>2, <1>4, <2>1
<1>5. ASSUME gate = Nobody, ~lrc.submitting, NEW e \in ButtonEvents, NEW l, NEW m,
             l = IF lrc.armed # 0 /\ (lrc.late \/ e = "INVALID") THEN CancelArm(lrc) ELSE lrc,
             m = IF e = "SINGLE" THEN Tapped(l) ELSE Decoded(l, e),
             gate' = "button", lrc' = m,
             btn' = [Leaves(btn, IF m.submitting THEN "queue" ELSE "idle")
                       EXCEPT !.ticket = IF m.submitting THEN m.current ELSE 0],
             count' = IF e = "PRESS" THEN [count EXCEPT !.taps = @ + 1] ELSE count
      PROVE  ControlInv'
  <2>0. e \in {"NONE", "PRESS", "SINGLE", "OTHER", "INVALID"} /\ (e = "SINGLE" => lrc.tapping)
    BY DEF ButtonEvents
  <2>1. count' \in CountTypes /\ count'.requests = count.requests
    BY ONLY <1>0, <1>5, SampleCounts
  <2>2. ASSUME lrc' \in LrcTypes, lrc'.seq = lrc.seq PROVE Samples
    BY <1>1, <1>5, <2>1, <2>2 DEF Samples
  <2> DEFINE d == Decoded(lrc, e)
  <2>3. /\ d \in LrcTypes /\ d.states = lrc.states /\ d.local = lrc.local /\ d.lticket = lrc.lticket
        /\ d.current = lrc.current /\ d.stop = lrc.stop /\ d.armed = lrc.armed /\ d.seq = lrc.seq
    BY <1>0, <2>0, DecodedFacts
  <2> HIDE DEF d
  <2>4. CASE lrc.armed # 0 /\ (lrc.late \/ e = "INVALID")
    <3>1. lrc' = IF e = "SINGLE" THEN Tapped(CancelArm(lrc)) ELSE Decoded(CancelArm(lrc), e)
      BY <1>5, <2>4
    <3> DEFINE c == CancelArm(lrc)
    <3>2. /\ c \in LrcTypes /\ c.seq = lrc.seq /\ ~Busy(c) /\ c.press = lrc.press
          /\ c.current = lrc.current /\ c.fresh = lrc.fresh
      BY <1>0, <2>4, CancelAdvances
    <3>3. lrc' = Decoded(c, e)
      <4>1. CASE e = "SINGLE"
        <5>1. ~(c.press = c.current /\ c.fresh)
          <6>1. Busy(lrc)
            BY <2>4, WaitingFacts DEF Waiting
          <6> QED
            BY <2>0, <3>2, <4>1, <6>1 DEF ControlInv, Fresh
        <5>2. lrc' = Tapped(c)
          BY <3>1, <4>1
        <5> HIDE DEF c
        <5> QED
          BY <3>2, <4>1, <5>1, <5>2 DEF Tapped
      <4> QED
        BY <3>1, <4>1
    <3> HIDE DEF c
    <3>4. lrc' \in LrcTypes /\ lrc'.seq = lrc.seq
      BY <2>0, <3>2, <3>3, DecodedFacts
    <3>5. Samples
      BY <2>2, <3>4
    <3> QED
      BY ONLY ControlInv, <1>5, <2>4, <3>3, <3>5, SampleCancelsInv DEF c
  <2>5. CASE ~(lrc.armed # 0 /\ (lrc.late \/ e = "INVALID"))
    <3>0. l = lrc
      BY <1>5, <2>5
    <3>1. CASE e # "SINGLE"
      <4>1. lrc' = d
        BY <1>5, <3>0, <3>1 DEF d
      <4>2. Samples
        BY <2>2, <2>3, <4>1
      <4> QED
        BY ONLY ControlInv, <1>5, <4>1, <4>2, GestureInv DEF d
    <3>2. CASE e = "SINGLE"
      <4>0. /\ lrc' = Tapped(lrc) /\ count' = count /\ d = Decoded(lrc, "SINGLE") /\ lrc.tapping
        BY <1>5, <2>0, <3>0, <3>2 DEF d
      <4>1. CASE lrc' = d
        <5>1. Samples
          BY <2>2, <2>3, <4>1
        <5> QED
          BY ONLY ControlInv, <1>5, <4>1, <5>1, GestureInv DEF d
      <4>2. CASE lrc' = Stopped(d, lrc.press)
        <5>1. lrc.press \in AllTickets /\ d.stop \subseteq AllTickets
          BY <1>0, <2>3 DEF LrcTypes
        <5>2. d.stop \cup {lrc.press} \in SUBSET AllTickets
          BY <5>1
        <5>3. lrc' \in LrcTypes /\ lrc'.seq = d.seq
          BY ONLY <2>3, <4>2, <5>2 DEF Stopped, LrcTypes
        <5>4. Samples
          BY <2>2, <2>3, <5>3
        <5> QED
          BY ONLY ControlInv, <1>5, <3>2, <4>2, <5>4, GestureInv DEF d
      <4>3. CASE /\ lrc.armed # 0
                 /\ \/ lrc' = [d EXCEPT !.armed = 0, !.late = FALSE, !.submitting = TRUE]
                    \/ lrc' = CancelArm(d)
        <5>1. lrc' \in LrcTypes /\ lrc'.seq = lrc.seq
          <6>1. CASE lrc' = [d EXCEPT !.armed = 0, !.late = FALSE, !.submitting = TRUE]
            <7>1. lrc' \in LrcTypes /\ lrc'.seq = d.seq
              BY ONLY <2>3, <6>1 DEF LrcTypes
            <7> QED
              BY <2>3, <7>1
          <6>2. CASE lrc' = CancelArm(d)
            <7> DEFINE c == CancelArm(d)
            <7>1. c \in LrcTypes /\ c.seq = d.seq
              BY <2>3, <4>3, CancelAdvances
            <7> QED
              BY <2>3, <6>2, <7>1
          <6> QED
            BY <4>3, <6>1, <6>2
        <5>2. Samples
          BY <2>2, <5>1
        <5> QED
          BY ONLY ControlInv, <4>0, <4>3, <5>2, TapArmedInv
      <4>4. CASE lrc.press = lrc.current /\ lrc.fresh /\ lrc' = LocalBegun(d)
        <5>1. Types /\ Ledger /\ lrc.tapping
          BY <1>0, <4>0
        <5>2. lrc' \in LrcTypes /\ lrc'.seq = lrc.seq
          BY ONLY <4>0, <4>4, <5>1, LocalFacts
        <5>3. Samples
          BY <2>2, <5>2
        <5> QED
          BY ONLY ControlInv, <4>0, <4>4, <5>3, TapBeginsInv
      <4>5. \/ lrc' = d \/ lrc' = Stopped(d, lrc.press)
            \/ /\ lrc.armed # 0
               /\ \/ lrc' = [d EXCEPT !.armed = 0, !.late = FALSE, !.submitting = TRUE]
                  \/ lrc' = CancelArm(d)
            \/ lrc.press = lrc.current /\ lrc.fresh /\ lrc' = LocalBegun(d)
        BY <4>0 DEF Tapped
      <4> QED
        BY <4>1, <4>2, <4>3, <4>4, <4>5
    <3> QED
      BY <3>1, <3>2
  <2> QED
    BY <2>4, <2>5
<1>6. CASE gate = Nobody /\ ~lrc.fault /\ ~lrc.submitting
  BY <1>5, <1>6 DEF ButtonSample
<1> QED
  BY <1>3, <1>4, <1>6 DEF ButtonSample

-----------------------------------------------------------------------------
(* Every step.                                                             *)

(* The invariant is inductive.                                             *)
LEMMA NextInv == ControlInv /\ [Next]_vars => ControlInv'
<1> SUFFICES ASSUME ControlInv, [Next]_vars PROVE ControlInv'
  OBVIOUS
<1>1. CASE Next
  BY <1>1, BluetoothInv, ExpireInv, WorkInv, ButtonReadsInv, ButtonSampleInv, ButtonLeavesInv,
     ButtonQueueInv, ButtonQueuedInv, CodecInv, MaintInv, RestartInv DEF Next, ButtonStarted
<1>2. CASE UNCHANGED vars
  <2>1. /\ UNCHANGED <<link, gate, lrc, ble, work, btn, cod, rt, maint, count, ran, last>>
    BY <1>2 DEF vars
  <2>2. CASE link = "off"
    <3>1. Types' /\ Gates' /\ Numbers' /\ Off'
      BY <2>1 DEF ControlInv, Types, Gates, Numbers, Off
    <3> QED
      BY <2>1, <3>1 DEF ControlInv, Ledger, Issued, Waits, Waiting, Asks, Submits, Working,
         NeverRan, Fresh, Runtime, Codecs, PublishedPhase, LoopPhase, Owned, Runs, StartedOnce,
         Recorded, Told, Kept, Holds, Answered
  <2>3. CASE link # "off"
    <3>1. Types /\ lrc \in LrcTypes /\ Types' /\ Gates' /\ Numbers'
      BY <2>1 DEF ControlInv, Types, Gates, Numbers
    <3>2. CoreSame /\ GestureSame
      BY <2>1, <3>1 DEF CoreSame, OpsSame, GestureSame
    <3>3. SameTurn(work, work') /\ SameTurn(btn, btn') /\ StillAnswers
      BY <2>1 DEF SameTurn, StillAnswers, Answered
    <3> QED
      BY <2>1, <2>3, <3>1, <3>2, <3>3, SteadyKeeps
  <2> QED
    BY <2>2, <2>3
<1> QED
  BY <1>1, <1>2

(* ControlInv holds in every state: of the five threads that share the     *)
(* coordinator, the broker and the runtime without ever waiting for each   *)
(* other, for any number of operations, requests, taps and retries.        *)
THEOREM ControlInvariant == Spec => []ControlInv
<1>1. Init => ControlInv
  BY InitInv
<1> QED
  BY <1>1, NextInv, PTL DEF Spec

-----------------------------------------------------------------------------
(* What it means for the properties.                                       *)

(* A ticket that a lookup finds is one of the operation's.                 *)
LEMMA TicketOfFacts ==
  ASSUME NEW op, op # NoOp, TicketOf(lrc, op) # 0
  PROVE  TicketOf(lrc, op) \in Tickets(lrc, op)
BY DEF TicketOf

(* The parts of DeviceOwned, from the invariant.                           *)
LEMMA OwnedFollows == ControlInv => DeviceOwned
<1> SUFFICES ASSUME ControlInv PROVE DeviceOwned
  OBVIOUS
<1>0. /\ Types /\ Gates /\ Numbers /\ Ledger /\ Waits /\ Runtime /\ Owned /\ lrc \in LrcTypes
      /\ ble \in BleTypes /\ rt \in RuntimeTypes /\ count \in CountTypes
  BY DEF ControlInv, Types
<1>1. TypeOK
  <2>1. /\ lrc.conn \in Nat /\ lrc.last \in Nat /\ lrc.states \in Seq(States)
        /\ lrc.local \in States /\ lrc.lticket \in AllTickets /\ lrc.current \in AllTickets
        /\ lrc.stop \subseteq AllTickets /\ lrc.seq \in Nat
    BY <1>0 DEF LrcTypes
  <2>2. lrc.seq \in 0..MaxRequests
    <3>1. count.requests \in 0..MaxRequests /\ MaxRequests \in Nat /\ lrc.seq <= count.requests
      BY <1>0, TicketFacts DEF CountTypes, Numbers
    <3> QED
      BY <2>1, <3>1
  <2>3. lrc.armed \in 0..Len(lrc.states)
    <3>1. Len(lrc.states) \in Nat
      BY <1>0, LedgerTypes
    <3>2. lrc.armed # 0 => lrc.armed \in 1..Len(lrc.states)
      BY <1>0 DEF Waits
    <3> QED
      BY <3>1, <3>2
  <2>4. /\ Len(lrc.states) <= MaxTickets
        /\ lrc.current # 0 => Known(lrc, lrc.current)
    BY <1>0 DEF Ledger
  <2>5. /\ (gate = "work") = (work.pc = "leave")
        /\ (gate = "button") = (btn.pc = "leave")
        /\ (gate = "codec") = (cod.pc = "leave")
        /\ (gate = "maint") = (maint \in {"prefs", "prefs_free", "pair_gate"})
    BY <1>0 DEF Gates
  <2>6. /\ link \in Conns \cup {NoConn, "off"} /\ ble.conn \in Conns \cup {NoConn}
        /\ rt.busy \in {"no", "command", "prefs", "pair"} /\ rt.msg \in AllTickets
    BY <1>0 DEF Types, BleTypes, RuntimeTypes
  <2> QED
    BY <2>1, <2>2, <2>3, <2>4, <2>5, <2>6 DEF TypeOK
<1>2. ActiveIsOwned
  <2>1. Waiting => lrc.armed = lrc.current \/ lrc.submitting
    BY <1>0 DEF Waits, Waiting, Asks
  <2>2. rt.msg # 0 => StateAt(lrc, rt.msg).phase = "STARTING"
    BY <1>0 DEF Runtime
  <2> QED
    BY <1>0, <2>1, <2>2 DEF ActiveIsOwned, Owned
<1>3. OneOwner
  <2>1. maint = "prefs" => gate = "maint"
    BY <1>0 DEF Gates
  <2>2. maint \in {"prefs", "pair"} => rt.busy \in {"prefs", "pair"} /\ maint # "off"
    BY <1>0 DEF Runtime
  <2>3. maint \in {"prefs", "pair"} => link # "off"
    BY <2>2, DeviceUp
  <2>4. maint \in {"prefs", "pair"} => cod.pc # "off"
    BY <1>0, <2>3 DEF Gates
  <2> QED
    BY <1>0, <2>1, <2>2, <2>4 DEF OneOwner, Runtime
<1> QED
  BY <1>1, <1>2, <1>3 DEF DeviceOwned

(* What the phone was told, from the invariant.                            *)
LEMMA KeptFollows == ControlInv => ToldIsKept
<1> SUFFICES ASSUME ControlInv, last.state.op # NoOp, TicketOf(lrc, last.state.op) # 0
             PROVE  LET t == TicketOf(lrc, last.state.op)
                        s == StateAt(lrc, t)
                    IN /\ last.state = s \/ Progress(last.state, s)
                       /\ last.cmd = "STOP" =>
                            StopRequested(t) \/ s.phase \notin {"STARTING", "RUNNING"}
  BY DEF ToldIsKept
<1>1. Kept(last.cmd, last.state)
  BY DEF ControlInv, Told
<1>2. TicketOf(lrc, last.state.op) \in Tickets(lrc, last.state.op)
  BY TicketOfFacts
<1>3. Holds(last.cmd, last.state, TicketOf(lrc, last.state.op))
  BY <1>1, <1>2 DEF Kept
<1> QED
  BY <1>3 DEF Holds, StopRequested

(* At every step of the five threads what is active has one owner, what is *)
(* queued is still waiting to start, and a maintenance claim owns the      *)
(* device alone (lrc, command_busy, the preferences and pairing claims).   *)
THEOREM DeviceOwnedHolds == Spec => []DeviceOwned
BY ControlInvariant, OwnedFollows, PTL

(* An operation reaches the recorder at most once, however often its START *)
(* is sent, deferred, retried or repeated over another connection.         *)
THEOREM StartedOnceHolds == Spec => []StartedOnce
<1>1. ControlInv => StartedOnce
  BY DEF ControlInv, Runs
<1> QED
  BY <1>1, ControlInvariant, PTL

(* What a reply told the phone stays true: no operation falls back behind  *)
(* the reported phase, a reported end is final, an answered STOP holds.    *)
THEOREM ToldIsKeptHolds == Spec => []ToldIsKept
BY ControlInvariant, KeptFollows, PTL

-----------------------------------------------------------------------------
(* What no step may do.                                                    *)

(* Only the button's thread takes the gate for the button.                 *)
LEMMA ButtonTakesGate ==
  ASSUME Next, gate # "button", gate' = "button" PROVE ButtonSample \/ ButtonQueued
<1>1. ~Bluetooth /\ ~Expire
  BY DEF Bluetooth, Connect, Disconnect, Request, Requested, BleOnly, Expire
<1>2. ~(WorkBegin \/ Command \/ Admit \/ WorkLeaves \/ WorkQueue \/ WorkQueued)
  BY DEF WorkBegin, Command, Admit, WorkLeaves, WorkQueue, WorkQueued, Nobody
<1>3. ~(Reply \/ Again \/ Allow \/ Notify \/ Close \/ Forget)
  BY DEF Reply, Again, Allow, Notify, Close, Forget
<1>4. ~ButtonReads /\ ~ButtonLeaves /\ ~ButtonQueue /\ ~Restart
  BY DEF ButtonReads, ButtonLeaves, ButtonQueue, Restart, Nobody
<1>5. ~Fatal /\ (\A c : ~CodecOnly(c)) /\ ~GivesUp
  BY DEF Fatal, CodecOnly, GivesUp, Nobody
<1>6. ~Refused /\ ~Collides
  BY <1>5 DEF Refused, Collides
<1>7. ~Codec
  <2>1. ~(CodecTakes \/ CodecMounts \/ CodecStarts \/ CodecLeaves \/ CodecConsents)
    BY <1>5 DEF CodecTakes, CodecMounts, CodecStarts, CodecLeaves, CodecConsents, Nobody
  <2>2. ~(CodecStays \/ CodecEvent \/ CodecStops \/ CodecDrains \/ CodecFails)
    BY <1>5 DEF CodecStays, CodecEvent, CodecStops, CodecDrains, CodecFails, Becomes
  <2>3. ~(CodecCopies \/ CodecPublishes \/ CodecEnds)
    BY <1>5, <1>6 DEF CodecCopies, CodecPublishes, CodecEnds
  <2> QED
    BY <2>1, <2>2, <2>3 DEF Codec
<1>8. ~PrefsBegin /\ ~PairBegin /\ ~MaintStarted
  BY DEF PrefsBegin, PairBegin, MaintStarted, PrefsClaim, PrefsGiveUp, PrefsRelease, PrefsFree,
     PairClaim, PairCheck, PairGiveUp, PairOwned, PairRelease, MaintStep, Nobody
<1> QED
  BY <1>1, <1>2, <1>3, <1>4, <1>7, <1>8 DEF Next, Work, ButtonStarted

(* What a sample does with the latches and the current operation.          *)
LEMMA SampleActsOnPress ==
  ASSUME ControlInv, ButtonSample, lrc.tapping
  PROVE  /\ lrc'.stop \ lrc.stop \subseteq {lrc.press, lrc.armed}
         /\ lrc'.current # lrc.current => lrc.current = lrc.press
<1> DEFINE Acts(m) == /\ m.stop \ lrc.stop \subseteq {lrc.press, lrc.armed}
                      /\ m.current # lrc.current => lrc.current = lrc.press
<1>0. Types /\ Ledger /\ lrc \in LrcTypes
  BY DEF ControlInv, Types
<1>1. ASSUME NEW e \in {"NONE", "SINGLE", "OTHER", "INVALID"}, NEW l \in LrcTypes,
             l.stop \subseteq lrc.stop \cup {lrc.armed}, l.current = lrc.current
      PROVE  Acts(Decoded(l, e))
  <2> DEFINE d == Decoded(l, e)
  <2>1. d.current = l.current /\ d.stop = l.stop
    BY <1>1, DecodedFacts
  <2> HIDE DEF d
  <2> QED
    BY <1>1, <2>1 DEF d
<1>2. Acts(Tapped(lrc))
  <2> DEFINE d == Decoded(lrc, "SINGLE")
  <2>1. /\ d \in LrcTypes /\ d.states = lrc.states /\ d.local = lrc.local /\ d.lticket = lrc.lticket
        /\ d.current = lrc.current /\ d.stop = lrc.stop /\ d.armed = lrc.armed
    BY <1>0, DecodedFacts
  <2>2. Acts(d)
    BY <2>1
  <2>3. ASSUME lrc.press = lrc.current, NEW m, m = LocalBegun(d) PROVE Acts(m)
    <3>1. m.stop = lrc.stop \ {lrc.lticket}
      BY <1>0, <2>3, LocalFacts
    <3> HIDE DEF d
    <3> QED
      BY <2>3, <3>1
  <2> HIDE DEF d
  <2>4. Acts(Stopped(d, lrc.press))
    <3>1. Stopped(d, lrc.press).stop = d.stop \cup {lrc.press}
          /\ Stopped(d, lrc.press).current = d.current
      BY <2>1 DEF Stopped, LrcTypes
    <3> QED
      BY <2>1, <3>1
  <2>5. Acts([d EXCEPT !.armed = 0, !.late = FALSE, !.submitting = TRUE])
    <3> DEFINE m == [d EXCEPT !.armed = 0, !.late = FALSE, !.submitting = TRUE]
    <3>1. m.stop = d.stop /\ m.current = d.current
      BY <2>1 DEF LrcTypes
    <3> HIDE DEF m
    <3> QED
      BY <2>1, <3>1 DEF m
  <2>6. ASSUME lrc.armed # 0, NEW m, m = CancelArm(d) PROVE Acts(m)
    <3>1. m.stop = d.stop \cup {lrc.armed} /\ m.current = lrc.current
      BY <1>0, <2>1, <2>6, CancelAdvances
    <3> QED
      BY <2>1, <3>1
  <2> HIDE DEF Acts
  <2> QED
    BY <2>2, <2>3, <2>4, <2>5, <2>6 DEF Tapped, d
<1>3. ASSUME lrc.armed # 0, NEW e \in {"NONE", "SINGLE", "OTHER", "INVALID"}, NEW m,
             m = IF e = "SINGLE" THEN Tapped(CancelArm(lrc)) ELSE Decoded(CancelArm(lrc), e)
      PROVE  Acts(m)
  <2> DEFINE c == CancelArm(lrc)
  <2>1. /\ c \in LrcTypes /\ ~Busy(c) /\ c.press = lrc.press /\ c.current = lrc.current
        /\ c.fresh = lrc.fresh /\ c.stop = lrc.stop \cup {lrc.armed}
    BY <1>0, <1>3, CancelAdvances
  <2>2. ~(c.press = c.current /\ c.fresh)
    <3>1. Busy(lrc)
      BY <1>3, WaitingFacts DEF Waiting
    <3> QED
      BY <2>1, <3>1 DEF ControlInv, Fresh
  <2> HIDE DEF c, Acts
  <2>3. m = Decoded(c, e)
    BY <1>3, <2>1, <2>2 DEF Tapped, c
  <2>4. c.stop \subseteq lrc.stop \cup {lrc.armed} /\ c.current = lrc.current
    BY <2>1
  <2> QED
    BY <1>1, <2>1, <2>3, <2>4
<1>4. Acts(lrc)
  OBVIOUS
<1>5. ASSUME NEW e \in ButtonEvents, NEW l, NEW m,
             l = IF lrc.armed # 0 /\ (lrc.late \/ e = "INVALID") THEN CancelArm(lrc) ELSE lrc,
             m = IF e = "SINGLE" THEN Tapped(l) ELSE Decoded(l, e)
      PROVE  Acts(m)
  <2>1. e \in {"NONE", "SINGLE", "OTHER", "INVALID"}
    BY DEF ButtonEvents
  <2>2. CASE lrc.armed # 0 /\ (lrc.late \/ e = "INVALID")
    <3>1. m = IF e = "SINGLE" THEN Tapped(CancelArm(lrc)) ELSE Decoded(CancelArm(lrc), e)
      BY <1>5, <2>2
    <3> HIDE DEF Acts
    <3> QED
      BY <1>3, <2>1, <2>2, <3>1
  <2>3. CASE ~(lrc.armed # 0 /\ (lrc.late \/ e = "INVALID"))
    <3>1. l = lrc /\ lrc.stop \subseteq lrc.stop \cup {lrc.armed}
      BY <1>5, <2>3
    <3> HIDE DEF Acts
    <3> QED
      BY <1>0, <1>1, <1>2, <1>5, <2>1, <3>1
  <2> QED
    BY <2>2, <2>3
<1>6. Acts(lrc')
  <2> HIDE DEF Acts
  <2> QED
    BY <1>4, <1>5 DEF ButtonSample
<1> QED
  BY <1>6

(* A start that the queue refused leaves both alone.                       *)
LEMMA QueuedActsOnNothing ==
  ASSUME ControlInv, ButtonQueued PROVE lrc'.stop = lrc.stop /\ lrc'.current = lrc.current
<1> DEFINE l == [lrc EXCEPT !.submitting = FALSE]
<1>0. lrc \in LrcTypes
  BY DEF ControlInv, Types
<1>1. l \in LrcTypes /\ l.stop = lrc.stop /\ l.current = lrc.current
  BY <1>0 DEF LrcTypes
<1> HIDE DEF l
<1>2. \/ \E f : lrc' = [l EXCEPT !.fault = f]
      \/ lrc' = l
      \/ \E t, s : lrc' = Put(l, t, s)
  BY DEF ButtonQueued, RefusedStart, l
<1>3. ASSUME NEW f, lrc' = [l EXCEPT !.fault = f] PROVE lrc'.stop = l.stop /\ lrc'.current = l.current
  BY <1>1, <1>3 DEF LrcTypes
<1>4. ASSUME NEW t, NEW s, lrc' = Put(l, t, s) PROVE lrc'.stop = l.stop /\ lrc'.current = l.current
  BY <1>1, <1>4 DEF LrcTypes, Put
<1> QED
  BY <1>1, <1>2, <1>3, <1>4

(* A tap stops the recording that was current when the button went down,   *)
(* and starts one only if nothing has begun since (lrc_button_sample,      *)
(* whatever the other threads did between press and release).              *)
THEOREM TapActsOnPressHolds == Spec => TapActsOnPress
<1> DEFINE Step == Up' /\ lrc.tapping /\ gate # "button" /\ gate' = "button" =>
                     /\ lrc'.stop \ lrc.stop \subseteq {lrc.press, lrc.armed}
                     /\ lrc'.current # lrc.current => lrc.current = lrc.press
<1>1. ControlInv /\ [Next]_vars => [Step]_vars
  <2> SUFFICES ASSUME ControlInv, Next, lrc.tapping, gate # "button", gate' = "button"
               PROVE  /\ lrc'.stop \ lrc.stop \subseteq {lrc.press, lrc.armed}
                      /\ lrc'.current # lrc.current => lrc.current = lrc.press
    OBVIOUS
  <2>1. CASE ButtonSample
    BY <2>1, SampleActsOnPress
  <2>2. CASE ButtonQueued
    BY <2>2, QueuedActsOnNothing
  <2> QED
    BY <2>1, <2>2, ButtonTakesGate
<1> QED
  BY <1>1, ControlInvariant, PTL DEF Spec, TapActsOnPress

(* While a pass is about to notify, only its own reply ends a request on a *)
(* device that stays up.                                                   *)
LEMMA OnlyNotifyEnds ==
  ASSUME ControlInv, Next, link' # "off", work.pc = "notify", ble.pending, ~ble'.pending
  PROVE  /\ work.req = ble.request /\ work.epoch = ble.epoch
         /\ link = ble.conn /\ ~ble.revoked
<1>0. ble \in BleTypes
  BY DEF ControlInv, Types
<1>1. ~Bluetooth
  <2>1. ASSUME NEW c \in Conns PROVE ~Connect(c)
    BY DEF Connect, BleOnly
  <2>2. ~Disconnect
    <3>1. \A x : [ble EXCEPT !.revoked = x].pending = ble.pending
      BY <1>0 DEF BleTypes
    <3> QED
      BY <3>1 DEF Disconnect, BleOnly
  <2>3. ASSUME NEW r PROVE ~Request(r)
    BY DEF Request
  <2> QED
    BY <2>1, <2>2, <2>3 DEF Bluetooth
<1>2. ~Expire
  <2>1. [ble EXCEPT !.late = TRUE].pending = ble.pending
    BY <1>0 DEF BleTypes
  <2> QED
    BY <2>1 DEF Expire
<1>3. ~(WorkBegin \/ Command \/ Admit \/ WorkLeaves \/ WorkQueue \/ WorkQueued \/ Reply \/ Again
        \/ Allow \/ Close \/ Forget)
  BY DEF WorkBegin, Command, Admit, WorkLeaves, WorkQueue, WorkQueued, Reply, Again, Allow, Close, Forget
<1>4. ~(ButtonReads \/ ButtonSample \/ ButtonStarted \/ Restart)
  BY DEF ButtonReads, ButtonSample, ButtonStarted, ButtonLeaves, ButtonQueue, ButtonQueued, Restart
<1>5. ~Fatal /\ (\A c : ~CodecOnly(c)) /\ ~GivesUp
  BY DEF Fatal, CodecOnly, GivesUp
<1>6. ~Refused /\ ~Collides
  BY <1>5 DEF Refused, Collides
<1>7. ~Codec
  <2>1. ~(CodecTakes \/ CodecMounts \/ CodecStarts \/ CodecLeaves \/ CodecConsents)
    BY <1>5 DEF CodecTakes, CodecMounts, CodecStarts, CodecLeaves, CodecConsents
  <2>2. ~(CodecStays \/ CodecEvent \/ CodecStops \/ CodecDrains \/ CodecFails)
    BY <1>5 DEF CodecStays, CodecEvent, CodecStops, CodecDrains, CodecFails, Becomes
  <2>3. ~(CodecCopies \/ CodecPublishes \/ CodecEnds)
    BY <1>5, <1>6 DEF CodecCopies, CodecPublishes, CodecEnds
  <2> QED
    BY <2>1, <2>2, <2>3 DEF Codec
<1>8. ~PrefsBegin /\ ~PairBegin /\ ~MaintStarted
  BY DEF PrefsBegin, PairBegin, MaintStarted, PrefsClaim, PrefsGiveUp, PrefsRelease, PrefsFree,
     PairClaim, PairCheck, PairGiveUp, PairOwned, PairRelease, MaintStep
<1>9. Notify
  BY <1>1, <1>2, <1>3, <1>4, <1>7, <1>8 DEF Next, Work
<1>10. link = ble.conn /\ Allowed
  <2>1. [ble EXCEPT !.revoked = TRUE].pending = ble.pending
    BY <1>0 DEF BleTypes
  <2> QED
    BY <1>9, <2>1 DEF Notify
<1>11. work.req = ble.request
  BY DEF ControlInv, Told, Answered
<1> QED
  BY <1>10, <1>11 DEF Allowed, Authorized

(* A reply is sent only for the request that is pending, over the          *)
(* connection that made it and while that connection is up (control_work   *)
(* and the notify hook, between which the connection may be lost).         *)
THEOREM RepliesToAskerHolds == Spec => RepliesToAsker
<1> DEFINE Step == Up' /\ work.pc = "notify" /\ ble.pending /\ ~ble'.pending =>
                     /\ work.req = ble.request /\ work.epoch = ble.epoch
                     /\ link = ble.conn /\ ~ble.revoked
<1>1. ControlInv /\ [Next]_vars => [Step]_vars
  <2> SUFFICES ASSUME ControlInv, Next, Up', work.pc = "notify", ble.pending, ~ble'.pending
               PROVE  /\ work.req = ble.request /\ work.epoch = ble.epoch
                      /\ link = ble.conn /\ ~ble.revoked
    OBVIOUS
  <2>1. link' # "off"
    BY DEF Up
  <2> QED
    BY <2>1, OnlyNotifyEnds
<1> QED
  BY <1>1, ControlInvariant, PTL DEF Spec, RepliesToAsker
=============================================================================
