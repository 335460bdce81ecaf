---------------------------- MODULE BrokerProofs ----------------------------
(***************************************************************************)
(* The durable BLE transport, for any number of connections, sessions,     *)
(* requests and failures.                                                  *)
(*                                                                         *)
(* The three threads meet in the broker for single sections only, and what *)
(* one of them saw in a section is used after the others have been there.  *)
(* The invariant says what is true in between.  It is written as a         *)
(* predicate of the broker and of the threads (Sound), so that a section   *)
(* can be followed from call to call: each of the lemmas below is one      *)
(* change of the broker under the lock, and an action is a sequence of     *)
(* them, such as expire_locked, the change of its own, and kick().         *)
(***************************************************************************)
EXTENDS SyncBroker, TLAPS

Bounds == {MaxNonces, MaxSeq, MaxConns} \subseteq Nat

ConnNumbers == 0..MaxConns
Nonces == 0..MaxNonces
SeqNumbers == 0..MaxSeq
Asked == Requests \cup {NoReq}
FrameTypes == [req : Asked, part : 0..2]
BrokerTypes ==
  [active : BOOLEAN, revoked : BOOLEAN, pending : BOOLEAN, submitting : BOOLEAN,
   completing : BOOLEAN, terminal : BOOLEAN, ok : BOOLEAN, delivering : BOOLEAN,
   queued : BOOLEAN, retiring : BOOLEAN, ever : BOOLEAN, more : BOOLEAN,
   conn : ConnNumbers, nonce : Nonces, seq : SeqNumbers, req : Asked,
   response : FrameTypes, sent : 0..1, prior : Nonces, epoch : Nat, actors : 0..3,
   fault : BOOLEAN]
RuntimeTypes ==
  [busy : {"no", "sync", "retire", "other"}, epoch : Nat, retire : Nat, msg : Asked,
   leased : BOOLEAN, faulted : BOOLEAN]
RadioTypes ==
  [pc : {"idle", "permit", "commit", "claim", "enqueue", "after", "schedule", "leave"},
   epoch : Nat, req : Asked, ok : BOOLEAN]
PumpTypes ==
  [pc : {"idle", "check", "notify", "retry", "end", "leave"}, epoch : Nat,
   conn : ConnNumbers, frame : FrameTypes, ok : BOOLEAN]
CodecTypes ==
  [pc : {"poll", "retirement", "take", "perform", "complete", "stage", "schedule", "leave",
         "done", "retire", "retired", "unlatch", "forget"},
   epoch : Nat, req : Asked, rc : {"ok", "refused", "failed"}, part : 0..2]
HeardTypes == Seq([to : Nat, frame : FrameTypes])

(* Every part is a predicate of the broker s, the hook call h, the threads *)
(* r, p and c, the runtime t and the frames f, so that it can be said of a *)
(* broker in the middle of a critical section.                             *)
Types(s, h, r, p, c, t, f) ==
  /\ s \in BrokerTypes /\ h \in Nat /\ r \in RadioTypes /\ p \in PumpTypes /\ c \in CodecTypes
  /\ t \in RuntimeTypes /\ f \in HeardTypes

(* An actor is a thread between enter() and leave().                       *)
One(x) == IF x THEN 1 ELSE 0
Acting(c) == c.pc \in {"stage", "schedule", "leave"}
Counted(s, r, p, c) ==
  s.actors = One(r.pc # "idle") + One(p.pc # "idle") + One(Acting(c))

(* An actor keeps the session it entered.                                  *)
Sessions(s, r, p, c) ==
  /\ s.active => s.epoch > 0
  /\ ~s.active => ~s.pending /\ ~s.ever /\ ~s.retiring /\ ~s.more /\ s.sent = 0
  /\ r.pc # "idle" => s.active /\ r.epoch = s.epoch /\ r.req \in Requests /\ r.req.by = s.conn
  /\ p.pc # "idle" => s.active /\ p.epoch = s.epoch
  /\ Acting(c) => s.active /\ c.epoch = s.epoch
  /\ s.retiring => s.revoked /\ ~s.pending /\ s.actors = 0 /\ s.ever

(* The flags of a request, and which thread each of them belongs to.       *)
Flags(s, r, p, c) ==
  /\ s.pending => s.active /\ s.req \in Requests /\ s.req.by = s.conn
  /\ s.submitting <=> r.pc \in {"claim", "enqueue", "after"}
  /\ s.delivering <=> p.pc \in {"check", "notify", "retry", "end"}
  /\ s.completing <=> c.pc = "stage"
  /\ s.submitting => s.pending
  /\ s.completing => s.pending /\ ~s.terminal
  /\ s.terminal => s.pending
  /\ s.delivering => s.terminal /\ ~s.submitting
  /\ s.queued => Deliverable(s)
  /\ s.more => s.terminal /\ s.sent = 0

(* The receive thread has the request alone until the runtime accepts it.  *)
Serving(c) == c.pc \in {"perform", "complete", "stage", "schedule", "leave"}
Unserved(r) == r.pc \in {"claim", "enqueue"} \/ (r.pc = "after" /\ ~r.ok)
Submits(s, r, c, t, f) ==
  /\ r.pc \in {"permit", "commit"} => ~s.pending /\ ~Serving(c)
  /\ r.pc \in {"claim", "enqueue"} => r.ok /\ s.sent = 0 /\ Len(f) = 0
  /\ Unserved(r) => s.pending /\ s.req = r.req /\ ~s.terminal /\ ~Serving(c) /\ t.msg = NoReq
  /\ r.pc = "after" /\ r.ok => t.epoch = s.epoch

(* command_busy has one owner.                                             *)
AtRest(c) == c.pc \in {"poll", "retirement", "take"}
Claims(r, c, t) ==
  /\ r.pc = "enqueue" => t.busy = "sync" /\ AtRest(c)
  /\ t.msg # NoReq => t.busy = "sync" /\ AtRest(c)
  /\ Serving(c) => t.busy = "sync"
  /\ c.pc \in {"retire", "retired", "unlatch", "forget"} => t.busy = "retire"
  /\ c.pc = "done" => t.busy \in {"sync", "retire"}
  /\ t.busy = "retire" =>
       c.pc \in {"take", "retire", "retired", "unlatch", "forget", "done"}

(* The frame to be served is the one after the frames sent.                *)
Continuing(c) == c.rc = "ok" /\ c.part < Parts(c.req.cmd)
Inside(c) == c.pc \in {"perform", "complete", "stage"}
IsNext(s, f, n) == s.sent = n - 1 /\ Len(f) = n - 1
Serves(s, c, t, f) ==
  /\ t.msg # NoReq => /\ s.pending /\ t.epoch = s.epoch /\ s.req = t.msg /\ ~s.terminal
                      /\ IsNext(s, f, 1)
  /\ Inside(c) => /\ s.pending /\ c.epoch = s.epoch /\ s.req = c.req /\ c.part \in 1..Parts(c.req.cmd)
                  /\ s.terminal => s.more /\ c.part = 2
  /\ c.pc = "perform" => /\ c.rc = "ok"
                         /\ ~s.terminal /\ (~s.revoked \/ c.part = 1) => IsNext(s, f, c.part)
  /\ c.pc = "complete" /\ c.rc # "failed" => ~s.terminal
  /\ c.pc \in {"complete", "stage"} /\ c.rc = "ok" => IsNext(s, f, c.part)
  /\ c.pc \in {"schedule", "leave"} /\ Continuing(c) =>
       /\ s.pending /\ s.req = c.req /\ c.part = 1
       /\ s.terminal => s.more
       /\ ~s.terminal /\ ~s.revoked => IsNext(s, f, 2)

(* From the last kick() of a session to the end of its retirement.         *)
Retires(s, h, c, t) ==
  /\ s.ever => t.epoch = s.epoch
  /\ h # 0 => s.retiring /\ h = s.epoch /\ t.retire = 0
  /\ t.retire # 0 => c.pc = "unlatch" \/ (s.retiring /\ t.retire = s.epoch)
  /\ c.pc \in {"retire", "retired"} => c.epoch = t.retire /\ t.retire # 0
  /\ c.pc = "take" /\ t.busy = "retire" => t.retire # 0
  /\ c.pc \in {"unlatch", "forget"} => t.epoch <= s.epoch /\ (s.active => t.epoch < s.epoch)
  /\ AtRest(c) \/ c.pc = "retire" => c.rc = "ok"
Faults(s, c, t) == s.fault => t.faulted \/ c.rc = "failed"

(* What was notified, and what is about to be.                             *)
Delivers(s, p, f) ==
  /\ \A i \in 1..Len(f) : /\ f[i].to = f[i].frame.req.by /\ f[i].frame.part = i
                          /\ f[i].frame.req = f[1].frame.req
                          /\ s.pending => f[i].frame.req = s.req
  /\ s.terminal /\ s.ok => /\ s.response.req = s.req /\ s.response.part = s.sent + 1
                           /\ ~s.more => s.response.part = Parts(s.req.cmd)
                           /\ ~(p.pc = "end" /\ p.ok) => Len(f) = s.sent
  /\ p.pc \in {"check", "notify"} => p.ok
  /\ p.pc \in {"check", "notify", "end"} /\ p.ok =>
       s.ok /\ p.frame = s.response /\ p.conn = s.conn
  /\ p.pc = "retry" => ~p.ok
  /\ p.pc = "end" /\ p.ok => Len(f) = s.sent + 1
  /\ s.active /\ ~s.revoked /\ s.ever /\ ~s.pending =>
       Len(f) > 0 /\ Len(f) = Parts(f[1].frame.req.cmd)

Sound(s, h, r, p, c, t, f) ==
  /\ Types(s, h, r, p, c, t, f) /\ Counted(s, r, p, c) /\ Sessions(s, r, p, c)
  /\ Flags(s, r, p, c) /\ Submits(s, r, c, t, f) /\ Claims(r, c, t) /\ Serves(s, c, t, f)
  /\ Retires(s, h, c, t) /\ Faults(s, c, t) /\ Delivers(s, p, f)
AllSound == Sound(b, hook, radio, pump, codec, rt, heard)
BrokerInv == clock \in {"fresh", "request", "session"} /\ AllSound

-----------------------------------------------------------------------------
(* The changes of the broker.                                              *)

(* The values everything begins with have their types.                     *)
LEMMA NoTypes ==
  ASSUME Bounds
  PROVE  /\ NoReq \in Asked /\ NoFrame \in FrameTypes /\ NoReq \notin Requests
         /\ NoBroker \in BrokerTypes /\ NoRuntime \in RuntimeTypes /\ IdleThread \in RadioTypes
         /\ IdlePump \in PumpTypes /\ IdleCodec \in CodecTypes /\ << >> \in HeardTypes
<1>1. NoReq \in Asked
  BY DEF Asked
<1>2. NoFrame \in FrameTypes
  BY <1>1 DEF NoFrame, FrameTypes
<1>3. NoReq \notin Requests
  BY DEF NoReq, Requests
<1>4. 0 \in ConnNumbers /\ 0 \in Nonces /\ 0 \in SeqNumbers
  BY DEF Bounds, ConnNumbers, Nonces, SeqNumbers
<1>5. NoBroker \in BrokerTypes
  BY <1>1, <1>2, <1>4 DEF NoBroker, BrokerTypes, NoNonce
<1>6. NoRuntime \in RuntimeTypes /\ IdleThread \in RadioTypes
  BY <1>1 DEF NoRuntime, RuntimeTypes, IdleThread, RadioTypes
<1>7. IdlePump \in PumpTypes /\ IdleCodec \in CodecTypes
  BY <1>1, <1>2, <1>4 DEF IdlePump, PumpTypes, IdleCodec, CodecTypes
<1>8. << >> \in HeardTypes
  BY DEF HeardTypes
<1> QED
  BY <1>1, <1>2, <1>3, <1>5, <1>6, <1>7, <1>8

(* A request names a connection, a nonce and a sequence number.            *)
LEMMA RequestFacts ==
  ASSUME Bounds, NEW q \in Requests
  PROVE  /\ q \in Asked /\ q # NoReq /\ q.by \in ConnNumbers /\ q.nonce \in Nonces
         /\ q.seq \in SeqNumbers /\ Parts(q.cmd) \in 1..2
<1>1. q.by \in 1..MaxConns /\ q.nonce \in 1..MaxNonces /\ q.seq \in 1..MaxSeq
  BY DEF Requests
<1>2. q.by \in 0..MaxConns /\ q.nonce \in 0..MaxNonces /\ q.seq \in 0..MaxSeq
  BY <1>1 DEF Bounds
<1> QED
  BY <1>2, NoTypes DEF Asked, Parts, ConnNumbers, Nonces, SeqNumbers

(* A session may be revoked at any moment.                                 *)
LEMMA Revoked ==
  ASSUME Bounds, NEW s, NEW h, NEW r, NEW p, NEW c, NEW t, NEW f, Sound(s, h, r, p, c, t, f),
         NEW s2, s2 = [s EXCEPT !.revoked = TRUE]
  PROVE  Sound(s2, h, r, p, c, t, f)
<1>1. Types(s2, h, r, p, c, t, f)
  BY DEF Sound, Types, BrokerTypes
<1>2. Counted(s2, r, p, c)
  BY DEF Sound, Types, Counted, BrokerTypes, RadioTypes, PumpTypes, CodecTypes, One, Acting
<1>3. Sessions(s2, r, p, c)
  BY DEF Sound, Types, Sessions, BrokerTypes, RadioTypes, PumpTypes, CodecTypes, Acting
<1>4. Flags(s2, r, p, c)
  BY DEF Sound, Types, Flags, BrokerTypes, RadioTypes, PumpTypes, CodecTypes, Deliverable
<1>5. Submits(s2, r, c, t, f)
  BY DEF Sound, Types, Submits, BrokerTypes, RadioTypes, CodecTypes, RuntimeTypes, Unserved,
     Serving
<1>6. Serves(s2, c, t, f)
  BY DEF Sound, Types, Serves, BrokerTypes, CodecTypes, RuntimeTypes, Inside, IsNext, Continuing,
     Parts
<1>7. Retires(s2, h, c, t)
  BY DEF Sound, Types, Retires, BrokerTypes, CodecTypes, RuntimeTypes, AtRest
<1>8. Faults(s2, c, t)
  BY DEF Sound, Types, Faults, BrokerTypes, CodecTypes, RuntimeTypes
<1>9. Delivers(s2, p, f)
  BY DEF Sound, Types, Delivers, BrokerTypes, PumpTypes, HeardTypes, Parts
<1> QED
  BY <1>1, <1>2, <1>3, <1>4, <1>5, <1>6, <1>7, <1>8, <1>9 DEF Sound

(* kick() at the end of a session that the runtime knows of.               *)
LEMMA Retiring ==
  ASSUME Bounds, NEW s, NEW h, NEW r, NEW p, NEW c, NEW t, NEW f, Sound(s, h, r, p, c, t, f),
         Quiet(s), s.ever,
         NEW s2, s2 = [s EXCEPT !.retiring = TRUE],
         NEW h2, h2 = s.epoch
  PROVE  Sound(s2, h2, r, p, c, t, f)
<1>1. Types(s2, h2, r, p, c, t, f)
  BY DEF Sound, Types, BrokerTypes
<1>2. Counted(s2, r, p, c)
  BY DEF Sound, Types, Counted, BrokerTypes, RadioTypes, PumpTypes, CodecTypes, One, Acting
<1>3. Sessions(s2, r, p, c)
  BY DEF Sound, Types, Sessions, BrokerTypes, RadioTypes, PumpTypes, CodecTypes, Acting, Quiet
<1>4. Flags(s2, r, p, c)
  BY DEF Sound, Types, Flags, BrokerTypes, RadioTypes, PumpTypes, CodecTypes, Deliverable
<1>5. Submits(s2, r, c, t, f)
  BY DEF Sound, Types, Submits, BrokerTypes, RadioTypes, CodecTypes, RuntimeTypes, Unserved,
     Serving
<1>6. Serves(s2, c, t, f)
  BY DEF Sound, Types, Serves, BrokerTypes, CodecTypes, RuntimeTypes, Inside, IsNext, Continuing,
     Parts
<1>7. Retires(s2, h2, c, t)
  BY DEF Sound, Types, Retires, Sessions, BrokerTypes, RadioTypes, PumpTypes, CodecTypes,
     RuntimeTypes, AtRest, Acting, Quiet
<1>8. Faults(s2, c, t)
  BY DEF Sound, Types, Faults, BrokerTypes, CodecTypes, RuntimeTypes
<1>9. Delivers(s2, p, f)
  BY DEF Sound, Types, Delivers, BrokerTypes, PumpTypes, HeardTypes, Parts
<1> QED
  BY <1>1, <1>2, <1>3, <1>4, <1>5, <1>6, <1>7, <1>8, <1>9 DEF Sound

(* kick() at the end of one that it does not know of: nobody is in it.     *)
LEMMA Cleared ==
  ASSUME Bounds, NEW s, NEW h, NEW r, NEW p, NEW c, NEW t, NEW f, Sound(s, h, r, p, c, t, f),
         Quiet(s), ~s.ever,
         NEW s2, s2 = Clear(s)
  PROVE  Sound(s2, h, r, p, c, t, f)
<1>1. Types(s2, h, r, p, c, t, f)
  <2>1. s2 \in BrokerTypes
    <3>1. s.nonce \in Nonces /\ s.epoch \in Nat /\ s.actors \in 0..3 /\ s.fault \in BOOLEAN
      BY DEF Sound, Types, BrokerTypes
    <3>2. NoBroker \in BrokerTypes
      BY NoTypes
    <3> QED
      BY <3>1, <3>2 DEF Clear, BrokerTypes
  <2> QED
    BY <2>1 DEF Sound, Types
<1>2. Counted(s2, r, p, c)
  BY DEF Sound, Types, Counted, BrokerTypes, RadioTypes, PumpTypes, CodecTypes, One, Acting,
     Clear, NoBroker, Quiet
<1>3. Sessions(s2, r, p, c)
  BY DEF Sound, Types, Sessions, Counted, BrokerTypes, RadioTypes, PumpTypes, CodecTypes,
     Acting, One, Clear, NoBroker, Quiet
<1>4. Flags(s2, r, p, c)
  BY DEF Sound, Types, Flags, Counted, Sessions, BrokerTypes, RadioTypes, PumpTypes, CodecTypes,
     Deliverable, One, Acting, Clear, NoBroker, Quiet
<1>5. Submits(s2, r, c, t, f)
  BY DEF Sound, Types, Submits, Counted, BrokerTypes, RadioTypes, PumpTypes, CodecTypes,
     RuntimeTypes, Unserved, Serving, One, Acting, Clear, NoBroker, Quiet
<1>6. Serves(s2, c, t, f)
  BY DEF Sound, Types, Serves, Counted, Flags, BrokerTypes, RadioTypes, PumpTypes, CodecTypes,
     RuntimeTypes, Inside, IsNext, Continuing, Parts, One, Acting, Deliverable, Clear, NoBroker,
     Quiet
<1>7. Retires(s2, h, c, t)
  BY DEF Sound, Types, Retires, BrokerTypes, CodecTypes, RuntimeTypes, AtRest, Clear, NoBroker,
     Quiet
<1>8. Faults(s2, c, t)
  BY DEF Sound, Types, Faults, BrokerTypes, CodecTypes, RuntimeTypes, Clear, NoBroker, Quiet
<1>9. Delivers(s2, p, f)
  BY DEF Sound, Types, Delivers, Counted, BrokerTypes, RadioTypes, PumpTypes, CodecTypes,
     HeardTypes, Parts, One, Acting, Clear, NoBroker, Quiet
<1> QED
  BY <1>1, <1>2, <1>3, <1>4, <1>5, <1>6, <1>7, <1>8, <1>9 DEF Sound

(* The retirement of a session: nothing of it is left.                     *)
LEMMA RetiredWell ==
  ASSUME Bounds, NEW s, NEW h, NEW r, NEW p, NEW c, NEW t, NEW f, Sound(s, h, r, p, c, t, f),
         c.pc = "retired",
         NEW s2, s2 = Clear(s),
         NEW c2, c2 = [c EXCEPT !.pc = "unlatch"]
  PROVE  Sound(s2, h, r, p, c2, t, f)
<1>1. Types(s2, h, r, p, c2, t, f)
  <2>1. s2 \in BrokerTypes
    <3>1. s.nonce \in Nonces /\ s.epoch \in Nat /\ s.actors \in 0..3 /\ s.fault \in BOOLEAN
      BY DEF Sound, Types, BrokerTypes
    <3>2. NoBroker \in BrokerTypes
      BY NoTypes
    <3> QED
      BY <3>1, <3>2 DEF Clear, BrokerTypes
  <2>2. c2 \in CodecTypes
    BY DEF Sound, Types, CodecTypes
  <2> QED
    BY <2>1, <2>2 DEF Sound, Types
<1>2. Counted(s2, r, p, c2)
  BY DEF Sound, Types, Counted, BrokerTypes, RadioTypes, PumpTypes, CodecTypes, One, Acting,
     Clear, NoBroker
<1>3. Sessions(s2, r, p, c2)
  BY DEF Sound, Types, Sessions, Counted, Retires, BrokerTypes, RadioTypes, PumpTypes,
     CodecTypes, RuntimeTypes, Acting, One, AtRest, Clear, NoBroker
<1>4. Flags(s2, r, p, c2)
  BY DEF Sound, Types, Flags, Counted, Sessions, Retires, BrokerTypes, RadioTypes, PumpTypes,
     CodecTypes, RuntimeTypes, Deliverable, One, Acting, AtRest, Clear, NoBroker
<1>5. Submits(s2, r, c2, t, f)
  BY DEF Sound, Types, Submits, Counted, Sessions, Retires, BrokerTypes, RadioTypes, PumpTypes,
     CodecTypes, RuntimeTypes, Unserved, Serving, One, Acting, AtRest, Clear, NoBroker
<1>6. Claims(r, c2, t)
  BY DEF Sound, Types, Claims, RadioTypes, CodecTypes, RuntimeTypes, Serving, AtRest, Clear,
     NoBroker
<1>7. Serves(s2, c2, t, f)
  BY DEF Sound, Types, Serves, Counted, Claims, Sessions, Retires, BrokerTypes, RadioTypes,
     PumpTypes, CodecTypes, RuntimeTypes, Inside, IsNext, Continuing, Parts, One, Acting,
     Serving, AtRest, Clear, NoBroker
<1>8. Retires(s2, h, c2, t)
  BY DEF Sound, Types, Retires, Sessions, Claims, BrokerTypes, RadioTypes, PumpTypes,
     CodecTypes, RuntimeTypes, AtRest, Acting, Serving, Clear, NoBroker
<1>9. Faults(s2, c2, t)
  BY DEF Sound, Types, Faults, BrokerTypes, CodecTypes, RuntimeTypes, Clear, NoBroker
<1>10. Delivers(s2, p, f)
  BY DEF Sound, Types, Delivers, Counted, Sessions, Retires, BrokerTypes, RadioTypes, PumpTypes,
     CodecTypes, RuntimeTypes, HeardTypes, Parts, One, Acting, AtRest, Clear, NoBroker
<1> QED
  BY <1>1, <1>2, <1>3, <1>4, <1>5, <1>6, <1>7, <1>8, <1>9, <1>10 DEF Sound

(* schedule_delivery, by whichever thread.                                 *)
LEMMA Scheduled ==
  ASSUME Bounds, NEW s, NEW h, NEW r, NEW p, NEW c, NEW t, NEW f, Sound(s, h, r, p, c, t, f),
         Deliverable(s),
         NEW s2, s2 = [s EXCEPT !.queued = TRUE]
  PROVE  Sound(s2, h, r, p, c, t, f)
<1>1. Types(s2, h, r, p, c, t, f)
  BY DEF Sound, Types, BrokerTypes
<1>2. Counted(s2, r, p, c)
  BY DEF Sound, Types, Counted, BrokerTypes, RadioTypes, PumpTypes, CodecTypes, One, Acting
<1>3. Sessions(s2, r, p, c)
  BY DEF Sound, Types, Sessions, BrokerTypes, RadioTypes, PumpTypes, CodecTypes, Acting
<1>4. Flags(s2, r, p, c)
  BY DEF Sound, Types, Flags, BrokerTypes, RadioTypes, PumpTypes, CodecTypes, Deliverable
<1>5. Submits(s2, r, c, t, f)
  BY DEF Sound, Types, Submits, BrokerTypes, RadioTypes, CodecTypes, RuntimeTypes, Unserved,
     Serving
<1>6. Serves(s2, c, t, f)
  BY DEF Sound, Types, Serves, BrokerTypes, CodecTypes, RuntimeTypes, Inside, IsNext, Continuing,
     Parts
<1>7. Retires(s2, h, c, t)
  BY DEF Sound, Types, Retires, BrokerTypes, CodecTypes, RuntimeTypes, AtRest
<1>8. Faults(s2, c, t)
  BY DEF Sound, Types, Faults, BrokerTypes, CodecTypes, RuntimeTypes
<1>9. Delivers(s2, p, f)
  BY DEF Sound, Types, Delivers, BrokerTypes, PumpTypes, HeardTypes, Parts
<1> QED
  BY <1>1, <1>2, <1>3, <1>4, <1>5, <1>6, <1>7, <1>8, <1>9 DEF Sound

(* The first request of a session.                                         *)
LEMMA Opened ==
  ASSUME Bounds, NEW s, NEW h, NEW r, NEW p, NEW c, NEW t, NEW f, Sound(s, h, r, p, c, t, f),
         NEW q \in Requests,
         ~s.active, r.pc = "idle",
         NEW s2, s2 = [s EXCEPT !.active = TRUE, !.conn = q.by, !.nonce = q.nonce, !.epoch = @ + 1,
                            !.actors = @ + 1],
         NEW r2, r2 = [pc |-> "permit", epoch |-> s.epoch + 1, req |-> q, ok |-> FALSE]
  PROVE  Sound(s2, h, r2, p, c, t, f)
<1>a. s.actors = 0 /\ s.epoch \in Nat
  BY DEF Sound, Counted, Sessions, One, Acting, Types, BrokerTypes
<1>b. q \in Asked /\ q.by \in ConnNumbers /\ q.nonce \in Nonces
  BY RequestFacts
<1>1. Types(s2, h, r2, p, c, t, f)
  <2>1. s2 \in BrokerTypes
    <3>1. PICK e \in Nat, n \in 0..3 : e = s.epoch + 1 /\ n = s.actors + 1
      BY <1>a
    <3>2. s2 = [s EXCEPT !.active = TRUE, !.conn = q.by, !.nonce = q.nonce, !.epoch = e, !.actors = n]
      BY <3>1
    <3> QED
      BY <1>b, <3>2 DEF Sound, Types, BrokerTypes
  <2>2. r2 \in RadioTypes
    <3>1. PICK e \in Nat : e = s.epoch + 1
      BY <1>a
    <3> QED
      BY <1>b, <3>1 DEF RadioTypes
  <2> QED
    BY <2>1, <2>2 DEF Sound, Types
<1>2. Counted(s2, r2, p, c)
  BY RequestFacts
   DEF Sound, Types, Counted, BrokerTypes, RadioTypes, PumpTypes, CodecTypes, One, Acting
<1>3. Sessions(s2, r2, p, c)
  BY RequestFacts
   DEF Sound, Types, Sessions, Counted, BrokerTypes, RadioTypes, PumpTypes, CodecTypes, Acting,
      One
<1>4. Flags(s2, r2, p, c)
  BY RequestFacts
   DEF Sound, Types, Flags, Sessions, BrokerTypes, RadioTypes, PumpTypes, CodecTypes,
      Deliverable, Acting
<1>5. Submits(s2, r2, c, t, f)
  BY RequestFacts
   DEF Sound, Types, Submits, Sessions, Serves, BrokerTypes, RadioTypes, PumpTypes, CodecTypes,
      RuntimeTypes, Unserved, Serving, Acting, Inside, IsNext, Continuing, Parts
<1>6. Claims(r2, c, t)
  BY RequestFacts
   DEF Sound, Types, Claims, RadioTypes, CodecTypes, RuntimeTypes, Serving, AtRest
<1>7. Serves(s2, c, t, f)
  BY RequestFacts
   DEF Sound, Types, Serves, Sessions, BrokerTypes, RadioTypes, PumpTypes, CodecTypes,
      RuntimeTypes, Inside, IsNext, Continuing, Parts, Acting
<1>8. Retires(s2, h, c, t)
  BY RequestFacts
   DEF Sound, Types, Retires, Sessions, BrokerTypes, RadioTypes, PumpTypes, CodecTypes,
      RuntimeTypes, AtRest, Acting
<1>9. Faults(s2, c, t)
  BY RequestFacts DEF Sound, Types, Faults, BrokerTypes, CodecTypes, RuntimeTypes
<1>10. Delivers(s2, p, f)
  BY RequestFacts
   DEF Sound, Types, Delivers, Sessions, BrokerTypes, RadioTypes, PumpTypes, CodecTypes,
      HeardTypes, Parts, Acting
<1> QED
  BY <1>1, <1>2, <1>3, <1>4, <1>5, <1>6, <1>7, <1>8, <1>9, <1>10 DEF Sound

(* A later request of the session that is open.                            *)
LEMMA Continued ==
  ASSUME Bounds, NEW s, NEW h, NEW r, NEW p, NEW c, NEW t, NEW f, Sound(s, h, r, p, c, t, f),
         NEW q \in Requests,
         s.active, ~s.pending, s.actors = 0, ~s.retiring, r.pc = "idle", q.by = s.conn,
         NEW s2, s2 = [s EXCEPT !.actors = @ + 1],
         NEW r2, r2 = [pc |-> "permit", epoch |-> s.epoch, req |-> q, ok |-> FALSE]
  PROVE  Sound(s2, h, r2, p, c, t, f)
<1>1. Types(s2, h, r2, p, c, t, f)
  BY RequestFacts DEF Sound, Types, BrokerTypes, RadioTypes
<1>2. Counted(s2, r2, p, c)
  BY RequestFacts
   DEF Sound, Types, Counted, BrokerTypes, RadioTypes, PumpTypes, CodecTypes, One, Acting
<1>3. Sessions(s2, r2, p, c)
  BY RequestFacts
   DEF Sound, Types, Sessions, BrokerTypes, RadioTypes, PumpTypes, CodecTypes, Acting
<1>4. Flags(s2, r2, p, c)
  BY RequestFacts
   DEF Sound, Types, Flags, BrokerTypes, RadioTypes, PumpTypes, CodecTypes, Deliverable
<1>5. Submits(s2, r2, c, t, f)
  BY RequestFacts
   DEF Sound, Types, Submits, Counted, Serves, BrokerTypes, RadioTypes, PumpTypes, CodecTypes,
      RuntimeTypes, Unserved, Serving, One, Acting, Inside, IsNext, Continuing, Parts
<1>6. Claims(r2, c, t)
  BY RequestFacts
   DEF Sound, Types, Claims, RadioTypes, CodecTypes, RuntimeTypes, Serving, AtRest
<1>7. Serves(s2, c, t, f)
  BY RequestFacts
   DEF Sound, Types, Serves, BrokerTypes, CodecTypes, RuntimeTypes, Inside, IsNext, Continuing,
      Parts
<1>8. Retires(s2, h, c, t)
  BY RequestFacts DEF Sound, Types, Retires, BrokerTypes, CodecTypes, RuntimeTypes, AtRest
<1>9. Faults(s2, c, t)
  BY RequestFacts DEF Sound, Types, Faults, BrokerTypes, CodecTypes, RuntimeTypes
<1>10. Delivers(s2, p, f)
  BY RequestFacts DEF Sound, Types, Delivers, BrokerTypes, PumpTypes, HeardTypes, Parts
<1> QED
  BY <1>1, <1>2, <1>3, <1>4, <1>5, <1>6, <1>7, <1>8, <1>9, <1>10 DEF Sound

(* The hooks have answered.                                                *)
LEMMA Permitted ==
  ASSUME Bounds, NEW s, NEW h, NEW r, NEW p, NEW c, NEW t, NEW f, Sound(s, h, r, p, c, t, f),
         NEW x \in BOOLEAN,
         r.pc = "permit",
         NEW r2, r2 = [r EXCEPT !.pc = "commit", !.ok = x]
  PROVE  Sound(s, h, r2, p, c, t, f)
<1>1. Types(s, h, r2, p, c, t, f)
  BY DEF Sound, Types, RadioTypes
<1>2. Counted(s, r2, p, c)
  BY DEF Sound, Types, Counted, BrokerTypes, RadioTypes, PumpTypes, CodecTypes, One, Acting
<1>3. Sessions(s, r2, p, c)
  BY DEF Sound, Types, Sessions, BrokerTypes, RadioTypes, PumpTypes, CodecTypes, Acting
<1>4. Flags(s, r2, p, c)
  BY DEF Sound, Types, Flags, BrokerTypes, RadioTypes, PumpTypes, CodecTypes, Deliverable
<1>5. Submits(s, r2, c, t, f)
  BY DEF Sound, Types, Submits, BrokerTypes, RadioTypes, CodecTypes, RuntimeTypes, Unserved,
     Serving
<1>6. Claims(r2, c, t)
  BY DEF Sound, Types, Claims, RadioTypes, CodecTypes, RuntimeTypes, Serving, AtRest
<1> QED
  BY <1>1, <1>2, <1>3, <1>4, <1>5, <1>6 DEF Sound

(* A request that is permitted is pending, and no frame of it is out.      *)
LEMMA Committed ==
  ASSUME Bounds, NEW s, NEW h, NEW r, NEW p, NEW c, NEW t, NEW f, Sound(s, h, r, p, c, t, f),
         r.pc = "commit", r.ok,
         NEW s2, s2 = [s EXCEPT !.req = r.req, !.pending = TRUE, !.submitting = TRUE,
                            !.seq = r.req.seq, !.sent = 0, !.more = FALSE],
         NEW r2, r2 = [r EXCEPT !.pc = "claim"],
         NEW f2, f2 = << >>
  PROVE  Sound(s2, h, r2, p, c, t, f2)
<1>a. r.req \in Requests
  BY DEF Sound, Sessions
<1>b. r.req \in Asked /\ r.req.seq \in SeqNumbers
  BY <1>a, RequestFacts
<1>1. Types(s2, h, r2, p, c, t, f2)
  <2>1. s2 \in BrokerTypes
    <3>1. PICK z \in 0..1 : z = 0
      OBVIOUS
    <3>2. s2 = [s EXCEPT !.req = r.req, !.pending = TRUE, !.submitting = TRUE,
                         !.seq = r.req.seq, !.sent = z, !.more = FALSE]
      BY <3>1
    <3>3. s \in BrokerTypes
      BY DEF Sound, Types
    <3> QED
      BY ONLY <1>b, <3>1, <3>2, <3>3 DEF BrokerTypes
  <2>2. r2 \in RadioTypes
    BY DEF Sound, Types, RadioTypes
  <2>3. f2 \in HeardTypes
    BY NoTypes DEF Sound, Types, HeardTypes
  <2> QED
    BY <2>1, <2>2, <2>3 DEF Sound, Types
<1>2. Counted(s2, r2, p, c)
  BY DEF Sound, Types, Counted, BrokerTypes, RadioTypes, PumpTypes, CodecTypes, One, Acting
<1>3. Sessions(s2, r2, p, c)
  BY DEF Sound, Types, Sessions, Retires, Counted, BrokerTypes, RadioTypes, PumpTypes,
     CodecTypes, RuntimeTypes, Acting, AtRest, One
<1>4. Flags(s2, r2, p, c)
  BY DEF Sound, Types, Flags, Sessions, Submits, BrokerTypes, RadioTypes, PumpTypes, CodecTypes,
     RuntimeTypes, Deliverable, Acting, Unserved, Serving
<1>5. Submits(s2, r2, c, t, f2)
  BY DEF Sound, Types, Submits, Sessions, Flags, Serves, BrokerTypes, RadioTypes, PumpTypes,
     CodecTypes, RuntimeTypes, Unserved, Serving, Acting, Deliverable, Inside, IsNext,
     Continuing, Parts
<1>6. Claims(r2, c, t)
  BY DEF Sound, Types, Claims, RadioTypes, CodecTypes, RuntimeTypes, Serving, AtRest
<1>7. Serves(s2, c, t, f2)
  BY DEF Sound, Types, Serves, Submits, BrokerTypes, RadioTypes, CodecTypes, RuntimeTypes,
     Inside, IsNext, Continuing, Parts, Unserved, Serving
<1>8. Retires(s2, h, c, t)
  BY DEF Sound, Types, Retires, Submits, BrokerTypes, RadioTypes, CodecTypes, RuntimeTypes,
     AtRest, Unserved, Serving
<1>9. Faults(s2, c, t)
  BY DEF Sound, Types, Faults, BrokerTypes, CodecTypes, RuntimeTypes
<1>10. Delivers(s2, p, f2)
  BY DEF Sound, Types, Delivers, Submits, Flags, BrokerTypes, RadioTypes, PumpTypes, CodecTypes,
     RuntimeTypes, HeardTypes, Parts, Unserved, Serving, Deliverable
<1> QED
  BY <1>1, <1>2, <1>3, <1>4, <1>5, <1>6, <1>7, <1>8, <1>9, <1>10 DEF Sound

(* The runtime is claimed for the request.                                 *)
LEMMA Claimed ==
  ASSUME Bounds, NEW s, NEW h, NEW r, NEW p, NEW c, NEW t, NEW f, Sound(s, h, r, p, c, t, f),
         r.pc = "claim", t.busy = "no",
         NEW r2, r2 = [r EXCEPT !.pc = "enqueue"],
         NEW t2, t2 = [t EXCEPT !.busy = "sync"]
  PROVE  Sound(s, h, r2, p, c, t2, f)
<1>1. Types(s, h, r2, p, c, t2, f)
  BY DEF Sound, Types, RadioTypes, RuntimeTypes
<1>2. Counted(s, r2, p, c)
  BY DEF Sound, Types, Counted, BrokerTypes, RadioTypes, PumpTypes, CodecTypes, One, Acting
<1>3. Sessions(s, r2, p, c)
  BY DEF Sound, Types, Sessions, BrokerTypes, RadioTypes, PumpTypes, CodecTypes, Acting
<1>4. Flags(s, r2, p, c)
  BY DEF Sound, Types, Flags, BrokerTypes, RadioTypes, PumpTypes, CodecTypes, Deliverable
<1>5. Submits(s, r2, c, t2, f)
  BY DEF Sound, Types, Submits, BrokerTypes, RadioTypes, CodecTypes, RuntimeTypes, Unserved,
     Serving
<1>6. Claims(r2, c, t2)
  BY DEF Sound, Types, Claims, RadioTypes, CodecTypes, RuntimeTypes, Serving, AtRest
<1>7. Serves(s, c, t2, f)
  BY DEF Sound, Types, Serves, BrokerTypes, CodecTypes, RuntimeTypes, Inside, IsNext, Continuing,
     Parts
<1>8. Retires(s, h, c, t2)
  BY DEF Sound, Types, Retires, BrokerTypes, CodecTypes, RuntimeTypes, AtRest
<1>9. Faults(s, c, t2)
  BY DEF Sound, Types, Faults, BrokerTypes, CodecTypes, RuntimeTypes
<1> QED
  BY <1>1, <1>2, <1>3, <1>4, <1>5, <1>6, <1>7, <1>8, <1>9 DEF Sound

(* It is refused.                                                          *)
LEMMA Unclaimed ==
  ASSUME Bounds, NEW s, NEW h, NEW r, NEW p, NEW c, NEW t, NEW f, Sound(s, h, r, p, c, t, f),
         r.pc = "claim",
         NEW r2, r2 = [r EXCEPT !.pc = "after", !.ok = FALSE]
  PROVE  Sound(s, h, r2, p, c, t, f)
<1>1. Types(s, h, r2, p, c, t, f)
  BY DEF Sound, Types, RadioTypes
<1>2. Counted(s, r2, p, c)
  BY DEF Sound, Types, Counted, BrokerTypes, RadioTypes, PumpTypes, CodecTypes, One, Acting
<1>3. Sessions(s, r2, p, c)
  BY DEF Sound, Types, Sessions, BrokerTypes, RadioTypes, PumpTypes, CodecTypes, Acting
<1>4. Flags(s, r2, p, c)
  BY DEF Sound, Types, Flags, BrokerTypes, RadioTypes, PumpTypes, CodecTypes, Deliverable
<1>5. Submits(s, r2, c, t, f)
  BY DEF Sound, Types, Submits, BrokerTypes, RadioTypes, CodecTypes, RuntimeTypes, Unserved,
     Serving
<1>6. Claims(r2, c, t)
  BY DEF Sound, Types, Claims, RadioTypes, CodecTypes, RuntimeTypes, Serving, AtRest
<1> QED
  BY <1>1, <1>2, <1>3, <1>4, <1>5, <1>6 DEF Sound

(* The message is queued.                                                  *)
LEMMA Enqueued ==
  ASSUME Bounds, NEW s, NEW h, NEW r, NEW p, NEW c, NEW t, NEW f, Sound(s, h, r, p, c, t, f),
         r.pc = "enqueue",
         NEW r2, r2 = [r EXCEPT !.pc = "after"],
         NEW t2, t2 = [t EXCEPT !.epoch = r.epoch, !.msg = r.req]
  PROVE  Sound(s, h, r2, p, c, t2, f)
<1>1. Types(s, h, r2, p, c, t2, f)
  BY DEF Sound, Types, Sessions, RadioTypes, RuntimeTypes, Acting
<1>2. Counted(s, r2, p, c)
  BY DEF Sound, Types, Counted, BrokerTypes, RadioTypes, PumpTypes, CodecTypes, One, Acting
<1>3. Sessions(s, r2, p, c)
  BY DEF Sound, Types, Sessions, BrokerTypes, RadioTypes, PumpTypes, CodecTypes, Acting
<1>4. Flags(s, r2, p, c)
  BY DEF Sound, Types, Flags, BrokerTypes, RadioTypes, PumpTypes, CodecTypes, Deliverable
<1>5. Submits(s, r2, c, t2, f)
  BY DEF Sound, Types, Submits, Sessions, BrokerTypes, RadioTypes, PumpTypes, CodecTypes,
     RuntimeTypes, Unserved, Serving, Acting
<1>6. Claims(r2, c, t2)
  BY DEF Sound, Types, Claims, Submits, BrokerTypes, RadioTypes, CodecTypes, RuntimeTypes,
     Serving, AtRest, Unserved
<1>7. Serves(s, c, t2, f)
  BY DEF Sound, Types, Serves, Sessions, Submits, BrokerTypes, RadioTypes, PumpTypes,
     CodecTypes, RuntimeTypes, Inside, IsNext, Continuing, Parts, Acting, Unserved, Serving
<1>8. Retires(s, h, c, t2)
  BY DEF Sound, Types, Retires, Claims, Sessions, BrokerTypes, RadioTypes, PumpTypes,
     CodecTypes, RuntimeTypes, AtRest, Serving, Acting
<1>9. Faults(s, c, t2)
  BY DEF Sound, Types, Faults, BrokerTypes, CodecTypes, RuntimeTypes
<1> QED
  BY <1>1, <1>2, <1>3, <1>4, <1>5, <1>6, <1>7, <1>8, <1>9 DEF Sound

(* It is refused, and the runtime let go of.                               *)
LEMMA Unenqueued ==
  ASSUME Bounds, NEW s, NEW h, NEW r, NEW p, NEW c, NEW t, NEW f, Sound(s, h, r, p, c, t, f),
         r.pc = "enqueue",
         NEW r2, r2 = [r EXCEPT !.pc = "after", !.ok = FALSE],
         NEW t2, t2 = [t EXCEPT !.busy = "no"]
  PROVE  Sound(s, h, r2, p, c, t2, f)
<1>1. Types(s, h, r2, p, c, t2, f)
  BY DEF Sound, Types, RadioTypes, RuntimeTypes
<1>2. Counted(s, r2, p, c)
  BY DEF Sound, Types, Counted, BrokerTypes, RadioTypes, PumpTypes, CodecTypes, One, Acting
<1>3. Sessions(s, r2, p, c)
  BY DEF Sound, Types, Sessions, BrokerTypes, RadioTypes, PumpTypes, CodecTypes, Acting
<1>4. Flags(s, r2, p, c)
  BY DEF Sound, Types, Flags, BrokerTypes, RadioTypes, PumpTypes, CodecTypes, Deliverable
<1>5. Submits(s, r2, c, t2, f)
  BY DEF Sound, Types, Submits, BrokerTypes, RadioTypes, CodecTypes, RuntimeTypes, Unserved,
     Serving
<1>6. Claims(r2, c, t2)
  BY DEF Sound, Types, Claims, Submits, BrokerTypes, RadioTypes, CodecTypes, RuntimeTypes,
     Serving, AtRest, Unserved
<1>7. Serves(s, c, t2, f)
  BY DEF Sound, Types, Serves, BrokerTypes, CodecTypes, RuntimeTypes, Inside, IsNext, Continuing,
     Parts
<1>8. Retires(s, h, c, t2)
  BY DEF Sound, Types, Retires, BrokerTypes, CodecTypes, RuntimeTypes, AtRest
<1>9. Faults(s, c, t2)
  BY DEF Sound, Types, Faults, BrokerTypes, CodecTypes, RuntimeTypes
<1> QED
  BY <1>1, <1>2, <1>3, <1>4, <1>5, <1>6, <1>7, <1>8, <1>9 DEF Sound

(* The submission has succeeded; the answer may be there already.          *)
LEMMA Accepted ==
  ASSUME Bounds, NEW s, NEW h, NEW r, NEW p, NEW c, NEW t, NEW f, Sound(s, h, r, p, c, t, f),
         r.pc = "after", r.ok,
         NEW s2, s2 = [s EXCEPT !.submitting = FALSE, !.ever = TRUE],
         NEW r2, r2 = [r EXCEPT !.pc = "schedule"]
  PROVE  Sound(s2, h, r2, p, c, t, f)
<1>1. Types(s2, h, r2, p, c, t, f)
  BY DEF Sound, Types, BrokerTypes, RadioTypes
<1>2. Counted(s2, r2, p, c)
  BY DEF Sound, Types, Counted, BrokerTypes, RadioTypes, PumpTypes, CodecTypes, One, Acting
<1>3. Sessions(s2, r2, p, c)
  BY DEF Sound, Types, Sessions, Flags, Submits, BrokerTypes, RadioTypes, PumpTypes, CodecTypes,
     RuntimeTypes, Acting, Deliverable, Unserved, Serving
<1>4. Flags(s2, r2, p, c)
  BY DEF Sound, Types, Flags, Submits, BrokerTypes, RadioTypes, PumpTypes, CodecTypes,
     RuntimeTypes, Deliverable, Unserved, Serving
<1>5. Submits(s2, r2, c, t, f)
  BY DEF Sound, Types, Submits, BrokerTypes, RadioTypes, CodecTypes, RuntimeTypes, Unserved,
     Serving
<1>6. Claims(r2, c, t)
  BY DEF Sound, Types, Claims, RadioTypes, CodecTypes, RuntimeTypes, Serving, AtRest
<1>7. Serves(s2, c, t, f)
  BY DEF Sound, Types, Serves, BrokerTypes, CodecTypes, RuntimeTypes, Inside, IsNext, Continuing,
     Parts
<1>8. Retires(s2, h, c, t)
  BY DEF Sound, Types, Retires, Submits, BrokerTypes, RadioTypes, CodecTypes, RuntimeTypes,
     AtRest, Unserved, Serving
<1>9. Faults(s2, c, t)
  BY DEF Sound, Types, Faults, BrokerTypes, CodecTypes, RuntimeTypes
<1>10. Delivers(s2, p, f)
  BY DEF Sound, Types, Delivers, Flags, BrokerTypes, RadioTypes, PumpTypes, CodecTypes,
     HeardTypes, Parts, Deliverable
<1> QED
  BY <1>1, <1>2, <1>3, <1>4, <1>5, <1>6, <1>7, <1>8, <1>9, <1>10 DEF Sound

(* The submission has failed, and nobody has answered.                     *)
LEMMA Refused ==
  ASSUME Bounds, NEW s, NEW h, NEW r, NEW p, NEW c, NEW t, NEW f, Sound(s, h, r, p, c, t, f),
         r.pc = "after", ~r.ok,
         NEW s2, s2 = [s EXCEPT !.submitting = FALSE, !.revoked = TRUE, !.pending = FALSE,
                            !.terminal = FALSE, !.ok = FALSE, !.response = NoFrame,
                            !.fault = @ \/ s.terminal \/ s.completing,
                            !.ever = @ \/ s.terminal \/ s.completing],
         NEW r2, r2 = [r EXCEPT !.pc = "leave"]
  PROVE  Sound(s2, h, r2, p, c, t, f)
<1>a. /\ (s.fault \/ s.terminal \/ s.completing) \in BOOLEAN
      /\ (s.ever \/ s.terminal \/ s.completing) \in BOOLEAN
  OBVIOUS
<1>1. Types(s2, h, r2, p, c, t, f)
  <2>1. s2 \in BrokerTypes
    <3>1. PICK x \in BOOLEAN, y \in BOOLEAN : /\ x = (s.fault \/ s.terminal \/ s.completing)
                                              /\ y = (s.ever \/ s.terminal \/ s.completing)
      BY <1>a
    <3>2. s2 = [s EXCEPT !.submitting = FALSE, !.revoked = TRUE, !.pending = FALSE,
                         !.terminal = FALSE, !.ok = FALSE, !.response = NoFrame,
                         !.fault = x, !.ever = y]
      BY <3>1
    <3>3. s \in BrokerTypes /\ NoFrame \in FrameTypes
      BY NoTypes DEF Sound, Types
    <3>4. x \in BOOLEAN /\ y \in BOOLEAN
      BY <3>1
    <3>5. [s EXCEPT !.submitting = FALSE, !.revoked = TRUE, !.pending = FALSE,
                    !.terminal = FALSE, !.ok = FALSE, !.response = NoFrame,
                    !.fault = x, !.ever = y] \in BrokerTypes
      BY ONLY <3>3, <3>4 DEF BrokerTypes
    <3> QED
      BY <3>2, <3>5
  <2>2. r2 \in RadioTypes
    BY DEF Sound, Types, RadioTypes
  <2> QED
    BY <2>1, <2>2 DEF Sound, Types
<1>2. Counted(s2, r2, p, c)
  BY DEF Sound, Types, Counted, BrokerTypes, RadioTypes, PumpTypes, CodecTypes, One, Acting
<1>3. Sessions(s2, r2, p, c)
  BY DEF Sound, Types, Sessions, Flags, Submits, BrokerTypes, RadioTypes, PumpTypes, CodecTypes,
     RuntimeTypes, Acting, Deliverable, Unserved, Serving
<1>4. Flags(s2, r2, p, c)
  BY DEF Sound, Types, Flags, Submits, BrokerTypes, RadioTypes, PumpTypes, CodecTypes,
     RuntimeTypes, Deliverable, Unserved, Serving
<1>5. Submits(s2, r2, c, t, f)
  BY DEF Sound, Types, Submits, BrokerTypes, RadioTypes, CodecTypes, RuntimeTypes, Unserved,
     Serving
<1>6. Claims(r2, c, t)
  BY DEF Sound, Types, Claims, RadioTypes, CodecTypes, RuntimeTypes, Serving, AtRest
<1>7. Serves(s2, c, t, f)
  BY DEF Sound, Types, Serves, Submits, BrokerTypes, RadioTypes, CodecTypes, RuntimeTypes,
     Inside, IsNext, Continuing, Parts, Unserved, Serving
<1>8. Retires(s2, h, c, t)
  BY DEF Sound, Types, Retires, Submits, Flags, BrokerTypes, RadioTypes, PumpTypes, CodecTypes,
     RuntimeTypes, AtRest, Unserved, Serving, Deliverable
<1>9. Faults(s2, c, t)
  BY DEF Sound, Types, Faults, Submits, Flags, BrokerTypes, RadioTypes, PumpTypes, CodecTypes,
     RuntimeTypes, Unserved, Serving, Deliverable
<1>10. Delivers(s2, p, f)
  BY DEF Sound, Types, Delivers, Flags, Submits, BrokerTypes, RadioTypes, PumpTypes, CodecTypes,
     RuntimeTypes, HeardTypes, Parts, Deliverable, Unserved, Serving
<1> QED
  BY <1>1, <1>2, <1>3, <1>4, <1>5, <1>6, <1>7, <1>8, <1>9, <1>10 DEF Sound

(* A step to the end of the call.                                          *)
LEMMA RadioGoes ==
  ASSUME Bounds, NEW s, NEW h, NEW r, NEW p, NEW c, NEW t, NEW f, Sound(s, h, r, p, c, t, f),
         r.pc \in {"commit", "schedule"},
         NEW r2, r2 = [r EXCEPT !.pc = "leave"]
  PROVE  Sound(s, h, r2, p, c, t, f)
<1>1. Types(s, h, r2, p, c, t, f)
  BY DEF Sound, Types, RadioTypes
<1>2. Counted(s, r2, p, c)
  BY DEF Sound, Types, Counted, BrokerTypes, RadioTypes, PumpTypes, CodecTypes, One, Acting
<1>3. Sessions(s, r2, p, c)
  BY DEF Sound, Types, Sessions, BrokerTypes, RadioTypes, PumpTypes, CodecTypes, Acting
<1>4. Flags(s, r2, p, c)
  BY DEF Sound, Types, Flags, BrokerTypes, RadioTypes, PumpTypes, CodecTypes, Deliverable
<1>5. Submits(s, r2, c, t, f)
  BY DEF Sound, Types, Submits, BrokerTypes, RadioTypes, CodecTypes, RuntimeTypes, Unserved,
     Serving
<1>6. Claims(r2, c, t)
  BY DEF Sound, Types, Claims, RadioTypes, CodecTypes, RuntimeTypes, Serving, AtRest
<1> QED
  BY <1>1, <1>2, <1>3, <1>4, <1>5, <1>6 DEF Sound

(* leave(), by the receive thread.                                         *)
LEMMA RadioLeft ==
  ASSUME Bounds, NEW s, NEW h, NEW r, NEW p, NEW c, NEW t, NEW f, Sound(s, h, r, p, c, t, f),
         r.pc = "leave",
         NEW s2, s2 = [s EXCEPT !.actors = @ - 1],
         NEW r2, r2 = IdleThread
  PROVE  Sound(s2, h, r2, p, c, t, f)
<1>a. s.actors - 1 \in 0..3
  BY DEF Sound, Types, BrokerTypes, Counted, One, Acting
<1>1. Types(s2, h, r2, p, c, t, f)
  BY <1>a, NoTypes DEF Sound, Types, BrokerTypes, RadioTypes, IdleThread
<1>2. Counted(s2, r2, p, c)
  BY DEF Sound, Types, Counted, BrokerTypes, RadioTypes, PumpTypes, CodecTypes, One, Acting,
     IdleThread
<1>3. Sessions(s2, r2, p, c)
  BY DEF Sound, Types, Sessions, Counted, BrokerTypes, RadioTypes, PumpTypes, CodecTypes,
     Acting, One, IdleThread
<1>4. Flags(s2, r2, p, c)
  BY DEF Sound, Types, Flags, BrokerTypes, RadioTypes, PumpTypes, CodecTypes, Deliverable,
     IdleThread
<1>5. Submits(s2, r2, c, t, f)
  BY DEF Sound, Types, Submits, BrokerTypes, RadioTypes, CodecTypes, RuntimeTypes, Unserved,
     Serving, IdleThread
<1>6. Claims(r2, c, t)
  BY DEF Sound, Types, Claims, RadioTypes, CodecTypes, RuntimeTypes, Serving, AtRest, IdleThread
<1>7. Serves(s2, c, t, f)
  BY DEF Sound, Types, Serves, BrokerTypes, CodecTypes, RuntimeTypes, Inside, IsNext, Continuing,
     Parts, IdleThread
<1>8. Retires(s2, h, c, t)
  BY DEF Sound, Types, Retires, BrokerTypes, CodecTypes, RuntimeTypes, AtRest, IdleThread
<1>9. Faults(s2, c, t)
  BY DEF Sound, Types, Faults, BrokerTypes, CodecTypes, RuntimeTypes, IdleThread
<1>10. Delivers(s2, p, f)
  BY DEF Sound, Types, Delivers, BrokerTypes, PumpTypes, HeardTypes, Parts, IdleThread
<1> QED
  BY <1>1, <1>2, <1>3, <1>4, <1>5, <1>6, <1>7, <1>8, <1>9, <1>10 DEF Sound

(* expire_locked may be called wherever the invariant holds.               *)
LEMMA Expired ==
  ASSUME Bounds, NEW s, NEW h, NEW r, NEW p, NEW c, NEW t, NEW f, Sound(s, h, r, p, c, t, f)
  PROVE  Sound(Expire(s), h, r, p, c, t, f)
BY Revoked DEF Expire

(* kick() may be called wherever the invariant holds.                      *)
LEMMA Kicked ==
  ASSUME Bounds, NEW s, NEW r, NEW p, NEW c, NEW t, NEW f, Sound(s, hook, r, p, c, t, f)
  PROVE  Sound(Kick(s), HookAfterKick(s), r, p, c, t, f)
<1>1. CASE ~Quiet(s)
  BY <1>1 DEF Kick, HookAfterKick
<1>2. CASE Quiet(s) /\ s.ever
  <2>1. Kick(s) = [s EXCEPT !.retiring = TRUE] /\ HookAfterKick(s) = s.epoch
    BY <1>2 DEF Kick, HookAfterKick
  <2> QED
    BY <1>2, <2>1, Retiring
<1>3. CASE Quiet(s) /\ ~s.ever
  <2>1. Kick(s) = Clear(s) /\ HookAfterKick(s) = hook
    BY <1>3 DEF Kick, HookAfterKick
  <2> QED
    BY <1>3, <2>1, Cleared
<1> QED
  BY <1>1, <1>2, <1>3

(* schedule_delivery may be called wherever it holds.                      *)
LEMMA ScheduledSound ==
  ASSUME Bounds, NEW s, NEW h, NEW r, NEW p, NEW c, NEW t, NEW f, Sound(s, h, r, p, c, t, f)
  PROVE  Sound(Schedule(s), h, r, p, c, t, f)
BY Scheduled DEF Schedule

(* The broker after a delivery is one.                                     *)
LEMMA DeliveredTypes ==
  ASSUME Bounds, NEW s \in BrokerTypes, s.more => s.sent = 0, NEW x \in BOOLEAN
  PROVE  Delivered(s, x) \in BrokerTypes
<1> DEFINE e == [s EXCEPT !.revoked = @ \/ ~x, !.terminal = FALSE, !.ok = FALSE,
                          !.delivering = FALSE, !.response = NoFrame]
<1>1. e \in BrokerTypes
  <2>1. PICK y \in BOOLEAN : y = (s.revoked \/ ~x)
    OBVIOUS
  <2>2. NoFrame \in FrameTypes
    BY NoTypes
  <2>3. [s EXCEPT !.revoked = y, !.terminal = FALSE, !.ok = FALSE,
                  !.delivering = FALSE, !.response = NoFrame] \in BrokerTypes
    BY <2>2 DEF BrokerTypes
  <2> QED
    BY <2>1, <2>3
<1>0. e.sent = s.sent
  BY DEF BrokerTypes
<1> HIDE DEF e
<1>2. CASE s.more
  <2>1. PICK n \in 0..1 : n = (IF x THEN s.sent + 1 ELSE s.sent)
    BY <1>2 DEF BrokerTypes
  <2>3. [e EXCEPT !.more = FALSE, !.sent = n] \in BrokerTypes
    BY <1>1 DEF BrokerTypes
  <2>4. Delivered(s, x) = [e EXCEPT !.more = FALSE, !.sent = n]
    <3>1. Delivered(s, x) = [e EXCEPT !.more = FALSE, !.sent = IF x THEN @ + 1 ELSE @]
      BY <1>2 DEF Delivered, e
    <3> QED
      BY <3>1, <2>1, <1>0
  <2> QED
    BY <2>3, <2>4
<1>3. CASE ~s.more
  <2>1. NoReq \in Asked
    BY NoTypes
  <2>2. [e EXCEPT !.pending = FALSE, !.req = NoReq] \in BrokerTypes
    BY <1>1, <2>1 DEF BrokerTypes
  <2>3. Delivered(s, x) = [e EXCEPT !.pending = FALSE, !.req = NoReq]
    BY <1>3 DEF Delivered, e
  <2> QED
    BY <2>2, <2>3
<1> QED
  BY <1>2, <1>3

(* The work item finds the answer it was scheduled for.                    *)
LEMMA Handled ==
  ASSUME Bounds, NEW s, NEW h, NEW r, NEW p, NEW c, NEW t, NEW f, Sound(s, h, r, p, c, t, f),
         s.queued, p.pc = "idle",
         NEW s2, s2 = [s EXCEPT !.queued = FALSE, !.actors = @ + 1, !.delivering = TRUE],
         NEW p2, p2 = [pc |-> IF s.ok THEN "check" ELSE "end", epoch |-> s.epoch, conn |-> s.conn,
                   frame |-> s.response, ok |-> s.ok]
  PROVE  Sound(s2, h, r, p2, c, t, f)
<1>a. s.actors + 1 \in 0..3
  BY DEF Sound, Types, BrokerTypes, Counted, One, Acting
<1>1. Types(s2, h, r, p2, c, t, f)
  <2>1. s2 \in BrokerTypes
    BY <1>a DEF Sound, Types, BrokerTypes
  <2>2. p2 \in PumpTypes
    BY DEF Sound, Types, PumpTypes, BrokerTypes
  <2> QED
    BY <2>1, <2>2 DEF Sound, Types
<1>2. Counted(s2, r, p2, c)
  BY DEF Sound, Types, Counted, BrokerTypes, RadioTypes, PumpTypes, CodecTypes, One, Acting
<1>3. Sessions(s2, r, p2, c)
  BY DEF Sound, Types, Sessions, Flags, Counted, BrokerTypes, RadioTypes, PumpTypes, CodecTypes,
     Acting, Deliverable, One
<1>4. Flags(s2, r, p2, c)
  BY DEF Sound, Types, Flags, Sessions, BrokerTypes, RadioTypes, PumpTypes, CodecTypes,
     Deliverable, Acting
<1>5. Submits(s2, r, c, t, f)
  BY DEF Sound, Types, Submits, BrokerTypes, RadioTypes, CodecTypes, RuntimeTypes, Unserved,
     Serving
<1>6. Serves(s2, c, t, f)
  BY DEF Sound, Types, Serves, BrokerTypes, CodecTypes, RuntimeTypes, Inside, IsNext, Continuing,
     Parts
<1>7. Retires(s2, h, c, t)
  BY DEF Sound, Types, Retires, BrokerTypes, CodecTypes, RuntimeTypes, AtRest
<1>8. Faults(s2, c, t)
  BY DEF Sound, Types, Faults, BrokerTypes, CodecTypes, RuntimeTypes
<1>9. Delivers(s2, p2, f)
  BY DEF Sound, Types, Delivers, Flags, Sessions, BrokerTypes, RadioTypes, PumpTypes,
     CodecTypes, HeardTypes, Parts, Deliverable, Acting
<1> QED
  BY <1>1, <1>2, <1>3, <1>4, <1>5, <1>6, <1>7, <1>8, <1>9 DEF Sound

(* The authority is there.                                                 *)
LEMMA CheckPassed ==
  ASSUME Bounds, NEW s, NEW h, NEW r, NEW p, NEW c, NEW t, NEW f, Sound(s, h, r, p, c, t, f),
         p.pc = "check",
         NEW p2, p2 = [p EXCEPT !.ok = TRUE, !.pc = "notify"]
  PROVE  Sound(s, h, r, p2, c, t, f)
<1>1. Types(s, h, r, p2, c, t, f)
  BY DEF Sound, Types, PumpTypes
<1>2. Counted(s, r, p2, c)
  BY DEF Sound, Types, Counted, BrokerTypes, RadioTypes, PumpTypes, CodecTypes, One, Acting
<1>3. Sessions(s, r, p2, c)
  BY DEF Sound, Types, Sessions, BrokerTypes, RadioTypes, PumpTypes, CodecTypes, Acting
<1>4. Flags(s, r, p2, c)
  BY DEF Sound, Types, Flags, BrokerTypes, RadioTypes, PumpTypes, CodecTypes, Deliverable
<1>5. Delivers(s, p2, f)
  BY DEF Sound, Types, Delivers, BrokerTypes, PumpTypes, HeardTypes, Parts
<1> QED
  BY <1>1, <1>2, <1>3, <1>4, <1>5 DEF Sound

(* The frame is not sent, and the delivery ends.                           *)
LEMMA CheckFailed ==
  ASSUME Bounds, NEW s, NEW h, NEW r, NEW p, NEW c, NEW t, NEW f, Sound(s, h, r, p, c, t, f),
         p.pc \in {"check", "notify"},
         NEW p2, p2 = [p EXCEPT !.ok = FALSE, !.pc = "end"]
  PROVE  Sound(s, h, r, p2, c, t, f)
<1>1. Types(s, h, r, p2, c, t, f)
  BY DEF Sound, Types, PumpTypes
<1>2. Counted(s, r, p2, c)
  BY DEF Sound, Types, Counted, BrokerTypes, RadioTypes, PumpTypes, CodecTypes, One, Acting
<1>3. Sessions(s, r, p2, c)
  BY DEF Sound, Types, Sessions, BrokerTypes, RadioTypes, PumpTypes, CodecTypes, Acting
<1>4. Flags(s, r, p2, c)
  BY DEF Sound, Types, Flags, BrokerTypes, RadioTypes, PumpTypes, CodecTypes, Deliverable
<1>5. Delivers(s, p2, f)
  BY DEF Sound, Types, Delivers, BrokerTypes, PumpTypes, HeardTypes, Parts
<1> QED
  BY <1>1, <1>2, <1>3, <1>4, <1>5 DEF Sound

(* The stack has no buffer for the frame.                                  *)
LEMMA Retried ==
  ASSUME Bounds, NEW s, NEW h, NEW r, NEW p, NEW c, NEW t, NEW f, Sound(s, h, r, p, c, t, f),
         p.pc = "notify",
         NEW p2, p2 = [p EXCEPT !.ok = FALSE, !.pc = "retry"]
  PROVE  Sound(s, h, r, p2, c, t, f)
<1>1. Types(s, h, r, p2, c, t, f)
  BY DEF Sound, Types, PumpTypes
<1>2. Counted(s, r, p2, c)
  BY DEF Sound, Types, Counted, BrokerTypes, RadioTypes, PumpTypes, CodecTypes, One, Acting
<1>3. Sessions(s, r, p2, c)
  BY DEF Sound, Types, Sessions, BrokerTypes, RadioTypes, PumpTypes, CodecTypes, Acting
<1>4. Flags(s, r, p2, c)
  BY DEF Sound, Types, Flags, BrokerTypes, RadioTypes, PumpTypes, CodecTypes, Deliverable
<1>5. Delivers(s, p2, f)
  BY DEF Sound, Types, Delivers, BrokerTypes, PumpTypes, HeardTypes, Parts
<1> QED
  BY <1>1, <1>2, <1>3, <1>4, <1>5 DEF Sound

(* The frame is handed to the stack.                                       *)
LEMMA Notified ==
  ASSUME Bounds, NEW s, NEW h, NEW r, NEW p, NEW c, NEW t, NEW f, Sound(s, h, r, p, c, t, f),
         p.pc = "notify",
         NEW p2, p2 = [p EXCEPT !.pc = "end"],
         NEW f2, f2 = Append(f, [to |-> p.conn, frame |-> p.frame])
  PROVE  Sound(s, h, r, p2, c, t, f2)
<1>1. Types(s, h, r, p2, c, t, f2)
  <2>1. p2 \in PumpTypes
    BY DEF Sound, Types, PumpTypes
  <2>2. f2 \in HeardTypes
    <3>1. p.conn \in ConnNumbers /\ p.frame \in FrameTypes
      BY DEF Sound, Types, PumpTypes
    <3>2. p.conn \in Nat
      BY <3>1 DEF ConnNumbers, Bounds
    <3>3. [to |-> p.conn, frame |-> p.frame] \in [to : Nat, frame : FrameTypes]
      BY <3>1, <3>2
    <3> QED
      BY <3>3 DEF Sound, Types, HeardTypes
  <2> QED
    BY <2>1, <2>2 DEF Sound, Types
<1>2. Counted(s, r, p2, c)
  BY DEF Sound, Types, Counted, BrokerTypes, RadioTypes, PumpTypes, CodecTypes, One, Acting
<1>3. Sessions(s, r, p2, c)
  BY DEF Sound, Types, Sessions, BrokerTypes, RadioTypes, PumpTypes, CodecTypes, Acting
<1>4. Flags(s, r, p2, c)
  BY DEF Sound, Types, Flags, BrokerTypes, RadioTypes, PumpTypes, CodecTypes, Deliverable
<1>5. Submits(s, r, c, t, f2)
  BY DEF Sound, Types, Submits, Flags, BrokerTypes, RadioTypes, PumpTypes, CodecTypes,
     RuntimeTypes, Unserved, Serving, Deliverable
<1>6. Serves(s, c, t, f2)
  BY DEF Sound, Types, Serves, Flags, Submits, BrokerTypes, RadioTypes, PumpTypes, CodecTypes,
     RuntimeTypes, Inside, IsNext, Continuing, Parts, Deliverable, Unserved, Serving
<1>7. Delivers(s, p2, f2)
  BY DEF Sound, Types, Delivers, Flags, Sessions, BrokerTypes, RadioTypes, PumpTypes,
     CodecTypes, HeardTypes, Parts, Deliverable, Acting
<1> QED
  BY <1>1, <1>2, <1>3, <1>4, <1>5, <1>6, <1>7 DEF Sound

(* The frame stays staged.                                                 *)
LEMMA TriedAgain ==
  ASSUME Bounds, NEW s, NEW h, NEW r, NEW p, NEW c, NEW t, NEW f, Sound(s, h, r, p, c, t, f),
         p.pc = "retry",
         NEW s2, s2 = [s EXCEPT !.delivering = FALSE],
         NEW p2, p2 = [p EXCEPT !.pc = "leave"]
  PROVE  Sound(s2, h, r, p2, c, t, f)
<1>1. Types(s2, h, r, p2, c, t, f)
  BY DEF Sound, Types, BrokerTypes, PumpTypes
<1>2. Counted(s2, r, p2, c)
  BY DEF Sound, Types, Counted, BrokerTypes, RadioTypes, PumpTypes, CodecTypes, One, Acting
<1>3. Sessions(s2, r, p2, c)
  BY DEF Sound, Types, Sessions, BrokerTypes, RadioTypes, PumpTypes, CodecTypes, Acting
<1>4. Flags(s2, r, p2, c)
  BY DEF Sound, Types, Flags, BrokerTypes, RadioTypes, PumpTypes, CodecTypes, Deliverable
<1>5. Submits(s2, r, c, t, f)
  BY DEF Sound, Types, Submits, BrokerTypes, RadioTypes, CodecTypes, RuntimeTypes, Unserved,
     Serving
<1>6. Serves(s2, c, t, f)
  BY DEF Sound, Types, Serves, BrokerTypes, CodecTypes, RuntimeTypes, Inside, IsNext, Continuing,
     Parts
<1>7. Retires(s2, h, c, t)
  BY DEF Sound, Types, Retires, BrokerTypes, CodecTypes, RuntimeTypes, AtRest
<1>8. Faults(s2, c, t)
  BY DEF Sound, Types, Faults, BrokerTypes, CodecTypes, RuntimeTypes
<1>9. Delivers(s2, p2, f)
  BY DEF Sound, Types, Delivers, Flags, BrokerTypes, RadioTypes, PumpTypes, CodecTypes,
     HeardTypes, Parts, Deliverable
<1> QED
  BY <1>1, <1>2, <1>3, <1>4, <1>5, <1>6, <1>7, <1>8, <1>9 DEF Sound

(* A frame of a stream was delivered, and the next is waited for.          *)
LEMMA DeliveredMore ==
  ASSUME Bounds, NEW s, NEW h, NEW r, NEW p, NEW c, NEW t, NEW f, Sound(s, h, r, p, c, t, f),
         p.pc = "end", p.ok, s.more,
         NEW s2, s2 = Delivered(s, TRUE),
         NEW p2, p2 = [p EXCEPT !.pc = "leave"]
  PROVE  Sound(s2, h, r, p2, c, t, f)
<1>a. s \in BrokerTypes /\ (s.more => s.sent = 0) /\ TRUE \in BOOLEAN /\ FALSE \in BOOLEAN
  BY DEF Sound, Types, Flags
<1>1. Types(s2, h, r, p2, c, t, f)
  <2>1. s2 \in BrokerTypes
    BY <1>a, DeliveredTypes
  <2>2. p2 \in PumpTypes
    BY DEF Sound, Types, PumpTypes
  <2> QED
    BY <2>1, <2>2 DEF Sound, Types
<1>2. Counted(s2, r, p2, c)
  BY DEF Sound, Types, Counted, BrokerTypes, RadioTypes, PumpTypes, CodecTypes, One, Acting,
     Delivered
<1>3. Sessions(s2, r, p2, c)
  BY DEF Sound, Types, Sessions, Flags, Retires, BrokerTypes, RadioTypes, PumpTypes, CodecTypes,
     RuntimeTypes, Acting, Deliverable, AtRest, Delivered
<1>4. Flags(s2, r, p2, c)
  BY DEF Sound, Types, Flags, Serves, BrokerTypes, RadioTypes, PumpTypes, CodecTypes,
     RuntimeTypes, Deliverable, Inside, IsNext, Continuing, Parts, Delivered
<1>5. Submits(s2, r, c, t, f)
  BY DEF Sound, Types, Submits, Flags, BrokerTypes, RadioTypes, PumpTypes, CodecTypes,
     RuntimeTypes, Unserved, Serving, Deliverable, Delivered
<1>6. Serves(s2, c, t, f)
  BY DEF Sound, Types, Serves, Flags, Delivers, BrokerTypes, RadioTypes, PumpTypes, CodecTypes,
     RuntimeTypes, Inside, IsNext, Continuing, Parts, Deliverable, Delivered
<1>7. Retires(s2, h, c, t)
  BY DEF Sound, Types, Retires, BrokerTypes, CodecTypes, RuntimeTypes, AtRest, Delivered
<1>8. Faults(s2, c, t)
  BY DEF Sound, Types, Faults, BrokerTypes, CodecTypes, RuntimeTypes, Delivered
<1>9. Delivers(s2, p2, f)
  BY DEF Sound, Types, Delivers, Flags, Sessions, BrokerTypes, RadioTypes, PumpTypes,
     CodecTypes, HeardTypes, Parts, Deliverable, Acting, Delivered
<1> QED
  BY <1>1, <1>2, <1>3, <1>4, <1>5, <1>6, <1>7, <1>8, <1>9 DEF Sound

(* The last frame was delivered.                                           *)
LEMMA DeliveredLast ==
  ASSUME Bounds, NEW s, NEW h, NEW r, NEW p, NEW c, NEW t, NEW f, Sound(s, h, r, p, c, t, f),
         p.pc = "end", p.ok, ~s.more,
         NEW s2, s2 = Delivered(s, TRUE),
         NEW p2, p2 = [p EXCEPT !.pc = "leave"]
  PROVE  Sound(s2, h, r, p2, c, t, f)
<1>a. s \in BrokerTypes /\ (s.more => s.sent = 0) /\ TRUE \in BOOLEAN /\ FALSE \in BOOLEAN
  BY DEF Sound, Types, Flags
<1>1. Types(s2, h, r, p2, c, t, f)
  <2>1. s2 \in BrokerTypes
    BY <1>a, DeliveredTypes
  <2>2. p2 \in PumpTypes
    BY DEF Sound, Types, PumpTypes
  <2> QED
    BY <2>1, <2>2 DEF Sound, Types
<1>2. Counted(s2, r, p2, c)
  BY DEF Sound, Types, Counted, BrokerTypes, RadioTypes, PumpTypes, CodecTypes, One, Acting,
     Delivered
<1>3. Sessions(s2, r, p2, c)
  BY DEF Sound, Types, Sessions, Flags, Retires, BrokerTypes, RadioTypes, PumpTypes, CodecTypes,
     RuntimeTypes, Acting, Deliverable, AtRest, Delivered
<1>4. Flags(s2, r, p2, c)
  BY DEF Sound, Types, Flags, Serves, BrokerTypes, RadioTypes, PumpTypes, CodecTypes,
     RuntimeTypes, Deliverable, Inside, IsNext, Continuing, Parts, Delivered
<1>5. Submits(s2, r, c, t, f)
  BY DEF Sound, Types, Submits, Flags, BrokerTypes, RadioTypes, PumpTypes, CodecTypes,
     RuntimeTypes, Unserved, Serving, Deliverable, Delivered
<1>6. Serves(s2, c, t, f)
  BY DEF Sound, Types, Serves, Flags, Delivers, BrokerTypes, RadioTypes, PumpTypes, CodecTypes,
     RuntimeTypes, Inside, IsNext, Continuing, Parts, Deliverable, Delivered
<1>7. Retires(s2, h, c, t)
  BY DEF Sound, Types, Retires, BrokerTypes, CodecTypes, RuntimeTypes, AtRest, Delivered
<1>8. Faults(s2, c, t)
  BY DEF Sound, Types, Faults, BrokerTypes, CodecTypes, RuntimeTypes, Delivered
<1>9. Delivers(s2, p2, f)
  BY DEF Sound, Types, Delivers, Flags, Sessions, BrokerTypes, RadioTypes, PumpTypes,
     CodecTypes, HeardTypes, Parts, Deliverable, Acting, Delivered
<1> QED
  BY <1>1, <1>2, <1>3, <1>4, <1>5, <1>6, <1>7, <1>8, <1>9 DEF Sound

(* A frame of a stream was lost.                                           *)
LEMMA LostMore ==
  ASSUME Bounds, NEW s, NEW h, NEW r, NEW p, NEW c, NEW t, NEW f, Sound(s, h, r, p, c, t, f),
         p.pc \in {"end", "retry"}, s.more,
         NEW s2, s2 = Delivered(s, FALSE),
         NEW p2, p2 = [p EXCEPT !.pc = "leave"]
  PROVE  Sound(s2, h, r, p2, c, t, f)
<1>a. s \in BrokerTypes /\ (s.more => s.sent = 0) /\ TRUE \in BOOLEAN /\ FALSE \in BOOLEAN
  BY DEF Sound, Types, Flags
<1>1. Types(s2, h, r, p2, c, t, f)
  <2>1. s2 \in BrokerTypes
    BY <1>a, DeliveredTypes
  <2>2. p2 \in PumpTypes
    BY DEF Sound, Types, PumpTypes
  <2> QED
    BY <2>1, <2>2 DEF Sound, Types
<1>2. Counted(s2, r, p2, c)
  BY DEF Sound, Types, Counted, BrokerTypes, RadioTypes, PumpTypes, CodecTypes, One, Acting,
     Delivered
<1>3. Sessions(s2, r, p2, c)
  BY DEF Sound, Types, Sessions, Flags, Retires, BrokerTypes, RadioTypes, PumpTypes, CodecTypes,
     RuntimeTypes, Acting, Deliverable, AtRest, Delivered
<1>4. Flags(s2, r, p2, c)
  BY DEF Sound, Types, Flags, Serves, BrokerTypes, RadioTypes, PumpTypes, CodecTypes,
     RuntimeTypes, Deliverable, Inside, IsNext, Continuing, Parts, Delivered
<1>5. Submits(s2, r, c, t, f)
  BY DEF Sound, Types, Submits, Flags, BrokerTypes, RadioTypes, PumpTypes, CodecTypes,
     RuntimeTypes, Unserved, Serving, Deliverable, Delivered
<1>6. Serves(s2, c, t, f)
  BY DEF Sound, Types, Serves, Flags, Delivers, BrokerTypes, RadioTypes, PumpTypes, CodecTypes,
     RuntimeTypes, Inside, IsNext, Continuing, Parts, Deliverable, Delivered
<1>7. Retires(s2, h, c, t)
  BY DEF Sound, Types, Retires, BrokerTypes, CodecTypes, RuntimeTypes, AtRest, Delivered
<1>8. Faults(s2, c, t)
  BY DEF Sound, Types, Faults, BrokerTypes, CodecTypes, RuntimeTypes, Delivered
<1>9. Delivers(s2, p2, f)
  BY DEF Sound, Types, Delivers, Flags, Sessions, BrokerTypes, RadioTypes, PumpTypes,
     CodecTypes, HeardTypes, Parts, Deliverable, Acting, Delivered
<1> QED
  BY <1>1, <1>2, <1>3, <1>4, <1>5, <1>6, <1>7, <1>8, <1>9 DEF Sound

(* The last frame was lost.                                                *)
LEMMA LostLast ==
  ASSUME Bounds, NEW s, NEW h, NEW r, NEW p, NEW c, NEW t, NEW f, Sound(s, h, r, p, c, t, f),
         p.pc \in {"end", "retry"}, ~s.more,
         NEW s2, s2 = Delivered(s, FALSE),
         NEW p2, p2 = [p EXCEPT !.pc = "leave"]
  PROVE  Sound(s2, h, r, p2, c, t, f)
<1>a. s \in BrokerTypes /\ (s.more => s.sent = 0) /\ TRUE \in BOOLEAN /\ FALSE \in BOOLEAN
  BY DEF Sound, Types, Flags
<1>1. Types(s2, h, r, p2, c, t, f)
  <2>1. s2 \in BrokerTypes
    BY <1>a, DeliveredTypes
  <2>2. p2 \in PumpTypes
    BY DEF Sound, Types, PumpTypes
  <2> QED
    BY <2>1, <2>2 DEF Sound, Types
<1>2. Counted(s2, r, p2, c)
  BY DEF Sound, Types, Counted, BrokerTypes, RadioTypes, PumpTypes, CodecTypes, One, Acting,
     Delivered
<1>3. Sessions(s2, r, p2, c)
  BY DEF Sound, Types, Sessions, Flags, Retires, BrokerTypes, RadioTypes, PumpTypes, CodecTypes,
     RuntimeTypes, Acting, Deliverable, AtRest, Delivered
<1>4. Flags(s2, r, p2, c)
  BY DEF Sound, Types, Flags, Serves, BrokerTypes, RadioTypes, PumpTypes, CodecTypes,
     RuntimeTypes, Deliverable, Inside, IsNext, Continuing, Parts, Delivered
<1>5. Submits(s2, r, c, t, f)
  BY DEF Sound, Types, Submits, Flags, BrokerTypes, RadioTypes, PumpTypes, CodecTypes,
     RuntimeTypes, Unserved, Serving, Deliverable, Delivered
<1>6. Serves(s2, c, t, f)
  BY DEF Sound, Types, Serves, Flags, Delivers, BrokerTypes, RadioTypes, PumpTypes, CodecTypes,
     RuntimeTypes, Inside, IsNext, Continuing, Parts, Deliverable, Delivered
<1>7. Retires(s2, h, c, t)
  BY DEF Sound, Types, Retires, BrokerTypes, CodecTypes, RuntimeTypes, AtRest, Delivered
<1>8. Faults(s2, c, t)
  BY DEF Sound, Types, Faults, BrokerTypes, CodecTypes, RuntimeTypes, Delivered
<1>9. Delivers(s2, p2, f)
  BY DEF Sound, Types, Delivers, Flags, Sessions, BrokerTypes, RadioTypes, PumpTypes,
     CodecTypes, HeardTypes, Parts, Deliverable, Acting, Delivered
<1> QED
  BY <1>1, <1>2, <1>3, <1>4, <1>5, <1>6, <1>7, <1>8, <1>9 DEF Sound

(* leave(), by the work item.                                              *)
LEMMA PumpLeft ==
  ASSUME Bounds, NEW s, NEW h, NEW r, NEW p, NEW c, NEW t, NEW f, Sound(s, h, r, p, c, t, f),
         p.pc = "leave",
         NEW s2, s2 = [s EXCEPT !.actors = @ - 1],
         NEW p2, p2 = IdlePump
  PROVE  Sound(s2, h, r, p2, c, t, f)
<1>a. s.actors - 1 \in 0..3
  BY DEF Sound, Types, BrokerTypes, Counted, One, Acting
<1>1. Types(s2, h, r, p2, c, t, f)
  <2>1. s2 \in BrokerTypes
    BY <1>a DEF Sound, Types, BrokerTypes
  <2>2. p2 \in PumpTypes
    BY NoTypes DEF Sound, Types, PumpTypes
  <2> QED
    BY <2>1, <2>2 DEF Sound, Types
<1>2. Counted(s2, r, p2, c)
  BY DEF Sound, Types, Counted, BrokerTypes, RadioTypes, PumpTypes, CodecTypes, One, Acting,
     IdlePump
<1>3. Sessions(s2, r, p2, c)
  BY DEF Sound, Types, Sessions, Counted, BrokerTypes, RadioTypes, PumpTypes, CodecTypes,
     Acting, One, IdlePump
<1>4. Flags(s2, r, p2, c)
  BY DEF Sound, Types, Flags, BrokerTypes, RadioTypes, PumpTypes, CodecTypes, Deliverable,
     IdlePump
<1>5. Submits(s2, r, c, t, f)
  BY DEF Sound, Types, Submits, BrokerTypes, RadioTypes, CodecTypes, RuntimeTypes, Unserved,
     Serving, IdlePump
<1>6. Serves(s2, c, t, f)
  BY DEF Sound, Types, Serves, BrokerTypes, CodecTypes, RuntimeTypes, Inside, IsNext, Continuing,
     Parts, IdlePump
<1>7. Retires(s2, h, c, t)
  BY DEF Sound, Types, Retires, BrokerTypes, CodecTypes, RuntimeTypes, AtRest, IdlePump
<1>8. Faults(s2, c, t)
  BY DEF Sound, Types, Faults, BrokerTypes, CodecTypes, RuntimeTypes, IdlePump
<1>9. Delivers(s2, p2, f)
  BY DEF Sound, Types, Delivers, BrokerTypes, PumpTypes, HeardTypes, Parts, IdlePump
<1> QED
  BY <1>1, <1>2, <1>3, <1>4, <1>5, <1>6, <1>7, <1>8, <1>9 DEF Sound

(* poll() has ended.                                                       *)
LEMMA Polled ==
  ASSUME Bounds, NEW s, NEW h, NEW r, NEW p, NEW c, NEW t, NEW f, Sound(s, h, r, p, c, t, f),
         c.pc = "poll",
         NEW c2, c2 = [c EXCEPT !.pc = "retirement"]
  PROVE  Sound(s, h, r, p, c2, t, f)
<1>1. Types(s, h, r, p, c2, t, f)
  BY DEF Sound, Types, CodecTypes
<1>2. Counted(s, r, p, c2)
  BY DEF Sound, Types, Counted, BrokerTypes, RadioTypes, PumpTypes, CodecTypes, One, Acting
<1>3. Sessions(s, r, p, c2)
  BY DEF Sound, Types, Sessions, BrokerTypes, RadioTypes, PumpTypes, CodecTypes, Acting
<1>4. Flags(s, r, p, c2)
  BY DEF Sound, Types, Flags, BrokerTypes, RadioTypes, PumpTypes, CodecTypes, Deliverable
<1>5. Submits(s, r, c2, t, f)
  BY DEF Sound, Types, Submits, BrokerTypes, RadioTypes, CodecTypes, RuntimeTypes, Unserved,
     Serving
<1>6. Claims(r, c2, t)
  BY DEF Sound, Types, Claims, RadioTypes, CodecTypes, RuntimeTypes, Serving, AtRest
<1>7. Serves(s, c2, t, f)
  BY DEF Sound, Types, Serves, BrokerTypes, CodecTypes, RuntimeTypes, Inside, IsNext, Continuing,
     Parts
<1>8. Retires(s, h, c2, t)
  BY DEF Sound, Types, Retires, BrokerTypes, CodecTypes, RuntimeTypes, AtRest
<1>9. Faults(s, c2, t)
  BY DEF Sound, Types, Faults, BrokerTypes, CodecTypes, RuntimeTypes
<1> QED
  BY <1>1, <1>2, <1>3, <1>4, <1>5, <1>6, <1>7, <1>8, <1>9 DEF Sound

(* schedule_retirement finds nothing, or the runtime taken.                *)
LEMMA NoneToRetire ==
  ASSUME Bounds, NEW s, NEW h, NEW r, NEW p, NEW c, NEW t, NEW f, Sound(s, h, r, p, c, t, f),
         c.pc = "retirement",
         NEW c2, c2 = [c EXCEPT !.pc = "take"]
  PROVE  Sound(s, h, r, p, c2, t, f)
<1>1. Types(s, h, r, p, c2, t, f)
  BY DEF Sound, Types, CodecTypes
<1>2. Counted(s, r, p, c2)
  BY DEF Sound, Types, Counted, BrokerTypes, RadioTypes, PumpTypes, CodecTypes, One, Acting
<1>3. Sessions(s, r, p, c2)
  BY DEF Sound, Types, Sessions, BrokerTypes, RadioTypes, PumpTypes, CodecTypes, Acting
<1>4. Flags(s, r, p, c2)
  BY DEF Sound, Types, Flags, BrokerTypes, RadioTypes, PumpTypes, CodecTypes, Deliverable
<1>5. Submits(s, r, c2, t, f)
  BY DEF Sound, Types, Submits, BrokerTypes, RadioTypes, CodecTypes, RuntimeTypes, Unserved,
     Serving
<1>6. Claims(r, c2, t)
  BY DEF Sound, Types, Claims, RadioTypes, CodecTypes, RuntimeTypes, Serving, AtRest
<1>7. Serves(s, c2, t, f)
  BY DEF Sound, Types, Serves, BrokerTypes, CodecTypes, RuntimeTypes, Inside, IsNext, Continuing,
     Parts
<1>8. Retires(s, h, c2, t)
  BY DEF Sound, Types, Retires, Claims, BrokerTypes, RadioTypes, CodecTypes, RuntimeTypes,
     AtRest, Serving
<1>9. Faults(s, c2, t)
  BY DEF Sound, Types, Faults, BrokerTypes, CodecTypes, RuntimeTypes
<1> QED
  BY <1>1, <1>2, <1>3, <1>4, <1>5, <1>6, <1>7, <1>8, <1>9 DEF Sound

(* schedule_retirement claims the runtime.                                 *)
LEMMA RetirementClaimed ==
  ASSUME Bounds, NEW s, NEW h, NEW r, NEW p, NEW c, NEW t, NEW f, Sound(s, h, r, p, c, t, f),
         c.pc = "retirement", t.busy = "no", t.retire # 0,
         NEW c2, c2 = [c EXCEPT !.pc = "take"],
         NEW t2, t2 = [t EXCEPT !.busy = "retire"]
  PROVE  Sound(s, h, r, p, c2, t2, f)
<1>1. Types(s, h, r, p, c2, t2, f)
  BY DEF Sound, Types, CodecTypes, RuntimeTypes
<1>2. Counted(s, r, p, c2)
  BY DEF Sound, Types, Counted, BrokerTypes, RadioTypes, PumpTypes, CodecTypes, One, Acting
<1>3. Sessions(s, r, p, c2)
  BY DEF Sound, Types, Sessions, BrokerTypes, RadioTypes, PumpTypes, CodecTypes, Acting
<1>4. Flags(s, r, p, c2)
  BY DEF Sound, Types, Flags, BrokerTypes, RadioTypes, PumpTypes, CodecTypes, Deliverable
<1>5. Submits(s, r, c2, t2, f)
  BY DEF Sound, Types, Submits, BrokerTypes, RadioTypes, CodecTypes, RuntimeTypes, Unserved,
     Serving
<1>6. Claims(r, c2, t2)
  BY DEF Sound, Types, Claims, RadioTypes, CodecTypes, RuntimeTypes, Serving, AtRest
<1>7. Serves(s, c2, t2, f)
  BY DEF Sound, Types, Serves, BrokerTypes, CodecTypes, RuntimeTypes, Inside, IsNext, Continuing,
     Parts
<1>8. Retires(s, h, c2, t2)
  BY DEF Sound, Types, Retires, BrokerTypes, CodecTypes, RuntimeTypes, AtRest
<1>9. Faults(s, c2, t2)
  BY DEF Sound, Types, Faults, BrokerTypes, CodecTypes, RuntimeTypes
<1> QED
  BY <1>1, <1>2, <1>3, <1>4, <1>5, <1>6, <1>7, <1>8, <1>9 DEF Sound

(* The codec thread begins to retire.                                      *)
LEMMA RetirementTaken ==
  ASSUME Bounds, NEW s, NEW h, NEW r, NEW p, NEW c, NEW t, NEW f, Sound(s, h, r, p, c, t, f),
         c.pc = "take", t.busy = "retire",
         NEW c2, c2 = [c EXCEPT !.pc = "retire", !.epoch = t.retire, !.rc = "ok"]
  PROVE  Sound(s, h, r, p, c2, t, f)
<1>1. Types(s, h, r, p, c2, t, f)
  <2>1. c2 \in CodecTypes
    BY DEF Sound, Types, CodecTypes, RuntimeTypes
  <2> QED
    BY <2>1 DEF Sound, Types
<1>2. Counted(s, r, p, c2)
  BY DEF Sound, Types, Counted, BrokerTypes, RadioTypes, PumpTypes, CodecTypes, One, Acting
<1>3. Sessions(s, r, p, c2)
  BY DEF Sound, Types, Sessions, BrokerTypes, RadioTypes, PumpTypes, CodecTypes, Acting
<1>4. Flags(s, r, p, c2)
  BY DEF Sound, Types, Flags, BrokerTypes, RadioTypes, PumpTypes, CodecTypes, Deliverable
<1>5. Submits(s, r, c2, t, f)
  BY DEF Sound, Types, Submits, BrokerTypes, RadioTypes, CodecTypes, RuntimeTypes, Unserved,
     Serving
<1>6. Claims(r, c2, t)
  BY DEF Sound, Types, Claims, Retires, BrokerTypes, RadioTypes, CodecTypes, RuntimeTypes,
     Serving, AtRest
<1>7. Serves(s, c2, t, f)
  BY DEF Sound, Types, Serves, BrokerTypes, CodecTypes, RuntimeTypes, Inside, IsNext, Continuing,
     Parts
<1>8. Retires(s, h, c2, t)
  BY DEF Sound, Types, Retires, BrokerTypes, CodecTypes, RuntimeTypes, AtRest
<1>9. Faults(s, c2, t)
  BY DEF Sound, Types, Faults, Retires, BrokerTypes, CodecTypes, RuntimeTypes, AtRest
<1> QED
  BY <1>1, <1>2, <1>3, <1>4, <1>5, <1>6, <1>7, <1>8, <1>9 DEF Sound

(* The codec thread begins to serve.                                       *)
LEMMA MessageTaken ==
  ASSUME Bounds, NEW s, NEW h, NEW r, NEW p, NEW c, NEW t, NEW f, Sound(s, h, r, p, c, t, f),
         c.pc = "take", t.msg # NoReq,
         NEW c2, c2 = [pc |-> "perform", epoch |-> t.epoch, req |-> t.msg, rc |-> "ok", part |-> 1],
         NEW t2, t2 = [t EXCEPT !.msg = NoReq]
  PROVE  Sound(s, h, r, p, c2, t2, f)
<1>a. s.pending /\ s.req = t.msg /\ t.msg \in Requests /\ Parts(t.msg.cmd) \in 1..2
  BY RequestFacts DEF Sound, Flags, Serves
<1>1. Types(s, h, r, p, c2, t2, f)
  <2>1. c2 \in CodecTypes
    BY DEF Sound, Types, CodecTypes, RuntimeTypes
  <2>2. t2 \in RuntimeTypes
    BY NoTypes DEF Sound, Types, RuntimeTypes
  <2> QED
    BY <2>1, <2>2 DEF Sound, Types
<1>2. Counted(s, r, p, c2)
  BY DEF Sound, Types, Counted, BrokerTypes, RadioTypes, PumpTypes, CodecTypes, One, Acting
<1>3. Sessions(s, r, p, c2)
  BY DEF Sound, Types, Sessions, BrokerTypes, RadioTypes, PumpTypes, CodecTypes, Acting
<1>4. Flags(s, r, p, c2)
  BY DEF Sound, Types, Flags, Serves, BrokerTypes, RadioTypes, PumpTypes, CodecTypes,
     RuntimeTypes, Deliverable, Inside, IsNext, Continuing, Parts
<1>5. Submits(s, r, c2, t2, f)
  BY DEF Sound, Types, Submits, Serves, BrokerTypes, RadioTypes, CodecTypes, RuntimeTypes,
     Unserved, Serving, Inside, IsNext, Continuing, Parts
<1>6. Claims(r, c2, t2)
  BY DEF Sound, Types, Claims, Submits, BrokerTypes, RadioTypes, CodecTypes, RuntimeTypes,
     Serving, AtRest, Unserved
<1>7. Serves(s, c2, t2, f)
  BY <1>a
   DEF Sound, Types, Serves, Flags, BrokerTypes, RadioTypes, PumpTypes, CodecTypes,
      RuntimeTypes, Inside, IsNext, Continuing, Parts, Deliverable
<1>8. Retires(s, h, c2, t2)
  BY DEF Sound, Types, Retires, Claims, BrokerTypes, RadioTypes, CodecTypes, RuntimeTypes,
     AtRest, Serving
<1>9. Faults(s, c2, t2)
  BY DEF Sound, Types, Faults, Retires, BrokerTypes, CodecTypes, RuntimeTypes, AtRest
<1> QED
  BY <1>1, <1>2, <1>3, <1>4, <1>5, <1>6, <1>7, <1>8, <1>9 DEF Sound

(* There is nothing to do.                                                 *)
LEMMA NothingTaken ==
  ASSUME Bounds, NEW s, NEW h, NEW r, NEW p, NEW c, NEW t, NEW f, Sound(s, h, r, p, c, t, f),
         c.pc = "take", t.busy # "retire",
         NEW c2, c2 = [c EXCEPT !.pc = "poll"]
  PROVE  Sound(s, h, r, p, c2, t, f)
<1>1. Types(s, h, r, p, c2, t, f)
  BY DEF Sound, Types, CodecTypes
<1>2. Counted(s, r, p, c2)
  BY DEF Sound, Types, Counted, BrokerTypes, RadioTypes, PumpTypes, CodecTypes, One, Acting
<1>3. Sessions(s, r, p, c2)
  BY DEF Sound, Types, Sessions, BrokerTypes, RadioTypes, PumpTypes, CodecTypes, Acting
<1>4. Flags(s, r, p, c2)
  BY DEF Sound, Types, Flags, BrokerTypes, RadioTypes, PumpTypes, CodecTypes, Deliverable
<1>5. Submits(s, r, c2, t, f)
  BY DEF Sound, Types, Submits, BrokerTypes, RadioTypes, CodecTypes, RuntimeTypes, Unserved,
     Serving
<1>6. Claims(r, c2, t)
  BY DEF Sound, Types, Claims, RadioTypes, CodecTypes, RuntimeTypes, Serving, AtRest
<1>7. Serves(s, c2, t, f)
  BY DEF Sound, Types, Serves, BrokerTypes, CodecTypes, RuntimeTypes, Inside, IsNext, Continuing,
     Parts
<1>8. Retires(s, h, c2, t)
  BY DEF Sound, Types, Retires, BrokerTypes, CodecTypes, RuntimeTypes, AtRest
<1>9. Faults(s, c2, t)
  BY DEF Sound, Types, Faults, BrokerTypes, CodecTypes, RuntimeTypes
<1> QED
  BY <1>1, <1>2, <1>3, <1>4, <1>5, <1>6, <1>7, <1>8, <1>9 DEF Sound

(* The volume is leased, or let go of.                                     *)
LEMMA Leased ==
  ASSUME Bounds, NEW s, NEW h, NEW r, NEW p, NEW c, NEW t, NEW f, Sound(s, h, r, p, c, t, f),
         NEW x \in BOOLEAN,
         NEW t2, t2 = [t EXCEPT !.leased = x]
  PROVE  Sound(s, h, r, p, c, t2, f)
<1>1. Types(s, h, r, p, c, t2, f)
  BY DEF Sound, Types, RuntimeTypes
<1>2. Submits(s, r, c, t2, f)
  BY DEF Sound, Types, Submits, BrokerTypes, RadioTypes, CodecTypes, RuntimeTypes, Unserved,
     Serving
<1>3. Claims(r, c, t2)
  BY DEF Sound, Types, Claims, RadioTypes, CodecTypes, RuntimeTypes, Serving, AtRest
<1>4. Serves(s, c, t2, f)
  BY DEF Sound, Types, Serves, BrokerTypes, CodecTypes, RuntimeTypes, Inside, IsNext, Continuing,
     Parts
<1>5. Retires(s, h, c, t2)
  BY DEF Sound, Types, Retires, BrokerTypes, CodecTypes, RuntimeTypes, AtRest
<1>6. Faults(s, c, t2)
  BY DEF Sound, Types, Faults, BrokerTypes, CodecTypes, RuntimeTypes
<1> QED
  BY <1>1, <1>2, <1>3, <1>4, <1>5, <1>6 DEF Sound

(* The request, or the next frame of it, was served, refused or has failed. *)
LEMMA Performed ==
  ASSUME Bounds, NEW s, NEW h, NEW r, NEW p, NEW c, NEW t, NEW f, Sound(s, h, r, p, c, t, f),
         NEW x \in {"ok", "refused", "failed"},
         c.pc = "perform", x # "failed" => ~s.terminal, x = "ok" => ~s.revoked \/ c.part = 1,
         NEW c2, c2 = [c EXCEPT !.pc = "complete", !.rc = x]
  PROVE  Sound(s, h, r, p, c2, t, f)
<1>1. Types(s, h, r, p, c2, t, f)
  BY DEF Sound, Types, CodecTypes
<1>2. Counted(s, r, p, c2)
  BY DEF Sound, Types, Counted, BrokerTypes, RadioTypes, PumpTypes, CodecTypes, One, Acting
<1>3. Sessions(s, r, p, c2)
  BY DEF Sound, Types, Sessions, BrokerTypes, RadioTypes, PumpTypes, CodecTypes, Acting
<1>4. Flags(s, r, p, c2)
  BY DEF Sound, Types, Flags, BrokerTypes, RadioTypes, PumpTypes, CodecTypes, Deliverable
<1>5. Submits(s, r, c2, t, f)
  BY DEF Sound, Types, Submits, BrokerTypes, RadioTypes, CodecTypes, RuntimeTypes, Unserved,
     Serving
<1>6. Claims(r, c2, t)
  BY DEF Sound, Types, Claims, RadioTypes, CodecTypes, RuntimeTypes, Serving, AtRest
<1>7. Serves(s, c2, t, f)
  BY DEF Sound, Types, Serves, BrokerTypes, CodecTypes, RuntimeTypes, Inside, IsNext, Continuing,
     Parts
<1>8. Retires(s, h, c2, t)
  BY DEF Sound, Types, Retires, BrokerTypes, CodecTypes, RuntimeTypes, AtRest
<1>9. Faults(s, c2, t)
  BY DEF Sound, Types, Faults, Serves, BrokerTypes, CodecTypes, RuntimeTypes, Inside, IsNext,
     Continuing, Parts
<1> QED
  BY <1>1, <1>2, <1>3, <1>4, <1>5, <1>6, <1>7, <1>8, <1>9 DEF Sound

(* complete() closes the request to others.                                *)
LEMMA Completed ==
  ASSUME Bounds, NEW s, NEW h, NEW r, NEW p, NEW c, NEW t, NEW f, Sound(s, h, r, p, c, t, f),
         c.pc = "complete", ~s.terminal,
         NEW s2, s2 = [s EXCEPT !.completing = TRUE, !.actors = @ + 1],
         NEW c2, c2 = [c EXCEPT !.pc = "stage"]
  PROVE  Sound(s2, h, r, p, c2, t, f)
<1>a. s.actors + 1 \in 0..3
  BY DEF Sound, Types, BrokerTypes, Counted, One, Acting
<1>1. Types(s2, h, r, p, c2, t, f)
  <2>1. s2 \in BrokerTypes
    BY <1>a DEF Sound, Types, BrokerTypes
  <2>2. c2 \in CodecTypes
    BY DEF Sound, Types, CodecTypes
  <2> QED
    BY <2>1, <2>2 DEF Sound, Types
<1>2. Counted(s2, r, p, c2)
  BY DEF Sound, Types, Counted, BrokerTypes, RadioTypes, PumpTypes, CodecTypes, One, Acting
<1>3. Sessions(s2, r, p, c2)
  BY DEF Sound, Types, Sessions, Serves, Flags, BrokerTypes, RadioTypes, PumpTypes, CodecTypes,
     RuntimeTypes, Acting, Inside, IsNext, Continuing, Parts, Deliverable
<1>4. Flags(s2, r, p, c2)
  BY DEF Sound, Types, Flags, Serves, BrokerTypes, RadioTypes, PumpTypes, CodecTypes,
     RuntimeTypes, Deliverable, Inside, IsNext, Continuing, Parts
<1>5. Submits(s2, r, c2, t, f)
  BY DEF Sound, Types, Submits, BrokerTypes, RadioTypes, CodecTypes, RuntimeTypes, Unserved,
     Serving
<1>6. Claims(r, c2, t)
  BY DEF Sound, Types, Claims, RadioTypes, CodecTypes, RuntimeTypes, Serving, AtRest
<1>7. Serves(s2, c2, t, f)
  BY DEF Sound, Types, Serves, BrokerTypes, CodecTypes, RuntimeTypes, Inside, IsNext, Continuing,
     Parts
<1>8. Retires(s2, h, c2, t)
  BY DEF Sound, Types, Retires, BrokerTypes, CodecTypes, RuntimeTypes, AtRest
<1>9. Faults(s2, c2, t)
  BY DEF Sound, Types, Faults, BrokerTypes, CodecTypes, RuntimeTypes
<1>10. Delivers(s2, p, f)
  BY DEF Sound, Types, Delivers, BrokerTypes, PumpTypes, HeardTypes, Parts
<1> QED
  BY <1>1, <1>2, <1>3, <1>4, <1>5, <1>6, <1>7, <1>8, <1>9, <1>10 DEF Sound

(* complete() refuses what has failed, if a frame is still staged.         *)
LEMMA Contradicted ==
  ASSUME Bounds, NEW s, NEW h, NEW r, NEW p, NEW c, NEW t, NEW f, Sound(s, h, r, p, c, t, f),
         c.pc = "complete", c.rc = "failed",
         NEW c2, c2 = [c EXCEPT !.pc = "done"]
  PROVE  Sound(s, h, r, p, c2, t, f)
<1>1. Types(s, h, r, p, c2, t, f)
  BY DEF Sound, Types, CodecTypes
<1>2. Counted(s, r, p, c2)
  BY DEF Sound, Types, Counted, BrokerTypes, RadioTypes, PumpTypes, CodecTypes, One, Acting
<1>3. Sessions(s, r, p, c2)
  BY DEF Sound, Types, Sessions, BrokerTypes, RadioTypes, PumpTypes, CodecTypes, Acting
<1>4. Flags(s, r, p, c2)
  BY DEF Sound, Types, Flags, BrokerTypes, RadioTypes, PumpTypes, CodecTypes, Deliverable
<1>5. Submits(s, r, c2, t, f)
  BY DEF Sound, Types, Submits, BrokerTypes, RadioTypes, CodecTypes, RuntimeTypes, Unserved,
     Serving
<1>6. Claims(r, c2, t)
  BY DEF Sound, Types, Claims, RadioTypes, CodecTypes, RuntimeTypes, Serving, AtRest
<1>7. Serves(s, c2, t, f)
  BY DEF Sound, Types, Serves, BrokerTypes, CodecTypes, RuntimeTypes, Inside, IsNext, Continuing,
     Parts
<1>8. Retires(s, h, c2, t)
  BY DEF Sound, Types, Retires, BrokerTypes, CodecTypes, RuntimeTypes, AtRest
<1>9. Faults(s, c2, t)
  BY DEF Sound, Types, Faults, BrokerTypes, CodecTypes, RuntimeTypes
<1> QED
  BY <1>1, <1>2, <1>3, <1>4, <1>5, <1>6, <1>7, <1>8, <1>9 DEF Sound

(* The answer is staged: the frame after the frames sent.                  *)
LEMMA StagedFrame ==
  ASSUME Bounds, NEW s, NEW h, NEW r, NEW p, NEW c, NEW t, NEW f, Sound(s, h, r, p, c, t, f),
         c.pc = "stage", c.rc = "ok",
         NEW s2, s2 = [s EXCEPT !.more = Continuing(c), !.terminal = TRUE, !.ok = TRUE,
                            !.completing = FALSE,
                            !.response = [req |-> c.req, part |-> c.part]],
         NEW c2, c2 = [c EXCEPT !.pc = "schedule"]
  PROVE  Sound(s2, h, r, p, c2, t, f)
<1>1. Types(s2, h, r, p, c2, t, f)
  <2>1. s2 \in BrokerTypes
    <3>1. s \in BrokerTypes /\ c.req \in Asked /\ c.part \in 0..2
      BY DEF Sound, Types, CodecTypes
    <3>2. PICK y \in BOOLEAN : y = Continuing(c)
      BY DEF Continuing
    <3>3. PICK g \in FrameTypes : g = [req |-> c.req, part |-> c.part]
      BY <3>1 DEF FrameTypes
    <3>4. [s EXCEPT !.more = y, !.terminal = TRUE, !.ok = TRUE, !.completing = FALSE,
                    !.response = g] \in BrokerTypes
      BY ONLY <3>1, <3>2, <3>3 DEF BrokerTypes
    <3> QED
      BY <3>2, <3>3, <3>4
  <2>2. c2 \in CodecTypes
    BY DEF Sound, Types, CodecTypes
  <2> QED
    BY <2>1, <2>2 DEF Sound, Types
<1>2. Counted(s2, r, p, c2)
  BY DEF Sound, Types, Counted, BrokerTypes, RadioTypes, PumpTypes, CodecTypes, One, Acting
<1>3. Sessions(s2, r, p, c2)
  BY DEF Sound, Types, Sessions, Serves, BrokerTypes, RadioTypes, PumpTypes, CodecTypes,
     RuntimeTypes, Acting, Inside, IsNext, Continuing, Parts
<1>4. Flags(s2, r, p, c2)
  BY DEF Sound, Types, Flags, Serves, BrokerTypes, RadioTypes, PumpTypes, CodecTypes,
     RuntimeTypes, Deliverable, Inside, IsNext, Continuing, Parts
<1>5. Submits(s2, r, c2, t, f)
  BY DEF Sound, Types, Submits, BrokerTypes, RadioTypes, CodecTypes, RuntimeTypes, Unserved,
     Serving
<1>6. Claims(r, c2, t)
  BY DEF Sound, Types, Claims, RadioTypes, CodecTypes, RuntimeTypes, Serving, AtRest
<1>7. Serves(s2, c2, t, f)
  BY DEF Sound, Types, Serves, Flags, Claims, BrokerTypes, RadioTypes, PumpTypes, CodecTypes,
     RuntimeTypes, Inside, IsNext, Continuing, Parts, Deliverable, Serving, AtRest
<1>8. Retires(s2, h, c2, t)
  BY DEF Sound, Types, Retires, BrokerTypes, CodecTypes, RuntimeTypes, AtRest
<1>9. Faults(s2, c2, t)
  BY DEF Sound, Types, Faults, BrokerTypes, CodecTypes, RuntimeTypes
<1>10. Delivers(s2, p, f)
  BY DEF Sound, Types, Delivers, Serves, Flags, BrokerTypes, RadioTypes, PumpTypes, CodecTypes,
     RuntimeTypes, HeardTypes, Parts, Inside, IsNext, Continuing, Deliverable
<1> QED
  BY <1>1, <1>2, <1>3, <1>4, <1>5, <1>6, <1>7, <1>8, <1>9, <1>10 DEF Sound

(* A refusal, or a failure, is staged without a frame.                     *)
LEMMA StagedRefusal ==
  ASSUME Bounds, NEW s, NEW h, NEW r, NEW p, NEW c, NEW t, NEW f, Sound(s, h, r, p, c, t, f),
         c.pc = "stage", c.rc # "ok",
         NEW s2, s2 = [s EXCEPT !.more = FALSE, !.terminal = TRUE, !.ok = FALSE, !.completing = FALSE],
         NEW c2, c2 = [c EXCEPT !.pc = "schedule"]
  PROVE  Sound(s2, h, r, p, c2, t, f)
<1>1. Types(s2, h, r, p, c2, t, f)
  BY DEF Sound, Types, BrokerTypes, CodecTypes
<1>2. Counted(s2, r, p, c2)
  BY DEF Sound, Types, Counted, BrokerTypes, RadioTypes, PumpTypes, CodecTypes, One, Acting
<1>3. Sessions(s2, r, p, c2)
  BY DEF Sound, Types, Sessions, Serves, BrokerTypes, RadioTypes, PumpTypes, CodecTypes,
     RuntimeTypes, Acting, Inside, IsNext, Continuing, Parts
<1>4. Flags(s2, r, p, c2)
  BY DEF Sound, Types, Flags, Serves, BrokerTypes, RadioTypes, PumpTypes, CodecTypes,
     RuntimeTypes, Deliverable, Inside, IsNext, Continuing, Parts
<1>5. Submits(s2, r, c2, t, f)
  BY DEF Sound, Types, Submits, BrokerTypes, RadioTypes, CodecTypes, RuntimeTypes, Unserved,
     Serving
<1>6. Claims(r, c2, t)
  BY DEF Sound, Types, Claims, RadioTypes, CodecTypes, RuntimeTypes, Serving, AtRest
<1>7. Serves(s2, c2, t, f)
  BY DEF Sound, Types, Serves, Flags, Claims, BrokerTypes, RadioTypes, PumpTypes, CodecTypes,
     RuntimeTypes, Inside, IsNext, Continuing, Parts, Deliverable, Serving, AtRest
<1>8. Retires(s2, h, c2, t)
  BY DEF Sound, Types, Retires, BrokerTypes, CodecTypes, RuntimeTypes, AtRest
<1>9. Faults(s2, c2, t)
  BY DEF Sound, Types, Faults, BrokerTypes, CodecTypes, RuntimeTypes
<1>10. Delivers(s2, p, f)
  BY DEF Sound, Types, Delivers, Serves, Flags, BrokerTypes, RadioTypes, PumpTypes, CodecTypes,
     RuntimeTypes, HeardTypes, Parts, Inside, IsNext, Continuing, Deliverable
<1> QED
  BY <1>1, <1>2, <1>3, <1>4, <1>5, <1>6, <1>7, <1>8, <1>9, <1>10 DEF Sound

(* A step to the end of the call.                                          *)
LEMMA CodecGoes ==
  ASSUME Bounds, NEW s, NEW h, NEW r, NEW p, NEW c, NEW t, NEW f, Sound(s, h, r, p, c, t, f),
         c.pc = "schedule",
         NEW c2, c2 = [c EXCEPT !.pc = "leave"]
  PROVE  Sound(s, h, r, p, c2, t, f)
<1>1. Types(s, h, r, p, c2, t, f)
  BY DEF Sound, Types, CodecTypes
<1>2. Counted(s, r, p, c2)
  BY DEF Sound, Types, Counted, BrokerTypes, RadioTypes, PumpTypes, CodecTypes, One, Acting
<1>3. Sessions(s, r, p, c2)
  BY DEF Sound, Types, Sessions, BrokerTypes, RadioTypes, PumpTypes, CodecTypes, Acting
<1>4. Flags(s, r, p, c2)
  BY DEF Sound, Types, Flags, BrokerTypes, RadioTypes, PumpTypes, CodecTypes, Deliverable
<1>5. Submits(s, r, c2, t, f)
  BY DEF Sound, Types, Submits, BrokerTypes, RadioTypes, CodecTypes, RuntimeTypes, Unserved,
     Serving
<1>6. Claims(r, c2, t)
  BY DEF Sound, Types, Claims, RadioTypes, CodecTypes, RuntimeTypes, Serving, AtRest
<1>7. Serves(s, c2, t, f)
  BY DEF Sound, Types, Serves, BrokerTypes, CodecTypes, RuntimeTypes, Inside, IsNext, Continuing,
     Parts
<1>8. Retires(s, h, c2, t)
  BY DEF Sound, Types, Retires, BrokerTypes, CodecTypes, RuntimeTypes, AtRest
<1>9. Faults(s, c2, t)
  BY DEF Sound, Types, Faults, BrokerTypes, CodecTypes, RuntimeTypes
<1> QED
  BY <1>1, <1>2, <1>3, <1>4, <1>5, <1>6, <1>7, <1>8, <1>9 DEF Sound

(* leave(), by the codec thread, with another frame to serve.              *)
LEMMA CodecGoesOn ==
  ASSUME Bounds, NEW s, NEW h, NEW r, NEW p, NEW c, NEW t, NEW f, Sound(s, h, r, p, c, t, f),
         c.pc = "leave", Continuing(c),
         NEW s2, s2 = [s EXCEPT !.actors = @ - 1],
         NEW c2, c2 = [c EXCEPT !.pc = "perform", !.part = @ + 1]
  PROVE  Sound(s2, h, r, p, c2, t, f)
<1>a. s.actors - 1 \in 0..3
  BY DEF Sound, Types, BrokerTypes, Counted, One, Acting
<1>b. c.part + 1 \in 0..2 /\ Parts(c.req.cmd) \in 1..2
  BY DEF Sound, Serves, Types, CodecTypes, Continuing, Parts
<1>1. Types(s2, h, r, p, c2, t, f)
  <2>1. s2 \in BrokerTypes
    BY <1>a DEF Sound, Types, BrokerTypes
  <2>2. c2 \in CodecTypes
    BY <1>b DEF Sound, Types, CodecTypes
  <2> QED
    BY <2>1, <2>2 DEF Sound, Types
<1>2. Counted(s2, r, p, c2)
  BY DEF Sound, Types, Counted, BrokerTypes, RadioTypes, PumpTypes, CodecTypes, One, Acting
<1>3. Sessions(s2, r, p, c2)
  BY DEF Sound, Types, Sessions, Counted, BrokerTypes, RadioTypes, PumpTypes, CodecTypes,
     Acting, One
<1>4. Flags(s2, r, p, c2)
  BY DEF Sound, Types, Flags, BrokerTypes, RadioTypes, PumpTypes, CodecTypes, Deliverable
<1>5. Submits(s2, r, c2, t, f)
  BY DEF Sound, Types, Submits, BrokerTypes, RadioTypes, CodecTypes, RuntimeTypes, Unserved,
     Serving
<1>6. Claims(r, c2, t)
  BY DEF Sound, Types, Claims, RadioTypes, CodecTypes, RuntimeTypes, Serving, AtRest
<1>7. Serves(s2, c2, t, f)
  <2>1. /\ s2.pending = s.pending /\ s2.req = s.req /\ s2.terminal = s.terminal /\ s2.more = s.more
        /\ s2.revoked = s.revoked /\ s2.sent = s.sent /\ s2.epoch = s.epoch
    BY DEF Sound, Types, BrokerTypes
  <2>2. /\ c2.pc = "perform" /\ c2.epoch = c.epoch /\ c2.req = c.req /\ c2.rc = c.rc
        /\ c2.part = c.part + 1
    BY DEF Sound, Types, CodecTypes
  <2>3. /\ s.pending /\ s.req = c.req /\ c.part = 1 /\ (s.terminal => s.more)
        /\ (~s.terminal /\ ~s.revoked => IsNext(s, f, 2))
    BY DEF Sound, Serves
  <2>4. c.epoch = s.epoch /\ t.msg = NoReq
    BY DEF Sound, Sessions, Acting, Claims, AtRest
  <2>5. c.rc = "ok" /\ Parts(c.req.cmd) = 2
    BY <1>b, <2>3 DEF Continuing
  <2>6. IsNext(s2, f, 2) <=> IsNext(s, f, 2)
    BY <2>1 DEF IsNext
  <2> QED
    BY <2>1, <2>2, <2>3, <2>4, <2>5, <2>6 DEF Serves, Inside
<1>8. Retires(s2, h, c2, t)
  BY DEF Sound, Types, Retires, BrokerTypes, CodecTypes, RuntimeTypes, AtRest
<1>9. Faults(s2, c2, t)
  BY DEF Sound, Types, Faults, BrokerTypes, CodecTypes, RuntimeTypes
<1>10. Delivers(s2, p, f)
  BY DEF Sound, Types, Delivers, BrokerTypes, PumpTypes, HeardTypes, Parts
<1> QED
  BY <1>1, <1>2, <1>3, <1>4, <1>5, <1>6, <1>7, <1>8, <1>9, <1>10 DEF Sound

(* leave(), by the codec thread, at the end of its work.                   *)
LEMMA CodecLeft ==
  ASSUME Bounds, NEW s, NEW h, NEW r, NEW p, NEW c, NEW t, NEW f, Sound(s, h, r, p, c, t, f),
         c.pc = "leave", ~Continuing(c),
         NEW s2, s2 = [s EXCEPT !.actors = @ - 1],
         NEW c2, c2 = [c EXCEPT !.pc = "done"]
  PROVE  Sound(s2, h, r, p, c2, t, f)
<1>a. s.actors - 1 \in 0..3
  BY DEF Sound, Types, BrokerTypes, Counted, One, Acting
<1>1. Types(s2, h, r, p, c2, t, f)
  <2>1. s2 \in BrokerTypes
    BY <1>a DEF Sound, Types, BrokerTypes
  <2>2. c2 \in CodecTypes
    BY DEF Sound, Types, CodecTypes
  <2> QED
    BY <2>1, <2>2 DEF Sound, Types
<1>2. Counted(s2, r, p, c2)
  BY DEF Sound, Types, Counted, BrokerTypes, RadioTypes, PumpTypes, CodecTypes, One, Acting
<1>3. Sessions(s2, r, p, c2)
  BY DEF Sound, Types, Sessions, Counted, BrokerTypes, RadioTypes, PumpTypes, CodecTypes,
     Acting, One
<1>4. Flags(s2, r, p, c2)
  BY DEF Sound, Types, Flags, BrokerTypes, RadioTypes, PumpTypes, CodecTypes, Deliverable
<1>5. Submits(s2, r, c2, t, f)
  BY DEF Sound, Types, Submits, BrokerTypes, RadioTypes, CodecTypes, RuntimeTypes, Unserved,
     Serving
<1>6. Claims(r, c2, t)
  BY DEF Sound, Types, Claims, RadioTypes, CodecTypes, RuntimeTypes, Serving, AtRest
<1>7. Serves(s2, c2, t, f)
  BY DEF Sound, Types, Serves, BrokerTypes, CodecTypes, RuntimeTypes, Inside, IsNext, Continuing,
     Parts
<1>8. Retires(s2, h, c2, t)
  BY DEF Sound, Types, Retires, BrokerTypes, CodecTypes, RuntimeTypes, AtRest
<1>9. Faults(s2, c2, t)
  BY DEF Sound, Types, Faults, BrokerTypes, CodecTypes, RuntimeTypes
<1>10. Delivers(s2, p, f)
  BY DEF Sound, Types, Delivers, BrokerTypes, PumpTypes, HeardTypes, Parts
<1> QED
  BY <1>1, <1>2, <1>3, <1>4, <1>5, <1>6, <1>7, <1>8, <1>9, <1>10 DEF Sound

(* The runtime is let go of.                                               *)
LEMMA Finished ==
  ASSUME Bounds, NEW s, NEW h, NEW r, NEW p, NEW c, NEW t, NEW f, Sound(s, h, r, p, c, t, f),
         c.pc = "done",
         NEW c2, c2 = IdleCodec,
         NEW t2, t2 = [t EXCEPT !.busy = "no", !.faulted = @ \/ c.rc \in {"failed", "contradicted"}]
  PROVE  Sound(s, h, r, p, c2, t2, f)
<1>1. Types(s, h, r, p, c2, t2, f)
  <2>1. c2 \in CodecTypes
    BY NoTypes DEF Sound, Types, CodecTypes
  <2>2. t2 \in RuntimeTypes
    BY DEF Sound, Types, RuntimeTypes
  <2> QED
    BY <2>1, <2>2 DEF Sound, Types
<1>2. Counted(s, r, p, c2)
  BY DEF Sound, Types, Counted, BrokerTypes, RadioTypes, PumpTypes, CodecTypes, One, Acting,
     IdleCodec
<1>3. Sessions(s, r, p, c2)
  BY DEF Sound, Types, Sessions, BrokerTypes, RadioTypes, PumpTypes, CodecTypes, Acting,
     IdleCodec
<1>4. Flags(s, r, p, c2)
  BY DEF Sound, Types, Flags, BrokerTypes, RadioTypes, PumpTypes, CodecTypes, Deliverable,
     IdleCodec
<1>5. Submits(s, r, c2, t2, f)
  BY DEF Sound, Types, Submits, BrokerTypes, RadioTypes, CodecTypes, RuntimeTypes, Unserved,
     Serving, IdleCodec
<1>6. Claims(r, c2, t2)
  BY DEF Sound, Types, Claims, Submits, BrokerTypes, RadioTypes, CodecTypes, RuntimeTypes,
     Serving, AtRest, Unserved, IdleCodec
<1>7. Serves(s, c2, t2, f)
  BY DEF Sound, Types, Serves, BrokerTypes, CodecTypes, RuntimeTypes, Inside, IsNext, Continuing,
     Parts, IdleCodec
<1>8. Retires(s, h, c2, t2)
  BY DEF Sound, Types, Retires, BrokerTypes, CodecTypes, RuntimeTypes, AtRest, IdleCodec
<1>9. Faults(s, c2, t2)
  BY DEF Sound, Types, Faults, BrokerTypes, CodecTypes, RuntimeTypes, IdleCodec
<1> QED
  BY <1>1, <1>2, <1>3, <1>4, <1>5, <1>6, <1>7, <1>8, <1>9 DEF Sound

(* The retire hook latches its session.                                    *)
LEMMA Latched ==
  ASSUME Bounds, NEW s, NEW h, NEW r, NEW p, NEW c, NEW t, NEW f, Sound(s, h, r, p, c, t, f),
         h # 0,
         NEW h2, h2 = 0,
         NEW t2, t2 = [t EXCEPT !.retire = h]
  PROVE  Sound(s, h2, r, p, c, t2, f)
<1>1. Types(s, h2, r, p, c, t2, f)
  <2>1. h2 \in Nat
    BY DEF Sound, Types
  <2>2. t2 \in RuntimeTypes
    BY DEF Sound, Types, RuntimeTypes
  <2> QED
    BY <2>1, <2>2 DEF Sound, Types
<1>2. Submits(s, r, c, t2, f)
  BY DEF Sound, Types, Submits, BrokerTypes, RadioTypes, CodecTypes, RuntimeTypes, Unserved,
     Serving
<1>3. Claims(r, c, t2)
  BY DEF Sound, Types, Claims, RadioTypes, CodecTypes, RuntimeTypes, Serving, AtRest
<1>4. Serves(s, c, t2, f)
  BY DEF Sound, Types, Serves, BrokerTypes, CodecTypes, RuntimeTypes, Inside, IsNext, Continuing,
     Parts
<1>5. Retires(s, h2, c, t2)
  BY DEF Sound, Types, Retires, BrokerTypes, CodecTypes, RuntimeTypes, AtRest
<1>6. Faults(s, c, t2)
  BY DEF Sound, Types, Faults, BrokerTypes, CodecTypes, RuntimeTypes
<1> QED
  BY <1>1, <1>2, <1>3, <1>4, <1>5, <1>6 DEF Sound

(* retire_perform has succeeded.                                           *)
LEMMA VolumeRetired ==
  ASSUME Bounds, NEW s, NEW h, NEW r, NEW p, NEW c, NEW t, NEW f, Sound(s, h, r, p, c, t, f),
         c.pc = "retire",
         NEW c2, c2 = [c EXCEPT !.pc = "retired"]
  PROVE  Sound(s, h, r, p, c2, t, f)
<1>1. Types(s, h, r, p, c2, t, f)
  BY DEF Sound, Types, CodecTypes
<1>2. Counted(s, r, p, c2)
  BY DEF Sound, Types, Counted, BrokerTypes, RadioTypes, PumpTypes, CodecTypes, One, Acting
<1>3. Sessions(s, r, p, c2)
  BY DEF Sound, Types, Sessions, BrokerTypes, RadioTypes, PumpTypes, CodecTypes, Acting
<1>4. Flags(s, r, p, c2)
  BY DEF Sound, Types, Flags, BrokerTypes, RadioTypes, PumpTypes, CodecTypes, Deliverable
<1>5. Submits(s, r, c2, t, f)
  BY DEF Sound, Types, Submits, BrokerTypes, RadioTypes, CodecTypes, RuntimeTypes, Unserved,
     Serving
<1>6. Claims(r, c2, t)
  BY DEF Sound, Types, Claims, RadioTypes, CodecTypes, RuntimeTypes, Serving, AtRest
<1>7. Serves(s, c2, t, f)
  BY DEF Sound, Types, Serves, BrokerTypes, CodecTypes, RuntimeTypes, Inside, IsNext, Continuing,
     Parts
<1>8. Retires(s, h, c2, t)
  BY DEF Sound, Types, Retires, BrokerTypes, CodecTypes, RuntimeTypes, AtRest
<1>9. Faults(s, c2, t)
  BY DEF Sound, Types, Faults, BrokerTypes, CodecTypes, RuntimeTypes
<1> QED
  BY <1>1, <1>2, <1>3, <1>4, <1>5, <1>6, <1>7, <1>8, <1>9 DEF Sound

(* retire_perform has failed.                                              *)
LEMMA VolumeStuck ==
  ASSUME Bounds, NEW s, NEW h, NEW r, NEW p, NEW c, NEW t, NEW f, Sound(s, h, r, p, c, t, f),
         c.pc = "retire",
         NEW c2, c2 = [c EXCEPT !.pc = "retired", !.rc = "failed"]
  PROVE  Sound(s, h, r, p, c2, t, f)
<1>1. Types(s, h, r, p, c2, t, f)
  BY DEF Sound, Types, CodecTypes
<1>2. Counted(s, r, p, c2)
  BY DEF Sound, Types, Counted, BrokerTypes, RadioTypes, PumpTypes, CodecTypes, One, Acting
<1>3. Sessions(s, r, p, c2)
  BY DEF Sound, Types, Sessions, BrokerTypes, RadioTypes, PumpTypes, CodecTypes, Acting
<1>4. Flags(s, r, p, c2)
  BY DEF Sound, Types, Flags, BrokerTypes, RadioTypes, PumpTypes, CodecTypes, Deliverable
<1>5. Submits(s, r, c2, t, f)
  BY DEF Sound, Types, Submits, BrokerTypes, RadioTypes, CodecTypes, RuntimeTypes, Unserved,
     Serving
<1>6. Claims(r, c2, t)
  BY DEF Sound, Types, Claims, RadioTypes, CodecTypes, RuntimeTypes, Serving, AtRest
<1>7. Serves(s, c2, t, f)
  BY DEF Sound, Types, Serves, BrokerTypes, CodecTypes, RuntimeTypes, Inside, IsNext, Continuing,
     Parts
<1>8. Retires(s, h, c2, t)
  BY DEF Sound, Types, Retires, BrokerTypes, CodecTypes, RuntimeTypes, AtRest
<1>9. Faults(s, c2, t)
  BY DEF Sound, Types, Faults, BrokerTypes, CodecTypes, RuntimeTypes
<1> QED
  BY <1>1, <1>2, <1>3, <1>4, <1>5, <1>6, <1>7, <1>8, <1>9 DEF Sound

(* The session cannot be retired.                                          *)
LEMMA RetirementFailed ==
  ASSUME Bounds, NEW s, NEW h, NEW r, NEW p, NEW c, NEW t, NEW f, Sound(s, h, r, p, c, t, f),
         c.pc = "retired", c.rc = "failed",
         NEW s2, s2 = [s EXCEPT !.fault = TRUE],
         NEW c2, c2 = [c EXCEPT !.pc = "done"]
  PROVE  Sound(s2, h, r, p, c2, t, f)
<1>1. Types(s2, h, r, p, c2, t, f)
  BY DEF Sound, Types, BrokerTypes, CodecTypes
<1>2. Counted(s2, r, p, c2)
  BY DEF Sound, Types, Counted, BrokerTypes, RadioTypes, PumpTypes, CodecTypes, One, Acting
<1>3. Sessions(s2, r, p, c2)
  BY DEF Sound, Types, Sessions, BrokerTypes, RadioTypes, PumpTypes, CodecTypes, Acting
<1>4. Flags(s2, r, p, c2)
  BY DEF Sound, Types, Flags, BrokerTypes, RadioTypes, PumpTypes, CodecTypes, Deliverable
<1>5. Submits(s2, r, c2, t, f)
  BY DEF Sound, Types, Submits, BrokerTypes, RadioTypes, CodecTypes, RuntimeTypes, Unserved,
     Serving
<1>6. Claims(r, c2, t)
  BY DEF Sound, Types, Claims, RadioTypes, CodecTypes, RuntimeTypes, Serving, AtRest
<1>7. Serves(s2, c2, t, f)
  BY DEF Sound, Types, Serves, BrokerTypes, CodecTypes, RuntimeTypes, Inside, IsNext, Continuing,
     Parts
<1>8. Retires(s2, h, c2, t)
  BY DEF Sound, Types, Retires, BrokerTypes, CodecTypes, RuntimeTypes, AtRest
<1>9. Faults(s2, c2, t)
  BY DEF Sound, Types, Faults, BrokerTypes, CodecTypes, RuntimeTypes
<1>10. Delivers(s2, p, f)
  BY DEF Sound, Types, Delivers, BrokerTypes, PumpTypes, HeardTypes, Parts
<1> QED
  BY <1>1, <1>2, <1>3, <1>4, <1>5, <1>6, <1>7, <1>8, <1>9, <1>10 DEF Sound

(* retire_pending is cleared.                                              *)
LEMMA Unlatched ==
  ASSUME Bounds, NEW s, NEW h, NEW r, NEW p, NEW c, NEW t, NEW f, Sound(s, h, r, p, c, t, f),
         c.pc = "unlatch",
         NEW c2, c2 = [c EXCEPT !.pc = "forget"],
         NEW t2, t2 = [t EXCEPT !.retire = 0]
  PROVE  Sound(s, h, r, p, c2, t2, f)
<1>1. Types(s, h, r, p, c2, t2, f)
  BY DEF Sound, Types, CodecTypes, RuntimeTypes
<1>2. Counted(s, r, p, c2)
  BY DEF Sound, Types, Counted, BrokerTypes, RadioTypes, PumpTypes, CodecTypes, One, Acting
<1>3. Sessions(s, r, p, c2)
  BY DEF Sound, Types, Sessions, BrokerTypes, RadioTypes, PumpTypes, CodecTypes, Acting
<1>4. Flags(s, r, p, c2)
  BY DEF Sound, Types, Flags, BrokerTypes, RadioTypes, PumpTypes, CodecTypes, Deliverable
<1>5. Submits(s, r, c2, t2, f)
  BY DEF Sound, Types, Submits, BrokerTypes, RadioTypes, CodecTypes, RuntimeTypes, Unserved,
     Serving
<1>6. Claims(r, c2, t2)
  BY DEF Sound, Types, Claims, RadioTypes, CodecTypes, RuntimeTypes, Serving, AtRest
<1>7. Serves(s, c2, t2, f)
  BY DEF Sound, Types, Serves, BrokerTypes, CodecTypes, RuntimeTypes, Inside, IsNext, Continuing,
     Parts
<1>8. Retires(s, h, c2, t2)
  BY DEF Sound, Types, Retires, Sessions, BrokerTypes, RadioTypes, PumpTypes, CodecTypes,
     RuntimeTypes, AtRest, Acting
<1>9. Faults(s, c2, t2)
  BY DEF Sound, Types, Faults, BrokerTypes, CodecTypes, RuntimeTypes
<1> QED
  BY <1>1, <1>2, <1>3, <1>4, <1>5, <1>6, <1>7, <1>8, <1>9 DEF Sound

(* catalog_epoch is cleared.                                               *)
LEMMA Forgotten ==
  ASSUME Bounds, NEW s, NEW h, NEW r, NEW p, NEW c, NEW t, NEW f, Sound(s, h, r, p, c, t, f),
         c.pc = "forget",
         NEW c2, c2 = [c EXCEPT !.pc = "done"],
         NEW t2, t2 = [t EXCEPT !.epoch = 0]
  PROVE  Sound(s, h, r, p, c2, t2, f)
<1>1. Types(s, h, r, p, c2, t2, f)
  BY DEF Sound, Types, CodecTypes, RuntimeTypes
<1>2. Counted(s, r, p, c2)
  BY DEF Sound, Types, Counted, BrokerTypes, RadioTypes, PumpTypes, CodecTypes, One, Acting
<1>3. Sessions(s, r, p, c2)
  BY DEF Sound, Types, Sessions, BrokerTypes, RadioTypes, PumpTypes, CodecTypes, Acting
<1>4. Flags(s, r, p, c2)
  BY DEF Sound, Types, Flags, BrokerTypes, RadioTypes, PumpTypes, CodecTypes, Deliverable
<1>5. Submits(s, r, c2, t2, f)
  BY DEF Sound, Types, Submits, Retires, Flags, BrokerTypes, RadioTypes, PumpTypes, CodecTypes,
     RuntimeTypes, Unserved, Serving, AtRest, Deliverable
<1>6. Claims(r, c2, t2)
  BY DEF Sound, Types, Claims, RadioTypes, CodecTypes, RuntimeTypes, Serving, AtRest
<1>7. Serves(s, c2, t2, f)
  BY DEF Sound, Types, Serves, Claims, BrokerTypes, RadioTypes, CodecTypes, RuntimeTypes,
     Inside, IsNext, Continuing, Parts, Serving, AtRest
<1>8. Retires(s, h, c2, t2)
  BY DEF Sound, Types, Retires, Sessions, Claims, BrokerTypes, RadioTypes, PumpTypes,
     CodecTypes, RuntimeTypes, AtRest, Acting, Serving
<1>9. Faults(s, c2, t2)
  BY DEF Sound, Types, Faults, BrokerTypes, CodecTypes, RuntimeTypes
<1> QED
  BY <1>1, <1>2, <1>3, <1>4, <1>5, <1>6, <1>7, <1>8, <1>9 DEF Sound

(* Another command claims the runtime, or lets go of it.                   *)
LEMMA OtherOwner ==
  ASSUME Bounds, NEW s, NEW h, NEW r, NEW p, NEW c, NEW t, NEW f, Sound(s, h, r, p, c, t, f),
         NEW x \in {"no", "other"},
         t.busy \in {"no", "other"},
         NEW t2, t2 = [t EXCEPT !.busy = x]
  PROVE  Sound(s, h, r, p, c, t2, f)
<1>1. Types(s, h, r, p, c, t2, f)
  BY DEF Sound, Types, RuntimeTypes
<1>2. Submits(s, r, c, t2, f)
  BY DEF Sound, Types, Submits, BrokerTypes, RadioTypes, CodecTypes, RuntimeTypes, Unserved,
     Serving
<1>3. Claims(r, c, t2)
  BY DEF Sound, Types, Claims, RadioTypes, CodecTypes, RuntimeTypes, Serving, AtRest
<1>4. Serves(s, c, t2, f)
  BY DEF Sound, Types, Serves, BrokerTypes, CodecTypes, RuntimeTypes, Inside, IsNext, Continuing,
     Parts
<1>5. Retires(s, h, c, t2)
  BY DEF Sound, Types, Retires, BrokerTypes, CodecTypes, RuntimeTypes, AtRest
<1>6. Faults(s, c, t2)
  BY DEF Sound, Types, Faults, BrokerTypes, CodecTypes, RuntimeTypes
<1> QED
  BY <1>1, <1>2, <1>3, <1>4, <1>5, <1>6 DEF Sound

-----------------------------------------------------------------------------
(* The actions.                                                            *)

(* recording_ble_command, its first section.                               *)
LEMMA WriteStep ==
  ASSUME Bounds, AllSound, NEW r \in Requests, Write(r)
  PROVE  AllSound'
<1> DEFINE e == IF b.fault THEN b ELSE Expire(b)
<1>1. Sound(e, hook, radio, pump, codec, rt, heard)
  BY Expired DEF AllSound
<1>2. radio.pc = "idle" /\ UNCHANGED <<rt, pump, codec, heard>>
  BY DEF Write
<1> HIDE DEF e
<1>3. CASE b.fault \/ Busy(e) \/ ~(Opens(e, r) \/ Continues(e, r))
  <2>1. b' = Kick(e) /\ hook' = HookAfterKick(e) /\ radio' = radio
    BY <1>3 DEF Write, e
  <2> QED
    BY <1>1, <1>2, <2>1, Kicked DEF AllSound
<1>4. CASE ~(b.fault \/ Busy(e) \/ ~(Opens(e, r) \/ Continues(e, r)))
  <2>1. /\ hook' = hook
        /\ b' = IF e.active THEN [e EXCEPT !.actors = @ + 1]
                ELSE [e EXCEPT !.active = TRUE, !.conn = r.by, !.nonce = r.nonce,
                               !.epoch = @ + 1, !.actors = @ + 1]
        /\ radio' = [pc |-> "permit", epoch |-> b'.epoch, req |-> r, ok |-> FALSE]
    BY <1>4 DEF Write, e
  <2>2. e \in BrokerTypes
    BY <1>1 DEF Sound, Types
  <2>3. CASE ~e.active
    <3>1. b'.epoch = e.epoch + 1
      BY <2>1, <2>2, <2>3 DEF BrokerTypes
    <3> QED
      BY <1>1, <1>2, <2>1, <2>3, <3>1, Opened DEF AllSound
  <2>4. CASE e.active
    <3>1. b'.epoch = e.epoch
      BY <2>1, <2>2, <2>4 DEF BrokerTypes
    <3>2. ~e.pending /\ e.actors = 0 /\ ~e.retiring /\ r.by = e.conn
      BY <1>4, <2>2, <2>4 DEF Busy, Opens, Continues, BrokerTypes
    <3> QED
      BY <1>1, <1>2, <2>1, <2>4, <3>1, <3>2, Continued DEF AllSound
  <2> QED
    BY <2>3, <2>4
<1> QED
  BY <1>3, <1>4

(* The hooks are asked, and what they said is acted upon later.            *)
LEMMA PermitStep ==
  ASSUME Bounds, AllSound, Permit
  PROVE  AllSound'
<1>1. PICK x \in BOOLEAN : radio' = [radio EXCEPT !.pc = "commit", !.ok = x]
  BY DEF Permit
<1>2. Sound(b', hook, radio, pump, codec, rt, heard)
  BY Expired DEF AllSound, Permit
<1> QED
  BY <1>1, <1>2, Permitted DEF AllSound, Permit

(* The second section.                                                     *)
LEMMA CommitStep ==
  ASSUME Bounds, AllSound, Commit
  PROVE  AllSound'
<1>1. CASE radio.ok /\ Live(radio.epoch)
  BY <1>1, Committed DEF AllSound, Commit, Goto
<1>2. CASE ~(radio.ok /\ Live(radio.epoch))
  <2>1. Sound(b', hook, radio, pump, codec, rt, heard)
    BY <1>2, Revoked DEF AllSound, Commit
  <2> QED
    BY <1>2, <2>1, RadioGoes DEF AllSound, Commit, Goto
<1> QED
  BY <1>1, <1>2

(* recording_runtime_sync_submit.                                          *)
LEMMA ClaimStep ==
  ASSUME Bounds, AllSound, Claim
  PROVE  AllSound'
<1>1. CASE Ready /\ Admitted(radio.epoch, radio.req) /\ rt.busy = "no"
  BY <1>1, Claimed DEF AllSound, Claim, Goto
<1>2. CASE ~(Ready /\ Admitted(radio.epoch, radio.req) /\ rt.busy = "no")
  BY <1>2, Unclaimed DEF AllSound, Claim
<1> QED
  BY <1>1, <1>2

(* ... and, with the runtime claimed, the message.                         *)
LEMMA EnqueueStep ==
  ASSUME Bounds, AllSound, Enqueue
  PROVE  AllSound'
<1> DEFINE G == /\ BaseReady
                /\ IF rt.epoch # 0 THEN rt.epoch = radio.epoch ELSE radio.req.cmd = "catalog"
<1>1. CASE G
  BY <1>1, Enqueued DEF AllSound, Enqueue, Goto
<1>2. CASE ~G
  BY <1>2, Unenqueued DEF AllSound, Enqueue
<1> QED
  BY <1>1, <1>2

(* The third section: the submission has succeeded or failed.              *)
LEMMA AfterStep ==
  ASSUME Bounds, AllSound, After
  PROVE  AllSound'
<1>1. CASE radio.ok
  BY <1>1, Accepted DEF AllSound, After, Goto
<1>2. CASE ~radio.ok
  BY <1>2, Refused DEF AllSound, After, Goto
<1> QED
  BY <1>1, <1>2

(* The last section of the receive thread.                                 *)
LEMMA RadioEndsStep ==
  ASSUME Bounds, AllSound, ScheduleAfter \/ LeaveRadio
  PROVE  AllSound'
<1>1. CASE ScheduleAfter
  <2>1. Sound(b', hook, radio, pump, codec, rt, heard)
    BY <1>1, ScheduledSound DEF AllSound, ScheduleAfter
  <2> QED
    BY <1>1, <2>1, RadioGoes DEF AllSound, ScheduleAfter, Goto
<1>2. CASE LeaveRadio
  <2>1. radio.pc = "leave" /\ b.actors # 0
    BY <1>2 DEF LeaveRadio, AllSound, Sound, Counted, One, Acting
  <2>2. Leaving(b) = [b EXCEPT !.actors = @ - 1]
    BY <2>1 DEF Leaving
  <2>3. Sound(Leaving(b), hook, IdleThread, pump, codec, rt, heard)
    BY <2>1, <2>2, RadioLeft DEF AllSound
  <2> QED
    BY <1>2, <2>3, Kicked DEF AllSound, LeaveRadio, Leave
<1> QED
  BY <1>1, <1>2

(* delivery_work_handler and deliver.                                      *)
LEMMA HandleStep ==
  ASSUME Bounds, AllSound, Handle
  PROVE  AllSound'
<1>1. Deliverable(b)
  BY DEF AllSound, Sound, Flags, Handle
<1> QED
  BY <1>1, Handled DEF AllSound, Handle

(* The authority is read before the frame is notified.                     *)
LEMMA CheckStep ==
  ASSUME Bounds, AllSound, Check
  PROVE  AllSound'
<1> DEFINE x == Live(pump.epoch) /\ Ready /\ Authorized(pump.conn)
<1>1. Sound(b', hook, radio, pump, codec, rt, heard)
  BY Expired DEF AllSound, Check
<1>2. CASE x
  <2>1. pump' = [pump EXCEPT !.ok = TRUE, !.pc = "notify"]
    BY <1>2 DEF Check
  <2> QED
    BY <1>1, <2>1, CheckPassed DEF AllSound, Check
<1>3. CASE ~x
  <2>1. pump' = [pump EXCEPT !.ok = FALSE, !.pc = "end"]
    BY <1>3 DEF Check
  <2> QED
    BY <1>1, <2>1, CheckFailed DEF AllSound, Check
<1> QED
  BY <1>2, <1>3

(* durable_notify: the frame is handed to the stack, or not.               *)
LEMMA NotifyStep ==
  ASSUME Bounds, AllSound, Notify
  PROVE  AllSound'
<1>1. Sound(b', hook, radio, pump, codec, rt, heard)
  BY Expired DEF AllSound, Notify
<1>2. CASE /\ heard' = Append(heard, [to |-> link.conn, frame |-> pump.frame])
           /\ pump' = [pump EXCEPT !.pc = "end"] /\ Authorized(pump.conn)
  <2>1. heard' = Append(heard, [to |-> pump.conn, frame |-> pump.frame])
    BY <1>2 DEF Authorized
  <2> QED
    BY <1>1, <1>2, <2>1, Notified DEF AllSound, Notify
<1>3. CASE heard' = heard /\ pump' = [pump EXCEPT !.ok = FALSE, !.pc = "retry"]
  BY <1>1, <1>3, Retried DEF AllSound, Notify
<1>4. CASE heard' = heard /\ pump' = [pump EXCEPT !.ok = FALSE, !.pc = "end"]
  BY <1>1, <1>4, CheckFailed DEF AllSound, Notify
<1> QED
  BY <1>2, <1>3, <1>4 DEF Notify

(* The end of a delivery.  Live is what makes the frame count as sent.     *)
LEMMA EndDeliveryStep ==
  ASSUME Bounds, AllSound, EndDelivery
  PROVE  AllSound'
<1> DEFINE e == Expire(b)
<1>1. Sound(e, hook, radio, pump, codec, rt, heard)
  BY Expired DEF AllSound
<1>2. b.active /\ b.epoch = pump.epoch /\ b.delivering
  BY DEF AllSound, Sound, Sessions, Flags, EndDelivery
<1>3. /\ UNCHANGED <<hook, radio, codec, rt, heard>> /\ pump' = [pump EXCEPT !.pc = "leave"]
      /\ pump.pc \in {"end", "retry"}
      /\ b' = IF pump.pc = "retry" /\ Live(pump.epoch) THEN [e EXCEPT !.delivering = FALSE]
              ELSE Delivered(e, pump.ok /\ Live(pump.epoch))
  BY <1>2 DEF EndDelivery
<1>4. pump.ok \in BOOLEAN
  BY DEF AllSound, Sound, Types, PumpTypes
<1> HIDE DEF e
<1>5. CASE pump.pc = "retry" /\ Live(pump.epoch)
  BY <1>1, <1>3, <1>5, TriedAgain DEF AllSound
<1>6. CASE ~(pump.pc = "retry" /\ Live(pump.epoch)) /\ pump.ok /\ Live(pump.epoch)
  <2>1. pump.pc = "end" /\ b' = Delivered(e, TRUE)
    BY <1>3, <1>6
  <2>2. CASE e.more
    BY <1>1, <1>3, <1>6, <2>1, <2>2, DeliveredMore DEF AllSound
  <2>3. CASE ~e.more
    BY <1>1, <1>3, <1>6, <2>1, <2>3, DeliveredLast DEF AllSound
  <2> QED
    BY <2>2, <2>3
<1>7. CASE ~(pump.pc = "retry" /\ Live(pump.epoch)) /\ ~(pump.ok /\ Live(pump.epoch))
  <2>1. b' = Delivered(e, FALSE)
    <3>1. (pump.ok /\ Live(pump.epoch)) = FALSE
      BY <1>7
    <3> QED
      BY <1>3, <1>7, <3>1
  <2>2. CASE e.more
    BY <1>1, <1>3, <2>1, <2>2, LostMore DEF AllSound
  <2>3. CASE ~e.more
    BY <1>1, <1>3, <2>1, <2>3, LostLast DEF AllSound
  <2> QED
    BY <2>2, <2>3
<1> QED
  BY <1>5, <1>6, <1>7

(* The work item leaves, and may end the session.                          *)
LEMMA LeavePumpStep ==
  ASSUME Bounds, AllSound, LeavePump
  PROVE  AllSound'
<1>1. pump.pc = "leave" /\ b.actors # 0
  BY DEF LeavePump, AllSound, Sound, Counted, One, Acting
<1>2. Leaving(b) = [b EXCEPT !.actors = @ - 1]
  BY <1>1 DEF Leaving
<1>3. Sound(Leaving(b), hook, radio, IdlePump, codec, rt, heard)
  BY <1>1, <1>2, PumpLeft DEF AllSound
<1> QED
  BY <1>3, Kicked DEF AllSound, LeavePump, Leave

(* A cold boot.                                                            *)
LEMMA BeginsSound ==
  ASSUME Bounds
  PROVE  Sound(NoBroker, 0, IdleThread, IdlePump, IdleCodec, NoRuntime, << >>)
<1> DEFINE s == NoBroker
           r == IdleThread
           p == IdlePump
           c == IdleCodec
           t == NoRuntime
           f == << >>
<1>1. Types(s, 0, r, p, c, t, f)
  BY NoTypes DEF Types
<1>2. /\ ~s.active /\ ~s.revoked /\ ~s.pending /\ ~s.submitting /\ ~s.completing /\ ~s.terminal
      /\ ~s.ok /\ ~s.delivering /\ ~s.queued /\ ~s.retiring /\ ~s.ever /\ ~s.more
      /\ s.sent = 0 /\ s.epoch = 0 /\ s.actors = 0 /\ ~s.fault
  BY DEF NoBroker
<1>3. /\ r.pc = "idle" /\ p.pc = "idle" /\ c.pc = "poll" /\ c.rc = "ok"
      /\ t.busy = "no" /\ t.epoch = 0 /\ t.retire = 0 /\ t.msg = NoReq
  BY DEF IdleThread, IdlePump, IdleCodec, NoRuntime
<1>4. Len(f) = 0
  OBVIOUS
<1> HIDE DEF s, r, p, c, t, f
<1>5. Counted(s, r, p, c) /\ Sessions(s, r, p, c) /\ Flags(s, r, p, c)
  BY <1>2, <1>3 DEF Counted, One, Acting, Sessions, Flags
<1>6. Submits(s, r, c, t, f) /\ Claims(r, c, t) /\ Serves(s, c, t, f)
  BY <1>2, <1>3 DEF Submits, Unserved, Claims, Serving, Serves, Inside
<1>7. Retires(s, 0, c, t) /\ Faults(s, c, t) /\ Delivers(s, p, f)
  BY <1>2, <1>3, <1>4 DEF Retires, AtRest, Faults, Delivers
<1> QED
  BY <1>1, <1>5, <1>6, <1>7 DEF Sound, s, r, p, c, t, f

(* A reset leaves nothing of the threads and of the broker.                *)
LEMMA ResetStep ==
  ASSUME Bounds, Reset
  PROVE  AllSound'
BY BeginsSound DEF Reset, AllSound

(* The codec thread at rest.                                               *)
LEMMA PollStep ==
  ASSUME Bounds, AllSound, Poll
  PROVE  AllSound'
<1> DEFINE e == [Expire(b) EXCEPT !.revoked = @ \/ (b.active /\ ~Ready)]
           d == IF e.req.cmd = "stream" THEN Schedule(e) ELSE e
<1>1. Sound(Expire(b), hook, radio, pump, codec, rt, heard)
  BY Expired DEF AllSound
<1>2. Sound(e, hook, radio, pump, codec, rt, heard)
  <2>1. CASE b.active /\ ~Ready
    <3>1. e = [Expire(b) EXCEPT !.revoked = TRUE]
      BY <2>1
    <3> QED
      BY <1>1, <3>1, Revoked
  <2>2. CASE ~(b.active /\ ~Ready)
    <3>1. Expire(b) \in BrokerTypes
      BY <1>1 DEF Sound, Types
    <3>2. e = Expire(b)
      BY <2>2, <3>1 DEF BrokerTypes
    <3> QED
      BY <1>1, <3>2
  <2> QED
    BY <2>1, <2>2
<1> HIDE DEF e
<1>3. Sound(d, hook, radio, pump, codec, rt, heard)
  BY <1>2, ScheduledSound
<1>4. /\ b' = Kick(d) /\ hook' = HookAfterKick(d) /\ UNCHANGED <<radio, pump, rt, heard>>
      /\ codec.pc = "poll" /\ codec' = [codec EXCEPT !.pc = "retirement"]
  BY DEF Poll, To, d, e
<1> HIDE DEF d
<1>5. Sound(b', hook', radio, pump, codec, rt, heard)
  BY <1>3, <1>4, Kicked
<1> QED
  BY <1>4, <1>5, Polled DEF AllSound

(* schedule_retirement.                                                    *)
LEMMA RetirementStep ==
  ASSUME Bounds, AllSound, schedule_retirement
  PROVE  AllSound'
<1>1. CASE rt.retire # 0 /\ rt.busy = "no"
  BY <1>1, RetirementClaimed DEF AllSound, schedule_retirement, To
<1>2. CASE ~(rt.retire # 0 /\ rt.busy = "no")
  BY <1>2, NoneToRetire DEF AllSound, schedule_retirement, To
<1> QED
  BY <1>1, <1>2

(* The codec thread takes a retirement or a message.                       *)
LEMMA TakeStep ==
  ASSUME Bounds, AllSound, Take
  PROVE  AllSound'
<1>0. codec.pc = "take"
  BY DEF Take
<1>1. CASE /\ rt.busy = "retire"
           /\ codec' = [codec EXCEPT !.pc = "retire", !.epoch = rt.retire, !.rc = "ok"]
           /\ UNCHANGED <<b, clock, rt, hook, radio, pump, link, power, heard, used>>
  BY <1>0, <1>1, RetirementTaken DEF AllSound
<1>2. CASE /\ rt.msg # NoReq
           /\ codec' = [pc |-> "perform", epoch |-> rt.epoch, req |-> rt.msg, rc |-> "ok", part |-> 1]
           /\ rt' = [rt EXCEPT !.msg = NoReq]
           /\ UNCHANGED <<b, clock, hook, radio, pump, link, power, heard, used>>
  BY <1>0, <1>2, MessageTaken DEF AllSound
<1>3. CASE Reset
  BY <1>3, ResetStep
<1>4. CASE /\ rt.busy # "retire" /\ rt.msg = NoReq /\ To("poll")
           /\ UNCHANGED <<b, clock, rt, hook, radio, pump, link, power, heard, used>>
  BY <1>0, <1>4, NothingTaken DEF AllSound, To
<1> QED
  BY <1>1, <1>2, <1>3, <1>4 DEF Take

(* sync_perform: what it says of the request, and what that rests on.      *)
LEMMA PerformStep ==
  ASSUME Bounds, AllSound, Perform
  PROVE  AllSound'
<1>1. /\ codec.pc = "perform" /\ UNCHANGED <<hook, radio, pump, heard>>
      /\ b' = IF codec.req.cmd = "stream" THEN Schedule(Expire(b)) ELSE b
  BY DEF Perform
<1>2. /\ b.active /\ b.pending /\ b.epoch = codec.epoch /\ b.req = codec.req
      /\ codec.part \in 1..Parts(codec.req.cmd) /\ (b.terminal => codec.part = 2)
  BY <1>1 DEF AllSound, Sound, Serves, Inside, Flags
<1>3. b \in BrokerTypes /\ rt \in RuntimeTypes
  BY DEF AllSound, Sound, Types
<1>4. codec.req.cmd # "stream" => ~b.terminal /\ codec.part = 1
  BY <1>2 DEF Parts
<1>5. /\ Expire(b).active = b.active /\ Expire(b).pending = b.pending /\ Expire(b).epoch = b.epoch
      /\ Expire(b).req = b.req /\ Expire(b).terminal = b.terminal
      /\ (~Expire(b).revoked => ~b.revoked)
  BY <1>3 DEF Expire, BrokerTypes
<1>6. StreamReady # "staged" => ~b.terminal
  BY <1>2, <1>5 DEF StreamReady
<1>7. StreamReady = "ready" => ~b.terminal /\ ~b.revoked
  BY <1>2, <1>5 DEF StreamReady
<1>8. ASSUME NEW x \in {"ok", "refused", "failed"}, Result(x),
             x # "failed" => ~b.terminal, x = "ok" => ~b.revoked \/ codec.part = 1
      PROVE  Sound(b, hook, radio, pump, codec', rt, heard)
  BY <1>1, <1>8, Performed DEF AllSound, Result
<1>9. /\ Sound(b, hook, radio, pump, codec', rt, heard)
      /\ rt' = rt \/ rt' = [rt EXCEPT !.leased = TRUE]
  <2>1. CASE Result("failed") /\ rt' \in {rt, [rt EXCEPT !.leased = TRUE]}
    BY <1>8, <2>1
  <2>2. CASE Served /\ Result("ok") /\ rt' = [rt EXCEPT !.leased = TRUE]
    <3>1. ~b.terminal /\ (~b.revoked \/ codec.part = 1)
      BY <1>4, <1>7, <2>2 DEF Served
    <3> QED
      BY <1>8, <2>2, <3>1
  <2>3. CASE UNCHANGED <<codec, rt>>
    BY <2>3 DEF AllSound
  <2>4. CASE /\ Result("refused") /\ rt' = rt
             /\ (codec.req.cmd = "stream" => StreamReady # "staged")
    <3>1. ~b.terminal
      BY <1>4, <1>6, <2>4
    <3> QED
      BY <1>8, <2>4, <3>1
  <2> QED
    BY <2>1, <2>2, <2>3, <2>4 DEF Perform
<1>10. Sound(b, hook, radio, pump, codec', rt', heard)
  <2>1. TRUE \in BOOLEAN
    OBVIOUS
  <2> QED
    BY <1>9, <2>1, Leased
<1>11. Sound(b', hook, radio, pump, codec', rt', heard)
  <2>1. Sound(Schedule(Expire(b)), hook, radio, pump, codec', rt', heard)
    BY <1>10, Expired, ScheduledSound
  <2> QED
    BY <1>1, <1>10, <2>1
<1> QED
  BY <1>1, <1>11 DEF AllSound

(* complete(): what was not failed is never refused.                       *)
LEMMA CompleteStep ==
  ASSUME Bounds, AllSound, Complete
  PROVE  AllSound'
<1>1. codec.pc = "complete" /\ UNCHANGED <<hook, radio, pump, rt, heard>>
  BY DEF Complete
<1>2. CASE Completable(b)
  <2>1. ~b.terminal
    BY <1>2 DEF Completable
  <2> QED
    BY <1>1, <1>2, <2>1, Completed DEF AllSound, Complete, To
<1>3. CASE ~Completable(b)
  <2>1. codec.rc = "failed"
    BY <1>1, <1>3 DEF AllSound, Sound, Serves, Inside, Flags, Completable
  <2>2. b' = b /\ codec' = [codec EXCEPT !.pc = "done", !.rc = IF @ = "failed" THEN @ ELSE "contradicted"]
    BY <1>3 DEF Complete
  <2>3. codec \in CodecTypes
    BY DEF AllSound, Sound, Types
  <2>4. codec' = [codec EXCEPT !.pc = "done"]
    BY <2>1, <2>2, <2>3 DEF CodecTypes
  <2> QED
    BY <1>1, <2>1, <2>2, <2>4, Contradicted DEF AllSound
<1> QED
  BY <1>2, <1>3

(* The answer is staged: it is the frame after the frames sent.            *)
LEMMA StageStep ==
  ASSUME Bounds, AllSound, Stage
  PROVE  AllSound'
<1>1. codec.pc = "stage" /\ UNCHANGED <<hook, radio, pump, rt, heard>>
  BY DEF Stage
<1>2. b \in BrokerTypes /\ codec \in CodecTypes
  BY DEF AllSound, Sound, Types
<1>3. codec.rc = "ok" => codec.part = b.sent + 1
  BY <1>1, <1>2 DEF AllSound, Sound, Serves, IsNext, CodecTypes, BrokerTypes
<1>4. More = Continuing(codec)
  BY DEF More, Continuing
<1>5. CASE codec.rc = "ok"
  <2>1. /\ b' = [b EXCEPT !.fault = @ \/ FALSE, !.revoked = @ \/ FALSE, !.more = Continuing(codec),
                          !.terminal = TRUE, !.ok = TRUE, !.completing = FALSE,
                          !.response = [req |-> codec.req, part |-> codec.part]]
        /\ codec' = [codec EXCEPT !.pc = "schedule", !.rc = @]
    BY <1>3, <1>4, <1>5 DEF Stage
  <2>2. b' = [b EXCEPT !.more = Continuing(codec), !.terminal = TRUE, !.ok = TRUE,
                       !.completing = FALSE,
                       !.response = [req |-> codec.req, part |-> codec.part]]
    BY <1>2, <2>1 DEF BrokerTypes
  <2>3. codec' = [codec EXCEPT !.pc = "schedule"]
    BY <1>2, <2>1 DEF CodecTypes
  <2> QED
    BY <1>1, <1>5, <2>2, <2>3, StagedFrame DEF AllSound
<1>6. CASE codec.rc # "ok"
  <2>1. /\ b' = [b EXCEPT !.fault = @ \/ FALSE, !.revoked = @ \/ FALSE, !.more = FALSE,
                          !.terminal = TRUE, !.ok = FALSE, !.completing = FALSE, !.response = @]
        /\ codec' = [codec EXCEPT !.pc = "schedule", !.rc = @]
    BY <1>6 DEF Stage, More
  <2>2. b' = [b EXCEPT !.more = FALSE, !.terminal = TRUE, !.ok = FALSE, !.completing = FALSE]
    BY <1>2, <2>1 DEF BrokerTypes
  <2>3. codec' = [codec EXCEPT !.pc = "schedule"]
    BY <1>2, <2>1 DEF CodecTypes
  <2> QED
    BY <1>1, <1>6, <2>2, <2>3, StagedRefusal DEF AllSound
<1> QED
  BY <1>5, <1>6

(* The codec thread schedules the delivery, and leaves.                    *)
LEMMA CodecEndsStep ==
  ASSUME Bounds, AllSound, ScheduleStaged \/ LeaveCodec
  PROVE  AllSound'
<1>1. CASE ScheduleStaged
  <2>1. Sound(b', hook, radio, pump, codec, rt, heard)
    BY <1>1, ScheduledSound DEF AllSound, ScheduleStaged
  <2> QED
    BY <1>1, <2>1, CodecGoes DEF AllSound, ScheduleStaged, To
<1>2. CASE LeaveCodec
  <2>1. codec.pc = "leave" /\ b.actors # 0 /\ UNCHANGED <<radio, pump, rt, heard>>
    BY <1>2 DEF LeaveCodec, AllSound, Sound, Counted, One, Acting
  <2>2. Leaving(b) = [b EXCEPT !.actors = @ - 1]
    BY <2>1 DEF Leaving
  <2>3. codec' = IF Continuing(codec) THEN [codec EXCEPT !.pc = "perform", !.part = @ + 1]
                 ELSE [codec EXCEPT !.pc = "done"]
    BY <1>2 DEF LeaveCodec, More, Continuing
  <2>4. Sound(Leaving(b), hook, radio, pump, codec', rt, heard)
    BY <2>1, <2>2, <2>3, CodecGoesOn, CodecLeft DEF AllSound
  <2> QED
    BY <1>2, <2>1, <2>4, Kicked DEF AllSound, LeaveCodec, Leave
<1> QED
  BY <1>1, <1>2

(* The end of a command: the runtime is let go of, or the device reset.    *)
LEMMA DoneStep ==
  ASSUME Bounds, AllSound, Done
  PROVE  AllSound'
<1>1. CASE Reset
  BY <1>1, ResetStep
<1>2. CASE ~Reset
  BY <1>2, Finished DEF AllSound, Done
<1> QED
  BY <1>1, <1>2

(* The retirement of a session.                                            *)
LEMMA RetireHookStep ==
  ASSUME Bounds, AllSound, RetireHook
  PROVE  AllSound'
<1>1. hook # 0 /\ hook = rt.epoch /\ rt.retire \in {0, hook}
  BY DEF RetireHook, AllSound, Sound, Retires, Sessions
<1> QED
  BY <1>1, Latched DEF AllSound, RetireHook

(* retire_perform closes the catalog and suspends the volume.              *)
LEMMA RetireVolumeStep ==
  ASSUME Bounds, AllSound, RetireVolume
  PROVE  AllSound'
<1>1. codec.pc = "retire" /\ UNCHANGED <<b, hook, radio, pump, heard>>
  BY DEF RetireVolume
<1>2. CASE rt' = [rt EXCEPT !.leased = FALSE] /\ To("retired")
  <2>1. Sound(b, hook, radio, pump, codec', rt, heard)
    BY <1>1, <1>2, VolumeRetired DEF AllSound, To
  <2>2. FALSE \in BOOLEAN
    OBVIOUS
  <2> QED
    BY <1>1, <1>2, <2>1, <2>2, Leased DEF AllSound
<1>3. CASE codec' = [codec EXCEPT !.pc = "retired", !.rc = "failed"] /\ rt' = rt
  BY <1>1, <1>3, VolumeStuck DEF AllSound
<1> QED
  BY <1>2, <1>3 DEF RetireVolume

(* recording_ble_retired: the session is at rest, whatever has happened.   *)
LEMMA RetiredStep ==
  ASSUME Bounds, AllSound, Retired
  PROVE  AllSound'
<1>1. codec.pc = "retired" /\ UNCHANGED <<hook, radio, pump, rt, heard>>
  BY DEF Retired
<1>2. Retirable(b)
  BY <1>1 DEF AllSound, Sound, Retires, Sessions, Retirable
<1>3. CASE codec.rc = "failed"
  BY <1>1, <1>2, <1>3, RetirementFailed DEF AllSound, Retired, To
<1>4. CASE codec.rc # "failed"
  BY <1>1, <1>2, <1>4, RetiredWell DEF AllSound, Retired, To
<1> QED
  BY <1>3, <1>4

(* retire_pending and catalog_epoch are cleared, in this order.            *)
LEMMA UnlatchStep ==
  ASSUME Bounds, AllSound, Unlatch
  PROVE  AllSound'
<1>1. CASE codec.pc = "unlatch"
  BY <1>1, Unlatched DEF AllSound, Unlatch, To
<1>2. CASE codec.pc # "unlatch"
  BY <1>2, Forgotten DEF AllSound, Unlatch, To
<1> QED
  BY <1>1, <1>2

(* The link, and the other owners of the runtime.                          *)
LEMMA DisconnectStep ==
  ASSUME Bounds, AllSound, Disconnect
  PROVE  AllSound'
<1>1. Sound(Cancelled(b), hook, radio, pump, codec, rt, heard)
  BY Revoked DEF AllSound, Cancelled
<1> QED
  BY <1>1, Kicked DEF AllSound, Disconnect

(* Another command owns the runtime for a while.                           *)
LEMMA OtherStep ==
  ASSUME Bounds, AllSound, OtherClaims \/ OtherReleases
  PROVE  AllSound'
BY OtherOwner DEF AllSound, OtherClaims, OtherReleases

-----------------------------------------------------------------------------

(* One step of any thread, of the link or of time.                         *)
LEMMA BrokerStep ==
  ASSUME Bounds, BrokerInv, [Next]_vars
  PROVE  BrokerInv'
<1>0. AllSound /\ clock \in {"fresh", "request", "session"}
  BY DEF BrokerInv
<1>1. ASSUME NEW r \in Requests, Write(r) PROVE BrokerInv'
  BY <1>0, <1>1, WriteStep DEF BrokerInv, Write
<1>2. CASE Radio
  <2>1. UNCHANGED clock
    BY <1>2 DEF Radio, Permit, Commit, Claim, Enqueue, After, ScheduleAfter, LeaveRadio
  <2> QED
    BY <1>0, <1>2, <2>1, PermitStep, CommitStep, ClaimStep, EnqueueStep, AfterStep, RadioEndsStep
       DEF Radio, BrokerInv
<1>3. CASE Pump
  <2>1. UNCHANGED clock
    BY <1>3 DEF Pump, Handle, Check, Notify, EndDelivery, LeavePump
  <2> QED
    BY <1>0, <1>3, <2>1, HandleStep, CheckStep, NotifyStep, EndDeliveryStep, LeavePumpStep
       DEF Pump, BrokerInv
<1>4. CASE Codec
  <2>1. clock' \in {clock, "fresh"}
    BY <1>4 DEF Codec, Poll, schedule_retirement, Take, Perform, Complete, Stage, ScheduleStaged,
       LeaveCodec, Done, RetireVolume, Retired, Unlatch, Reset
  <2>2. AllSound'
    BY <1>0, <1>4, PollStep, RetirementStep, TakeStep, PerformStep, CompleteStep, StageStep,
       CodecEndsStep, DoneStep, RetireVolumeStep, RetiredStep, UnlatchStep DEF Codec
  <2> QED
    BY <1>0, <2>1, <2>2 DEF BrokerInv
<1>5. CASE RetireHook
  BY <1>0, <1>5, RetireHookStep DEF BrokerInv, RetireHook
<1>6. CASE Disconnect
  BY <1>0, <1>6, DisconnectStep DEF BrokerInv, Disconnect
<1>7. CASE OtherClaims \/ OtherReleases
  <2>1. UNCHANGED clock
    BY <1>7 DEF OtherClaims, OtherReleases
  <2> QED
    BY <1>0, <1>7, <2>1, OtherStep DEF BrokerInv
<1>8. CASE Connect \/ PowerLost \/ UNCHANGED vars
  BY <1>0, <1>8 DEF Connect, PowerLost, vars, BrokerInv, AllSound
<1>9. CASE Tick
  BY <1>0, <1>9 DEF Tick, BrokerInv, AllSound
<1> QED
  BY <1>1, <1>2, <1>3, <1>4, <1>5, <1>6, <1>7, <1>8, <1>9 DEF Next

(* The invariant implies that the broker finds no contradiction.           *)
LEMMA SoundFollows ==
  ASSUME Bounds, BrokerInv
  PROVE  BrokerSound
<1>1. /\ b \in BrokerTypes /\ rt \in RuntimeTypes /\ radio \in RadioTypes /\ pump \in PumpTypes
      /\ codec \in CodecTypes /\ Faults(b, codec, rt)
  BY DEF BrokerInv, AllSound, Sound, Types
<1>2. /\ b.actors \in 0..3 /\ b.conn \in 0..MaxConns /\ b.nonce \in 0..MaxNonces
      /\ b.seq \in 0..MaxSeq /\ b.sent \in 0..1
      /\ b.req \in Requests \cup {NoReq}
  BY <1>1 DEF BrokerTypes, ConnNumbers, Nonces, SeqNumbers, Asked
<1>3. b.response.part \in 0..2
  BY <1>1 DEF BrokerTypes, FrameTypes
<1>4. rt.busy \in {"no", "sync", "retire", "other"} /\ rt.msg \in Requests \cup {NoReq}
  BY <1>1 DEF RuntimeTypes, Asked
<1>5. /\ radio.pc \in {"idle", "permit", "commit", "claim", "enqueue", "after", "schedule", "leave"}
      /\ pump.pc \in {"idle", "check", "notify", "retry", "end", "leave"}
      /\ codec.rc \in {"ok", "refused", "failed"}
  BY <1>1 DEF RadioTypes, PumpTypes, CodecTypes
<1>6. clock \in {"fresh", "request", "session"}
  BY DEF BrokerInv
<1>7. TypeOK
  BY <1>2, <1>3, <1>4, <1>5, <1>6 DEF TypeOK
<1> QED
  BY <1>1, <1>5, <1>7 DEF BrokerSound, Faults

(* The invariant implies that every answer is whole and in order.          *)
LEMMA AnswerFollows ==
  ASSUME Bounds, BrokerInv
  PROVE  AnsweredInFull
<1>1. Delivers(b, pump, heard) /\ heard \in HeardTypes
  BY DEF BrokerInv, AllSound, Sound, Types
<1>2. DOMAIN heard = 1..Len(heard)
  BY <1>1 DEF HeardTypes
<1>3. Len(heard) > 0 => heard # << >>
  OBVIOUS
<1> QED
  BY <1>1, <1>2, <1>3 DEF Delivers, AnsweredInFull

(* BrokerInv holds in every state: of the receive thread, the work item    *)
(* and the codec thread in any order, with the link lost, the deadlines    *)
(* passing and the store failing at any moment (recording_ble.c).          *)
THEOREM BrokerInvariant ==
  ASSUME Bounds
  PROVE  Spec => []BrokerInv
<1>1. Init => BrokerInv
  BY BeginsSound DEF Init, BrokerInv, AllSound
<1> QED
  BY <1>1, BrokerStep, PTL DEF Spec

(* The broker finds no contradiction: no admitted request is refused when  *)
(* it completes, no session when it retires, no actor is missing, and a    *)
(* scheduled delivery finds its answer (complete, recording_ble_retired,   *)
(* leave and delivery_work_handler).                                       *)
THEOREM BrokerIsSound ==
  ASSUME Bounds
  PROVE  Spec => []BrokerSound
BY BrokerInvariant, SoundFollows, PTL

(* A frame goes only to the connection that asked, the frames of an answer *)
(* in order and once; and a session that goes on has had its answer whole  *)
(* (deliver, durable_notify and stream_sent).                              *)
THEOREM AnswersAreFull ==
  ASSUME Bounds
  PROVE  Spec => []AnsweredInFull
BY BrokerInvariant, AnswerFollows, PTL
=============================================================================
