--------------------------- MODULE SyncLinkProofs ---------------------------
(***************************************************************************)
(* Proofs about SyncLink for every number of segments, connections,        *)
(* deletions and crashes: what the phone has written down is so            *)
(* (PhoneTruth), and pendant, link and phone together implement Transfer.  *)
(*                                                                         *)
(* Neither is inductive: an answer is acted upon long after the pendant    *)
(* gave it, and a request is performed long after the phone made it, in    *)
(* between which either of them may have begun anew.  Pledges says what a  *)
(* message still on its way is worth whatever has happened since, and      *)
(* Turns to which job it can belong.                                       *)
(*                                                                         *)
(* The last part carries what is proved of the broker over to MCSync,      *)
(* which composes the two layers.                                          *)
(***************************************************************************)
EXTENDS MCSync, TLAPS, WellFoundedInduction

Requests == {"catalog", "delete", "manifest", "receipt", "segment"}
Stations == Requests \cup {"off", "publish", "end", "files", "commit"}
Entries == [n : 0..N, final : BOOLEAN, present : BOOLEAN]
Messages == [kind : Requests \cup {"none"}, conn : Nat, of : SUBSET Nat]
Deletions == [op : 1..MaxOps, phone : BOOLEAN, pendant : {"NOT_REQUESTED", "PENDING", "CONFIRMED"}]

(* Every variable keeps its type, in full.                                 *)
DevType == dev \in [n : 0..N, final : BOOLEAN, receipts : SUBSET (1..N), tomb : 0..MaxOps]
SrvType == srv \in [conn : Nat, snap : Entries, req : Messages]
LinkType == conns \in Nat /\ link \in Nat
ReplyType == reply \in [kind : Requests \cup {"none"}, conn : Nat, body : Entries]
MetaType == /\ meta \in [manifest : [n : 0..N, final : BOOLEAN],
                         copy : {"UNKNOWN", "PRESENT", "DELETED"}, suppressed : BOOLEAN,
                         segs : SUBSET (1..N), pend : SUBSET (1..N), dels : Seq(Deletions)]
            /\ Len(meta.dels) <= MaxOps
DiskType == files \in SUBSET (1..N) /\ once \in SUBSET (1..N)
JobType == job \in [kind : {"none", "sync", "remove"}, at : Stations, conn : Nat, entry : Entries,
                    of : SUBSET Nat]
Types == DevType /\ SrvType /\ LinkType /\ ReplyType /\ MetaType /\ DiskType /\ JobType

(* The deletions the user has asked for: operations are numbered, a        *)
(* confirmed one makes the copy DELETED, and a removal on the phone in     *)
(* progress is among them.                                                 *)
Wishes ==
  /\ \A k \in DOMAIN meta.dels : meta.dels[k].op = k
  /\ \A k \in DOMAIN meta.dels : meta.dels[k].pendant = "CONFIRMED" => meta.copy = "DELETED"
  /\ PhonePending => meta.suppressed

(* The pendant's copy goes only for an operation that asked for it, and    *)
(* the phone knows only of a tombstone that is there.                      *)
Asked(op) == op \in DOMAIN meta.dels /\ meta.dels[op].pendant # "NOT_REQUESTED"
Tombs ==
  /\ dev.tomb # 0 => Asked(dev.tomb)
  /\ meta.copy = "DELETED" => dev.tomb # 0 /\ meta.dels[dev.tomb].pendant = "CONFIRMED"

(* An entry of a catalog is a past state of the recording, wherever it is. *)
Past(e) == e.n <= dev.n /\ (e.final => dev.final /\ e.n = dev.n)
Pasts == Past(srv.snap) /\ Past(reply.body) /\ Past(job.entry) /\ Past(meta.manifest)

(* A receipt owed, or on its way, is for segments that were published; a   *)
(* delete on its way is for an operation that was asked for.               *)
Owed == meta.pend \subseteq once
ReceiptPledge == srv.req.kind = "receipt" => srv.req.of \subseteq once
DeletePledge == srv.req.kind = "delete" => \E op \in DOMAIN meta.dels : srv.req.of = {op} /\ Asked(op)

(* A connection serves one job.                                            *)
Numbers ==
  /\ srv.conn <= conns /\ reply.conn <= conns
  /\ link # 0 => link = conns
  /\ job.kind # "sync" /\ link # 0 => srv.conn < link /\ reply.conn < link
Jobs ==
  /\ job.kind = "none" => job = NoJob
  /\ job.kind = "sync" => /\ job.conn # 0 /\ link \in {0, job.conn} /\ job.conn = conns
                          /\ job.at \in Requests \cup {"publish", "end"}
  /\ job.kind = "remove" => job.at \in {"files", "commit"}
Removal == job.kind = "remove" => PhonePending

(* What is on its way over the connection of the current job is the        *)
(* request that job waits for, or the answer to it.                        *)
AnswerTurn ==
  reply.kind # "none" /\ job.kind = "sync" /\ reply.conn = job.conn =>
    /\ job.of # {} /\ reply.kind = job.at /\ ~(srv.req # NoMsg /\ srv.conn = job.conn)
    /\ job.at = "receipt" => job.of \subseteq dev.receipts
    /\ job.at = "delete" => job.of = {dev.tomb} /\ dev.tomb # 0
RequestTurn ==
  srv.req # NoMsg /\ job.kind = "sync" /\ srv.conn = job.conn =>
    /\ job.of # {} /\ srv.req.kind = job.at
    /\ job.at \in {"receipt", "delete"} => srv.req.of = job.of

(* Where the job is says what it has checked.                              *)
Places ==
  /\ job.at \in {"manifest", "receipt", "segment", "publish"} => ~PhonePending /\ PendantPending = {}
  /\ job.at \in {"receipt", "segment", "publish"} => ~meta.suppressed /\ meta.copy = "PRESENT"
  /\ job.at = "delete" => PendantPending # {}
  /\ job.at = "receipt" /\ job.of = {} => meta.pend # {}
  /\ job.at \in {"segment", "publish"} => Missing(meta) # {}
OnDisk == job.at = "publish" => Min(Missing(meta)) \in files

(* A segment that counts is on the disk and one of the manifest's; one     *)
(* whose receipt is no longer owed is acknowledged.                        *)
Copies == /\ meta.segs \subseteq 1..meta.manifest.n
          /\ ~PhonePending => meta.segs \subseteq files
Receipts == ~PhonePending => \A i \in meta.segs \ meta.pend : i \in dev.receipts \/ dev.tomb # 0

LinkInv ==
  /\ Types /\ Wishes /\ Tombs /\ Pasts /\ Owed /\ ReceiptPledge /\ DeletePledge
  /\ Numbers /\ Jobs /\ Removal /\ AnswerTurn /\ RequestTurn /\ Places /\ OnDisk
  /\ Copies /\ Receipts

-----------------------------------------------------------------------------
(* Operators.                                                              *)

(* The least element of a set of naturals (the next receipt, segment or    *)
(* deletion) is one of its elements.                                       *)
LEMMA MinIsMember ==
  ASSUME NEW S \in SUBSET Nat, S # {}
  PROVE  Min(S) \in S /\ \A y \in S : Min(S) <= y
<1>1. PICK x \in S : \A y \in S : ~(<<y, x>> \in OpToRel(<, Nat))
  BY WFMin, NatLessThanWellFounded
<1>2. \A y \in S : ~(y < x)
  BY <1>1 DEF OpToRel
<1>3. \A y \in S : x <= y
  BY <1>2
<1>4. QED
  BY <1>3 DEF Min

(* A part of the invariant holds on when nothing it speaks of changes.     *)
LEMMA Frames ==
  /\ UNCHANGED dev /\ DevType => DevType'
  /\ UNCHANGED srv /\ SrvType => SrvType'
  /\ UNCHANGED <<conns, link>> /\ LinkType => LinkType'
  /\ UNCHANGED reply /\ ReplyType => ReplyType'
  /\ UNCHANGED meta /\ MetaType => MetaType'
  /\ UNCHANGED <<files, once>> /\ DiskType => DiskType'
  /\ UNCHANGED job /\ JobType => JobType'
  /\ UNCHANGED meta /\ Wishes => Wishes'
  /\ UNCHANGED <<dev, meta>> /\ Tombs => Tombs'
  /\ UNCHANGED <<dev, srv, reply, job, meta>> /\ Pasts => Pasts'
  /\ UNCHANGED <<meta, once>> /\ Owed => Owed'
  /\ UNCHANGED <<srv, once>> /\ ReceiptPledge => ReceiptPledge'
  /\ UNCHANGED <<srv, meta>> /\ DeletePledge => DeletePledge'
  /\ UNCHANGED <<srv, reply, conns, link, job>> /\ Numbers => Numbers'
  /\ UNCHANGED <<conns, link, job>> /\ Jobs => Jobs'
  /\ UNCHANGED <<job, meta>> /\ Removal => Removal'
  /\ UNCHANGED <<srv, reply, dev, job>> /\ AnswerTurn => AnswerTurn'
  /\ UNCHANGED <<srv, job>> /\ RequestTurn => RequestTurn'
  /\ UNCHANGED <<job, meta>> /\ Places => Places'
  /\ UNCHANGED <<job, meta, files>> /\ OnDisk => OnDisk'
  /\ UNCHANGED <<meta, files>> /\ Copies => Copies'
  /\ UNCHANGED <<meta, dev>> /\ Receipts => Receipts'
<1>1. /\ UNCHANGED dev /\ DevType => DevType'
      /\ UNCHANGED srv /\ SrvType => SrvType'
      /\ UNCHANGED <<conns, link>> /\ LinkType => LinkType'
      /\ UNCHANGED reply /\ ReplyType => ReplyType'
      /\ UNCHANGED meta /\ MetaType => MetaType'
      /\ UNCHANGED <<files, once>> /\ DiskType => DiskType'
      /\ UNCHANGED job /\ JobType => JobType'
  BY DEF DevType, SrvType, LinkType, ReplyType, MetaType, DiskType, JobType
<1>2. /\ UNCHANGED meta /\ Wishes => Wishes'
      /\ UNCHANGED <<dev, meta>> /\ Tombs => Tombs'
      /\ UNCHANGED <<dev, srv, reply, job, meta>> /\ Pasts => Pasts'
      /\ UNCHANGED <<meta, once>> /\ Owed => Owed'
      /\ UNCHANGED <<srv, once>> /\ ReceiptPledge => ReceiptPledge'
      /\ UNCHANGED <<srv, meta>> /\ DeletePledge => DeletePledge'
  BY DEF Wishes, Tombs, Pasts, Past, Owed, ReceiptPledge, DeletePledge, Asked, PhonePending
<1>3. /\ UNCHANGED <<srv, reply, conns, link, job>> /\ Numbers => Numbers'
      /\ UNCHANGED <<conns, link, job>> /\ Jobs => Jobs'
      /\ UNCHANGED <<job, meta>> /\ Removal => Removal'
      /\ UNCHANGED <<srv, reply, dev, job>> /\ AnswerTurn => AnswerTurn'
      /\ UNCHANGED <<srv, job>> /\ RequestTurn => RequestTurn'
  BY DEF Numbers, Jobs, Removal, AnswerTurn, RequestTurn, PhonePending
<1>4. /\ UNCHANGED <<job, meta>> /\ Places => Places'
      /\ UNCHANGED <<job, meta, files>> /\ OnDisk => OnDisk'
      /\ UNCHANGED <<meta, files>> /\ Copies => Copies'
      /\ UNCHANGED <<meta, dev>> /\ Receipts => Receipts'
  BY DEF Places, OnDisk, Copies, Receipts, PhonePending, PendantPending, Missing
<1>5. QED
  BY <1>1, <1>2, <1>3, <1>4

(* The values the variables are reset to have their types.                 *)
LEMMA Empties ==
  /\ Absent \in Entries /\ NoMsg \in Messages
  /\ NoServe \in [conn : Nat, snap : Entries, req : Messages]
  /\ NoReply \in [kind : Requests \cup {"none"}, conn : Nat, body : Entries]
  /\ NoJob \in [kind : {"none", "sync", "remove"}, at : Stations, conn : Nat, entry : Entries,
                of : SUBSET Nat]
<1>1. Absent \in Entries
  BY LinkBounds DEF LinkBounds, Absent, Entries
<1>2. NoMsg \in Messages
  BY DEF NoMsg, Messages, Requests
<1>3. NoServe \in [conn : Nat, snap : Entries, req : Messages]
  BY <1>1, <1>2 DEF NoServe
<1>4. NoReply \in [kind : Requests \cup {"none"}, conn : Nat, body : Entries]
  BY <1>1 DEF NoReply, Requests
<1>5. NoJob \in [kind : {"none", "sync", "remove"}, at : Stations, conn : Nat, entry : Entries,
                of : SUBSET Nat]
  BY <1>1 DEF NoJob, Stations
<1>6. QED
  BY <1>1, <1>2, <1>3, <1>4, <1>5

-----------------------------------------------------------------------------
(* The steps of the pendant.                                               *)

(* A recording that grows leaves every past state of it a past state.      *)
LEMMA GrowStep == ASSUME LinkInv, Grow PROVE LinkInv'
<1>1. UNCHANGED <<srv, conns, link, reply, meta, files, job, once>>
  BY DEF Grow, phoneVars
<1>2. DevType' /\ dev'.receipts = dev.receipts /\ dev'.tomb = dev.tomb /\ dev'.n >= dev.n
  <2>1. DevType
    BY DEF LinkInv, Types
  <2>2. CASE dev.n < N /\ dev' = [dev EXCEPT !.n = @ + 1]
    BY <2>1, <2>2, LinkBounds DEF LinkBounds, DevType
  <2>3. CASE dev' = [dev EXCEPT !.final = TRUE]
    <3>1. DevType'
      BY <2>1, <2>3 DEF DevType
    <3>2. dev'.receipts = dev.receipts /\ dev'.tomb = dev.tomb
      BY <2>1, <2>3 DEF DevType
    <3>3. dev'.n = dev.n /\ dev.n \in Nat
      BY <2>1, <2>3, LinkBounds DEF DevType, LinkBounds
    <3>4. QED
      BY <3>1, <3>2, <3>3
  <2>4. QED
    BY <2>2, <2>3 DEF Grow
<1>3. Pasts'
  <2>1. ~dev.final /\ dev.n \in Nat /\ dev'.n \in Nat
    BY <1>2 DEF Grow, LinkInv, Types, DevType
  <2>2. /\ srv.snap.n \in Nat /\ reply.body.n \in Nat /\ job.entry.n \in Nat
        /\ meta.manifest.n \in Nat
    BY DEF LinkInv, Types, SrvType, ReplyType, JobType, MetaType, Entries
  <2>3. QED
    BY <1>1, <1>2, <2>1, <2>2 DEF LinkInv, Pasts, Past
<1>4. Tombs' /\ AnswerTurn' /\ Receipts'
  BY <1>1, <1>2 DEF LinkInv, Tombs, Asked, AnswerTurn, Receipts, PhonePending
<1>5. QED
  BY <1>1, <1>2, <1>3, <1>4, Frames DEF LinkInv, Types

(* Retiring the session of a lost connection drops its request.            *)
LEMMA RetireStep == ASSUME LinkInv, Retire PROVE LinkInv'
<1>1. srv' = NoServe /\ UNCHANGED <<dev, conns, link, reply, meta, files, job, once>>
  BY DEF Retire, phoneVars
<1>2. SrvType'
  BY <1>1, Empties DEF SrvType
<1>3. Pasts'
  BY <1>1, LinkBounds DEF LinkBounds, LinkInv, Types, DevType, Pasts, Past, NoServe, Absent
<1>4. ReceiptPledge' /\ DeletePledge' /\ RequestTurn' /\ AnswerTurn'
  BY <1>1 DEF LinkInv, ReceiptPledge, DeletePledge, RequestTurn, AnswerTurn, NoServe, NoMsg
<1>5. Numbers'
  BY <1>1 DEF LinkInv, Types, LinkType, SrvType, Numbers, NoServe
<1>6. QED
  BY <1>1, <1>2, <1>3, <1>4, <1>5, Frames DEF LinkInv, Types

(* A new connection has a number nothing on its way can carry.             *)
LEMMA ConnectStep == ASSUME LinkInv, Connect PROVE LinkInv'
<1>1. /\ link = 0 /\ job = NoJob /\ conns' = conns + 1 /\ link' = conns + 1
      /\ UNCHANGED <<dev, srv, reply, meta, files, job, once>>
  BY DEF Connect, pendantVars, phoneVars
<1>2. LinkType' /\ Jobs'
  BY <1>1 DEF LinkInv, Types, LinkType, Jobs, NoJob
<1>3. Numbers'
  BY <1>1 DEF LinkInv, Types, LinkType, SrvType, ReplyType, Numbers, NoJob
<1>4. QED
  BY <1>1, <1>2, <1>3, Frames DEF LinkInv, Types

(* A lost link leaves what the pendant holds and owes to its old number.   *)
LEMMA DisconnectStep == ASSUME LinkInv, Disconnect PROVE LinkInv'
<1>1. link' = 0 /\ UNCHANGED <<dev, srv, conns, reply, meta, files, job, once>>
  BY DEF Disconnect, pendantVars, phoneVars
<1>2. LinkType' /\ Jobs' /\ Numbers'
  BY <1>1 DEF LinkInv, Types, LinkType, Jobs, Numbers
<1>3. QED
  BY <1>1, <1>2, Frames DEF LinkInv, Types

(* What a granted request writes (rcat_handle): the recording stays as it  *)
(* is, receipts only grow and only while there is no tombstone, and a      *)
(* tombstone, once set, is the operation the user asked for.               *)
Recorded(d) ==
  /\ d \in [n : 0..N, final : BOOLEAN, receipts : SUBSET (1..N), tomb : 0..MaxOps]
  /\ d.n = dev.n /\ d.final = dev.final
  /\ dev.receipts \subseteq d.receipts
  /\ dev.tomb # 0 => d.tomb = dev.tomb
  /\ d.tomb # 0 => Asked(d.tomb)

(* What rcat_handle stores for a granted request.                          *)
LEMMA StoredRecords ==
  ASSUME LinkInv, srv.req # NoMsg, Grants(srv.req), NEW d, d = Stored(srv.req)
  PROVE  /\ Recorded(d)
         /\ srv.req.kind = "receipt" => d = [dev EXCEPT !.receipts = @ \cup srv.req.of]
                                        /\ srv.req.of \subseteq d.receipts
         /\ srv.req.kind = "delete" => d.tomb # 0 /\ srv.req.of = {d.tomb}
                                       /\ d.receipts = dev.receipts
         /\ srv.req.kind \notin {"receipt", "delete"} => d = dev
         /\ d.tomb # dev.tomb => dev.final
<1> DEFINE r == srv.req
<1>1. DevType /\ SrvType /\ MetaType /\ DiskType
  BY DEF LinkInv, Types
<1>2. CASE r.kind = "receipt"
  <2>1. r.of \subseteq 1..N
    BY <1>1, <1>2 DEF DiskType, LinkInv, ReceiptPledge
  <2>2. d = [dev EXCEPT !.receipts = @ \cup r.of]
    BY <1>2 DEF Stored
  <2>3. d \in [n : 0..N, final : BOOLEAN, receipts : SUBSET (1..N), tomb : 0..MaxOps]
    BY <1>1, <2>1, <2>2 DEF DevType
  <2>4. d.n = dev.n /\ d.final = dev.final /\ d.tomb = dev.tomb /\ d.receipts = dev.receipts \cup r.of
    BY <1>1, <2>2 DEF DevType
  <2>5. d.tomb # 0 => Asked(d.tomb)
    BY <2>4 DEF LinkInv, Tombs
  <2>6. QED
    BY <1>2, <2>2, <2>3, <2>4, <2>5 DEF Recorded
<1>3. CASE r.kind = "delete" /\ dev.tomb = 0
  <2>1. PICK op \in DOMAIN meta.dels : r.of = {op} /\ Asked(op)
    BY <1>3 DEF LinkInv, DeletePledge
  <2>2. op \in 1..MaxOps
    BY <1>1, <2>1, LinkBounds DEF MetaType, LinkBounds
  <2>3. d = [dev EXCEPT !.tomb = op]
    BY <1>3, <2>1 DEF Stored
  <2>4. d \in [n : 0..N, final : BOOLEAN, receipts : SUBSET (1..N), tomb : 0..MaxOps]
    BY <1>1, <2>2, <2>3 DEF DevType
  <2>5. d.n = dev.n /\ d.final = dev.final /\ d.tomb = op /\ d.receipts = dev.receipts
    BY <1>1, <2>3 DEF DevType
  <2>6. dev.final
    BY <1>3 DEF Grants, Replays, Deletable, LinkInv, Pasts, Past
  <2>7. op # 0
    BY <2>2
  <2>8. QED
    BY <1>3, <2>1, <2>4, <2>5, <2>6, <2>7 DEF Recorded
<1>4. CASE r.kind = "delete" /\ dev.tomb # 0
  <2>1. d = dev /\ r.of = {dev.tomb}
    BY <1>4 DEF Stored, Grants, Replays, Deletable
  <2>2. QED
    BY <1>1, <1>4, <2>1 DEF Recorded, DevType, LinkInv, Tombs
<1>5. CASE r.kind \notin {"receipt", "delete"}
  <2>1. d = dev
    BY <1>5 DEF Stored
  <2>2. QED
    BY <1>1, <1>5, <2>1 DEF Recorded, DevType, LinkInv, Tombs
<1>6. QED
  BY <1>2, <1>3, <1>4, <1>5

(* A write of the pendant keeps what depends on its store alone.           *)
LEMMA RecordedKeeps ==
  ASSUME LinkInv, Recorded(dev'), UNCHANGED meta
  PROVE  DevType' /\ Tombs' /\ Receipts' /\ \A e : Past(e) => Past(e)'
<1>1. DevType' /\ Tombs'
  BY DEF Recorded, DevType, LinkInv, Tombs, Asked
<1>2. Receipts'
  BY DEF Recorded, LinkInv, Receipts, PhonePending
<1>3. \A e : Past(e) => Past(e)'
  BY DEF Recorded, Past
<1>4. QED
  BY <1>1, <1>2, <1>3

(* The catalog session answers the request it holds, or closes.            *)
LEMMA ServeStep == ASSUME LinkInv, Serve PROVE LinkInv'
<1> DEFINE r == srv.req
           snap == IF r.kind = "catalog" THEN Snapshot ELSE srv.snap
<1>1. r # NoMsg /\ UNCHANGED <<conns, meta, files, job, once>>
  BY DEF Serve, phoneVars
<1>2. DevType /\ SrvType /\ ReplyType /\ LinkType
  BY DEF LinkInv, Types
<1>3. snap \in Entries /\ Past(snap)
  <2>1. CASE r.kind = "catalog"
    <3>1. Snapshot \in Entries
      BY <1>2, LinkBounds DEF Snapshot, DevType, Entries, LinkBounds
    <3>2. Snapshot.n = dev.n /\ Snapshot.final = dev.final
      BY DEF Snapshot
    <3>3. Past(Snapshot)
      BY <1>2, <3>2 DEF Past, DevType
    <3>4. QED
      BY <2>1, <3>1, <3>3
  <2>2. CASE r.kind # "catalog"
    BY <1>2, <2>2 DEF SrvType, LinkInv, Pasts
  <2>3. QED
    BY <2>1, <2>2
<1>4. CASE Grants(r)
  <2>1. /\ dev' = Stored(r) /\ srv' = [srv EXCEPT !.req = NoMsg, !.snap = snap] /\ link' = link
        /\ reply' = IF link = srv.conn THEN [kind |-> r.kind, conn |-> srv.conn, body |-> snap]
                    ELSE reply
    BY <1>4 DEF Serve
  <2>2. Recorded(dev')
    BY <1>1, <1>4, <2>1, StoredRecords
  <2>3. DevType' /\ Tombs' /\ Receipts' /\ \A e : Past(e) => Past(e)'
    BY <1>1, <2>2, RecordedKeeps
  <2>4. SrvType'
    BY <1>2, <1>3, <2>1, Empties DEF SrvType
  <2>5. srv'.conn = srv.conn /\ srv'.req = NoMsg /\ srv'.snap = snap
    BY <1>2, <2>1 DEF SrvType
  <2>6. ReplyType' /\ Past(reply'.body)
    <3>1. CASE link = srv.conn
      <4>1. reply' = [kind |-> r.kind, conn |-> srv.conn, body |-> snap]
        BY <2>1, <3>1
      <4>2. r.kind \in Requests \cup {"none"} /\ srv.conn \in Nat
        BY <1>2 DEF SrvType, Messages
      <4>3. QED
        BY <1>3, <4>1, <4>2 DEF ReplyType
    <3>2. CASE link # srv.conn
      BY <1>2, <2>1, <3>2 DEF ReplyType, LinkInv, Pasts
    <3>3. QED
      BY <3>1, <3>2
  <2>7. Pasts'
    <3>1. Past(srv'.snap) /\ Past(job'.entry) /\ Past(meta'.manifest)
      BY <1>1, <1>3, <2>5 DEF LinkInv, Pasts
    <3>2. QED
      BY <2>3, <2>6, <3>1 DEF Pasts, Past
  <2>8. ReceiptPledge' /\ DeletePledge' /\ RequestTurn'
    BY <2>5 DEF ReceiptPledge, DeletePledge, RequestTurn, NoMsg
  <2>9. Numbers'
    BY <1>1, <1>2, <2>1, <2>5 DEF LinkInv, Numbers, SrvType, ReplyType, LinkType
  <2>10. AnswerTurn'
    <3>1. CASE link = srv.conn
      <4>1. reply'.kind = r.kind /\ reply'.conn = srv.conn
        BY <2>1, <3>1
      <4>2. SUFFICES ASSUME job.kind = "sync", srv.conn = job.conn
                     PROVE  /\ job.of # {} /\ r.kind = job.at
                            /\ job.at = "receipt" => job.of \subseteq dev'.receipts
                            /\ job.at = "delete" => job.of = {dev'.tomb} /\ dev'.tomb # 0
        BY <1>1, <2>5, <4>1 DEF AnswerTurn
      <4>3. /\ job.of # {} /\ r.kind = job.at
            /\ job.at \in {"receipt", "delete"} => r.of = job.of
        BY <1>1, <4>2 DEF LinkInv, RequestTurn
      <4>4. r.kind = "receipt" => r.of \subseteq dev'.receipts
        BY <1>1, <1>4, <2>1, StoredRecords
      <4>5. r.kind = "delete" => r.of = {dev'.tomb} /\ dev'.tomb # 0
        BY <1>1, <1>4, <2>1, StoredRecords
      <4>6. QED
        BY <4>3, <4>4, <4>5
    <3>2. CASE link # srv.conn
      BY <1>1, <2>1, <2>2, <2>5, <3>2 DEF LinkInv, AnswerTurn, Recorded
    <3>3. QED
      BY <3>1, <3>2
  <2>11. QED
    BY <1>1, <2>1, <2>3, <2>4, <2>6, <2>7, <2>8, <2>9, <2>10, Frames DEF LinkInv, Types
<1>5. CASE ~Grants(r)
  <2>1. /\ UNCHANGED <<dev, reply>> /\ srv' = [srv EXCEPT !.req = NoMsg]
        /\ link' = IF link = srv.conn THEN 0 ELSE link
    BY <1>5 DEF Serve
  <2>2. SrvType'
    BY <1>2, <2>1, Empties DEF SrvType
  <2>3. srv'.conn = srv.conn /\ srv'.req = NoMsg /\ srv'.snap = srv.snap
    BY <1>2, <2>1 DEF SrvType
  <2>4. ReceiptPledge' /\ DeletePledge' /\ RequestTurn' /\ AnswerTurn' /\ Pasts'
    BY <1>1, <2>1, <2>3
    DEF LinkInv, ReceiptPledge, DeletePledge, RequestTurn, AnswerTurn, Pasts, Past, NoMsg
  <2>5. LinkType' /\ Numbers' /\ Jobs'
    BY <1>1, <1>2, <2>1, <2>3 DEF LinkInv, Numbers, Jobs, SrvType, LinkType
  <2>6. QED
    BY <1>1, <2>1, <2>2, <2>4, <2>5, Frames DEF LinkInv, Types
<1>6. QED
  BY <1>4, <1>5

(* A reset loses the session, and at most the answer to what was stored.   *)
LEMMA ResetPendantStep == ASSUME LinkInv, ResetPendant PROVE LinkInv'
<1>1. srv' = NoServe /\ link' = 0 /\ UNCHANGED <<conns, reply, meta, files, job, once>>
  BY DEF ResetPendant, phoneVars
<1>2. DevType /\ LinkType
  BY DEF LinkInv, Types
<1>3. Recorded(dev')
  <2>1. CASE dev' = dev
    BY <1>2, <2>1 DEF Recorded, DevType, LinkInv, Tombs
  <2>2. CASE srv.req # NoMsg /\ Grants(srv.req) /\ dev' = Stored(srv.req)
    BY <2>2, StoredRecords
  <2>3. QED
    BY <2>1, <2>2 DEF ResetPendant
<1>4. DevType' /\ Tombs' /\ Receipts' /\ \A e : Past(e) => Past(e)'
  BY <1>1, <1>3, RecordedKeeps
<1>5. SrvType'
  BY <1>1, Empties DEF SrvType
<1>6. Pasts'
  <2>1. Past(NoServe.snap)
    BY <1>2, LinkBounds DEF LinkBounds, DevType, Past, NoServe, Absent
  <2>2. Past(srv'.snap) /\ Past(reply'.body) /\ Past(job'.entry) /\ Past(meta'.manifest)
    BY <1>1, <2>1 DEF LinkInv, Pasts
  <2>3. QED
    BY <1>4, <2>2 DEF Pasts, Past
<1>7. ReceiptPledge' /\ DeletePledge' /\ RequestTurn'
  BY <1>1 DEF ReceiptPledge, DeletePledge, RequestTurn, NoServe, NoMsg
<1>8. AnswerTurn'
  BY <1>1, <1>3 DEF LinkInv, AnswerTurn, NoServe, NoMsg, Recorded
<1>9. LinkType' /\ Numbers' /\ Jobs'
  BY <1>1, <1>2 DEF LinkInv, LinkType, Numbers, Jobs, NoServe
<1>10. QED
  BY <1>1, <1>4, <1>5, <1>6, <1>7, <1>8, <1>9, Frames DEF LinkInv, Types

-----------------------------------------------------------------------------
(* The steps of the sync job.                                              *)

(* A job starts with nothing on its way over its connection.               *)
LEMMA StartStep == ASSUME LinkInv, Start PROVE LinkInv'
<1>1. /\ job = NoJob /\ link # 0 /\ link = conns
      /\ job' = [NoJob EXCEPT !.kind = "sync", !.at = "catalog", !.conn = link]
      /\ UNCHANGED <<dev, srv, conns, link, reply, meta, files, once>>
  BY DEF Start, pendantVars
<1>2. JobType'
  BY <1>1, Empties DEF JobType, LinkInv, Types, LinkType, Stations, Requests
<1>3. job'.kind = "sync" /\ job'.at = "catalog" /\ job'.conn = link /\ job'.of = {}
      /\ job'.entry = job.entry
  BY <1>1 DEF NoJob
<1>4. srv.conn < link /\ reply.conn < link
  BY <1>1 DEF LinkInv, Numbers, NoJob
<1>5. AnswerTurn' /\ RequestTurn'
  BY <1>1, <1>3, <1>4 DEF AnswerTurn, RequestTurn, LinkInv, Types, LinkType
<1>6. Pasts' /\ Numbers' /\ Jobs' /\ Removal' /\ Places' /\ OnDisk'
  BY <1>1, <1>3 DEF LinkInv, Pasts, Past, Numbers, Jobs, Removal, Places, OnDisk, Requests
<1>7. QED
  BY <1>1, <1>2, <1>5, <1>6, Frames DEF LinkInv, Types

(* The missing segments are segments.                                      *)
LEMMA MissingType ==
  ASSUME MetaType
  PROVE  Missing(meta) \subseteq 1..N /\ Missing(meta) \subseteq 1..meta.manifest.n
BY LinkBounds DEF Missing, MetaType, LinkBounds

(* What the job sends: an operation the user asked for, receipts it owes,  *)
(* the first segment it misses.                                            *)
LEMMA OperandsKnown ==
  ASSUME LinkInv, job.of = {}
  PROVE  /\ Operands \in SUBSET Nat
         /\ job.at = "delete" => \E op \in DOMAIN meta.dels : Operands = {op} /\ Asked(op)
         /\ job.at = "receipt" => Operands # {} /\ Operands \subseteq meta.pend
<1>1. MetaType /\ Wishes /\ Places
  BY DEF LinkInv, Types
<1>2. CASE job.at = "delete"
  <2> DEFINE k == Min(PendantPending)
  <2>1. PendantPending \in SUBSET Nat /\ PendantPending # {}
    BY <1>1, <1>2 DEF MetaType, Places, PendantPending
  <2>2. k \in PendantPending
    BY <2>1, MinIsMember
  <2>3. k \in DOMAIN meta.dels /\ k \in Nat /\ meta.dels[k].pendant = "PENDING" /\ meta.dels[k].op = k
    BY <1>1, <2>1, <2>2 DEF Wishes, PendantPending
  <2>4. Operands = {k}
    BY <1>2, <2>3 DEF Operands
  <2>5. QED
    BY <1>2, <2>3, <2>4 DEF Asked
<1>3. CASE job.at = "receipt"
  <2> DEFINE first == Min(meta.pend)
  <2>1. meta.pend \in SUBSET Nat /\ meta.pend # {}
    BY <1>1, <1>3, LinkBounds DEF MetaType, Places, LinkBounds
  <2>2. first \in meta.pend /\ first \in Nat
    BY <2>1, MinIsMember
  <2>3. first..first \subseteq meta.pend
    BY <2>2
  <2>4. Operands = IF meta.manifest.final THEN {i \in meta.pend : first..i \subseteq meta.pend}
                   ELSE {first}
    BY <1>3 DEF Operands, NextReceipts
  <2> HIDE DEF first
  <2>5. first \in Operands /\ Operands \subseteq meta.pend
    BY <2>2, <2>3, <2>4
  <2>6. QED
    BY <1>3, <2>1, <2>5
<1>4. CASE job.at = "segment"
  <2>1. Missing(meta) \in SUBSET Nat /\ Missing(meta) # {}
    BY <1>1, <1>4, MissingType, LinkBounds DEF Places, LinkBounds
  <2>2. Operands = {Min(Missing(meta))}
    BY <1>4 DEF Operands
  <2>3. QED
    BY <1>4, <2>1, <2>2, MinIsMember
<1>5. CASE job.at \notin {"delete", "receipt", "segment"}
  BY <1>5 DEF Operands
<1>6. QED
  BY <1>2, <1>3, <1>4, <1>5

(* A request goes out with the operands the job waits for.                 *)
LEMMA SendStep == ASSUME LinkInv, Send PROVE LinkInv'
<1>1. /\ job.kind = "sync" /\ job.of = {} /\ job.at \in Requests /\ link = job.conn
      /\ srv' = [srv EXCEPT !.conn = link, !.req = [kind |-> job.at, conn |-> link, of |-> Operands]]
      /\ job' = [job EXCEPT !.of = IF Operands = {} THEN {0} ELSE Operands]
      /\ UNCHANGED <<dev, conns, link, reply, meta, files, once>>
  BY DEF Send, Requests
<1>2. /\ Operands \in SUBSET Nat
      /\ job.at = "delete" => \E op \in DOMAIN meta.dels : Operands = {op} /\ Asked(op)
      /\ job.at = "receipt" => Operands # {} /\ Operands \subseteq meta.pend
  BY <1>1, OperandsKnown
<1>3. SrvType /\ JobType /\ LinkType
  BY DEF LinkInv, Types
<1>4. [kind |-> job.at, conn |-> link, of |-> Operands] \in Messages
  BY <1>1, <1>2, <1>3 DEF Messages, LinkType
<1>5. SrvType'
  BY <1>1, <1>3, <1>4 DEF SrvType, LinkType
<1>6. /\ srv'.conn = link /\ srv'.snap = srv.snap
      /\ srv'.req.kind = job.at /\ srv'.req.of = Operands
  BY <1>1, <1>3 DEF SrvType
<1>7. JobType'
  BY <1>1, <1>2, <1>3 DEF JobType
<1>8. /\ job'.kind = "sync" /\ job'.at = job.at /\ job'.conn = job.conn /\ job'.entry = job.entry
      /\ job'.of # {} /\ (Operands # {} => job'.of = Operands)
  BY <1>1, <1>3 DEF JobType
<1>9. Pasts' /\ ReceiptPledge' /\ Owed'
  BY <1>1, <1>2, <1>6, <1>8 DEF LinkInv, Pasts, Past, Owed, ReceiptPledge
<1>10. DeletePledge'
  BY <1>1, <1>2, <1>6 DEF DeletePledge, Asked
<1>11. Numbers' /\ Jobs'
  BY <1>1, <1>3, <1>6, <1>8 DEF LinkInv, Numbers, Jobs, LinkType
<1>12. AnswerTurn'
  BY <1>1, <1>8 DEF LinkInv, AnswerTurn
<1>13. RequestTurn'
  <2>1. job.at \in {"receipt", "delete"} => job'.of = Operands
    BY <1>2, <1>8
  <2>2. QED
    BY <1>6, <1>8, <2>1 DEF RequestTurn
<1>14. Removal' /\ OnDisk'
  BY <1>1, <1>8 DEF LinkInv, Removal, OnDisk, PhonePending
<1>15. Places'
  BY <1>1, <1>8 DEF LinkInv, Places, PhonePending, PendantPending
<1>16. QED
  BY <1>1, <1>5, <1>7, <1>9, <1>10, <1>11, <1>12, <1>13, <1>14, <1>15, Frames DEF LinkInv, Types

(* An answer that is taken leaves nothing on its way to the job.           *)
LEMMA TakenTurns ==
  ASSUME LinkInv, Valid, reply' = NoReply, UNCHANGED srv, job'.conn = job.conn
  PROVE  AnswerTurn' /\ RequestTurn' /\ ReplyType'
<1>1. reply.kind # "none"
  BY DEF Valid, LinkInv, Jobs, Requests
<1>2. ~(srv.req # NoMsg /\ srv.conn = job.conn)
  BY <1>1 DEF Valid, LinkInv, AnswerTurn
<1>3. QED
  BY <1>2, Empties DEF AnswerTurn, RequestTurn, ReplyType, NoReply

(* The job moves on within its connection.                                 *)
LEMMA MovesOn ==
  ASSUME LinkInv, job.kind = "sync", UNCHANGED <<conns, link>>,
         NEW at \in Requests \cup {"publish", "end"},
         NEW e \in Entries, job' = [job EXCEPT !.at = at, !.entry = e, !.of = {}]
  PROVE  /\ JobType' /\ Jobs' /\ Removal'
         /\ UNCHANGED <<srv, reply>> => Numbers'
         /\ reply' = NoReply /\ UNCHANGED srv => Numbers'
         /\ job'.kind = "sync" /\ job'.at = at /\ job'.conn = job.conn /\ job'.of = {}
         /\ job'.entry = e
<1>1. JobType
  BY DEF LinkInv, Types
<1>2. JobType'
  BY <1>1 DEF JobType, Stations
<1>3. job'.kind = "sync" /\ job'.at = at /\ job'.conn = job.conn /\ job'.of = {} /\ job'.entry = e
  BY <1>1 DEF JobType
<1>4. Jobs' /\ Removal'
  BY <1>3 DEF LinkInv, Jobs, Removal
<1>5. /\ UNCHANGED <<srv, reply>> => Numbers'
      /\ reply' = NoReply /\ UNCHANGED srv => Numbers'
  BY <1>3 DEF LinkInv, Numbers, Types, LinkType, NoReply
<1>6. QED
  BY <1>2, <1>3, <1>4, <1>5

(* At keeps the entry.                                                     *)
LEMMA AtKeepsEntry ==
  ASSUME JobType, NEW at, At(at)
  PROVE  job.entry \in Entries /\ job' = [job EXCEPT !.at = at, !.entry = job.entry, !.of = {}]
BY DEF JobType, At

(* The entry taken from the catalog is a past state of the recording.      *)
LEMMA TakeCatalogStep == ASSUME LinkInv, TakeCatalog PROVE LinkInv'
<1> DEFINE at == Step(reply.body)
<1>1. /\ Valid /\ reply' = NoReply
      /\ job' = [job EXCEPT !.at = at, !.entry = reply.body, !.of = {}]
      /\ UNCHANGED <<dev, srv, conns, link, meta, files, once>>
  BY DEF TakeCatalog, Unsaved, pendantVars
<1>2. job.kind = "sync"
  BY <1>1 DEF Valid
<1>3. reply.body \in Entries
  BY DEF LinkInv, Types, ReplyType
<1>4. /\ at \in {"end", "delete", "manifest"}
      /\ at = "delete" => PendantPending # {}
      /\ at = "manifest" => ~PhonePending /\ PendantPending = {}
  BY DEF Step
<1>5. at \in Requests \cup {"publish", "end"}
  BY <1>4 DEF Requests
<1> HIDE DEF at
<1>6. /\ JobType' /\ Jobs' /\ Removal' /\ Numbers' /\ job'.at = at /\ job'.of = {}
      /\ job'.entry = reply.body /\ job'.conn = job.conn
  BY <1>1, <1>2, <1>3, <1>5, MovesOn
<1>7. AnswerTurn' /\ RequestTurn' /\ ReplyType'
  BY <1>1, <1>6, TakenTurns
<1>8. Pasts'
  BY <1>1, <1>6, LinkBounds DEF LinkInv, Pasts, Past, NoReply, Absent, Types, DevType, LinkBounds
<1>9. Places' /\ OnDisk'
  BY <1>1, <1>4, <1>6 DEF Places, OnDisk, PhonePending, PendantPending
<1>10. QED
  BY <1>1, <1>6, <1>7, <1>8, <1>9, Frames DEF LinkInv, Types

(* Where the job goes after a manifest, a receipt or a segment.            *)
LEMMA FlushingPlace ==
  ASSUME NEW m, NEW at, at = Flushing(m)
  PROVE  /\ at \in {"receipt", "segment", "end"}
         /\ at = "receipt" => m.pend # {}
         /\ at = "segment" => Missing(m) # {}
BY DEF Flushing

(* A manifest taken over never shrinks below the segments that count.      *)
LEMMA TakeManifestStep == ASSUME LinkInv, TakeManifest PROVE LinkInv'
<1> DEFINE at == IF meta.suppressed THEN "end" ELSE Flushing(meta')
<1>1. /\ Valid /\ job.at = "manifest" /\ reply' = NoReply /\ Observable(job.entry) /\ At(at)
      /\ meta' = [meta EXCEPT !.manifest = Manifest(job.entry), !.copy = "PRESENT"]
      /\ UNCHANGED <<dev, srv, conns, link, files, once>>
  BY DEF TakeManifest, Unsaved, pendantVars
<1>2. job.kind = "sync"
  BY <1>1 DEF Valid
<1>3. MetaType /\ JobType /\ DevType
  BY DEF LinkInv, Types
<1>4. Manifest(job.entry) \in [n : 0..N, final : BOOLEAN]
      /\ Manifest(job.entry).n = job.entry.n /\ Manifest(job.entry).final = job.entry.final
  BY <1>3 DEF Manifest, JobType, Entries
<1>5. /\ meta'.manifest = Manifest(job.entry) /\ meta'.copy = "PRESENT"
      /\ meta'.suppressed = meta.suppressed /\ meta'.segs = meta.segs /\ meta'.pend = meta.pend
      /\ meta'.dels = meta.dels
  BY <1>1, <1>3 DEF MetaType
<1>6. MetaType'
  BY <1>1, <1>3, <1>4 DEF MetaType
<1>7. /\ at \in {"receipt", "segment", "end"}
      /\ at # "end" => ~meta.suppressed
      /\ at = "receipt" => meta'.pend # {}
      /\ at = "segment" => Missing(meta') # {}
  BY FlushingPlace
<1>8. at \in Requests \cup {"publish", "end"}
  BY <1>7 DEF Requests
<1> HIDE DEF at
<1>9. job.entry \in Entries /\ job' = [job EXCEPT !.at = at, !.entry = job.entry, !.of = {}]
  BY <1>1, <1>3, AtKeepsEntry
<1>10. /\ JobType' /\ Jobs' /\ Removal' /\ Numbers' /\ job'.at = at /\ job'.of = {}
       /\ job'.entry = job.entry /\ job'.conn = job.conn
  BY <1>1, <1>2, <1>8, <1>9, MovesOn
<1>11. AnswerTurn' /\ RequestTurn' /\ ReplyType'
  BY <1>1, <1>10, TakenTurns
<1>12. Pasts'
  BY <1>1, <1>3, <1>4, <1>5, <1>10, LinkBounds
  DEF LinkInv, Pasts, Past, NoReply, Absent, DevType, LinkBounds
<1>13. meta.copy # "DELETED"
  BY <1>1 DEF Observable
<1>14. Wishes' /\ Tombs' /\ DeletePledge'
  BY <1>1, <1>5, <1>13 DEF LinkInv, Wishes, Tombs, DeletePledge, Asked, PhonePending
<1>15. Owed' /\ Receipts'
  BY <1>1, <1>5 DEF LinkInv, Owed, Receipts, PhonePending
<1>16. Copies'
  <2>1. 1..meta.manifest.n \subseteq 1..job.entry.n
    BY <1>1, <1>3 DEF Observable, MetaType, JobType, Entries
  <2>2. QED
    BY <1>1, <1>4, <1>5, <2>1 DEF LinkInv, Copies, PhonePending
<1>17. ~PhonePending' /\ PendantPending' = {}
  BY <1>1, <1>5 DEF LinkInv, Places, PhonePending, PendantPending
<1>18. Places' /\ OnDisk'
  BY <1>5, <1>7, <1>10, <1>17 DEF Places, OnDisk, Missing
<1>19. QED
  BY <1>1, <1>6, <1>10, <1>11, <1>12, <1>14, <1>15, <1>16, <1>18, Frames DEF LinkInv, Types

(* The receipts a batch confirms are on the pendant.                       *)
LEMMA TakeReceiptStep == ASSUME LinkInv, TakeReceipt PROVE LinkInv'
<1> DEFINE at == Flushing(meta')
<1>1. /\ Valid /\ job.at = "receipt" /\ reply' = NoReply /\ At(at)
      /\ meta' = [meta EXCEPT !.pend = @ \ job.of]
      /\ UNCHANGED <<dev, srv, conns, link, files, once>>
  BY DEF TakeReceipt, Unsaved, pendantVars
<1>2. job.kind = "sync" /\ job.of \subseteq dev.receipts
  BY <1>1 DEF Valid, LinkInv, AnswerTurn
<1>3. MetaType /\ JobType /\ DevType
  BY DEF LinkInv, Types
<1>4. /\ meta'.manifest = meta.manifest /\ meta'.copy = meta.copy
      /\ meta'.suppressed = meta.suppressed /\ meta'.segs = meta.segs
      /\ meta'.pend = meta.pend \ job.of /\ meta'.dels = meta.dels
  BY <1>1, <1>3 DEF MetaType
<1>5. MetaType'
  BY <1>1, <1>3 DEF MetaType
<1>6. /\ at \in {"receipt", "segment", "end"}
      /\ at = "receipt" => meta'.pend # {}
      /\ at = "segment" => Missing(meta') # {}
  BY FlushingPlace
<1>7. at \in Requests \cup {"publish", "end"}
  BY <1>6 DEF Requests
<1> HIDE DEF at
<1>8. job.entry \in Entries /\ job' = [job EXCEPT !.at = at, !.entry = job.entry, !.of = {}]
  BY <1>1, <1>3, AtKeepsEntry
<1>9. /\ JobType' /\ Jobs' /\ Removal' /\ Numbers' /\ job'.at = at /\ job'.of = {}
      /\ job'.entry = job.entry /\ job'.conn = job.conn
  BY <1>1, <1>2, <1>7, <1>8, MovesOn
<1>10. AnswerTurn' /\ RequestTurn' /\ ReplyType'
  BY <1>1, <1>9, TakenTurns
<1>11. Pasts'
  BY <1>1, <1>3, <1>4, <1>9, LinkBounds
  DEF LinkInv, Pasts, Past, NoReply, Absent, DevType, LinkBounds
<1>12. Wishes' /\ Tombs' /\ DeletePledge'
  BY <1>1, <1>4 DEF LinkInv, Wishes, Tombs, DeletePledge, Asked, PhonePending
<1>13. Owed' /\ Copies'
  BY <1>1, <1>4 DEF LinkInv, Owed, Copies, PhonePending
<1>14. Receipts'
  BY <1>1, <1>2, <1>4 DEF LinkInv, Receipts, PhonePending
<1>15. Places' /\ OnDisk'
  BY <1>1, <1>4, <1>6, <1>9 DEF LinkInv, Places, OnDisk, PhonePending, PendantPending, Missing
<1>16. QED
  BY <1>1, <1>5, <1>9, <1>10, <1>11, <1>12, <1>13, <1>14, <1>15, Frames DEF LinkInv, Types

(* The deletion a tombstone confirms is the one of that tombstone.         *)
LEMMA TombstoneTaken ==
  ASSUME LinkInv, TakeTombstone
  PROVE  /\ job.of = {dev.tomb} /\ dev.tomb # 0 /\ Asked(dev.tomb)
         /\ meta' = Confirmed(meta, dev.tomb)
<1>1. job.of = {dev.tomb} /\ dev.tomb # 0
  BY DEF TakeTombstone, Valid, LinkInv, AnswerTurn
<1>2. QED
  BY <1>1 DEF TakeTombstone, LinkInv, Tombs

(* A tombstone confirms the deletion that asked for it.                    *)
LEMMA TakeTombstoneStep == ASSUME LinkInv, TakeTombstone PROVE LinkInv'
<1> DEFINE op == dev.tomb
           Settle(d) == IF d.op = op THEN [d EXCEPT !.pendant = "CONFIRMED"] ELSE d
           settled == [k \in DOMAIN meta.dels |-> Settle(meta.dels[k])]
<1>1. /\ Valid /\ reply' = NoReply /\ At("end")
      /\ op # 0 /\ Asked(op)
      /\ meta' = [meta EXCEPT !.copy = "DELETED", !.pend = {}, !.dels = settled]
      /\ UNCHANGED <<dev, srv, conns, link, files, once>>
  BY TombstoneTaken DEF TakeTombstone, Confirmed, Unsaved, pendantVars
<1>2. job.kind = "sync"
  BY <1>1 DEF Valid
<1>3. MetaType /\ JobType /\ DevType
  BY DEF LinkInv, Types
<1>4. \A d \in Deletions : /\ Settle(d) \in Deletions /\ Settle(d).op = d.op
                           /\ Settle(d).phone = d.phone
                           /\ d.pendant # "NOT_REQUESTED" => Settle(d).pendant # "NOT_REQUESTED"
                           /\ d.op = op => Settle(d).pendant = "CONFIRMED"
  BY DEF Deletions
<1>5. meta.dels \in Seq(Deletions)
  BY <1>3 DEF MetaType
<1> HIDE DEF Settle
<1>6. /\ settled \in Seq(Deletions) /\ Len(settled) = Len(meta.dels)
      /\ DOMAIN settled = DOMAIN meta.dels
      /\ \A k \in DOMAIN meta.dels : settled[k] = Settle(meta.dels[k]) /\ meta.dels[k] \in Deletions
  BY <1>4, <1>5
<1> HIDE DEF settled
<1>7. /\ meta'.manifest = meta.manifest /\ meta'.copy = "DELETED"
      /\ meta'.suppressed = meta.suppressed /\ meta'.segs = meta.segs
      /\ meta'.pend = {} /\ meta'.dels = settled
  BY <1>1, <1>3 DEF MetaType
<1>8. MetaType'
  BY <1>1, <1>3, <1>6 DEF MetaType
<1>9. PhonePending' <=> PhonePending
  BY <1>4, <1>6, <1>7 DEF PhonePending
<1>10. job.entry \in Entries /\ job' = [job EXCEPT !.at = "end", !.entry = job.entry, !.of = {}]
  BY <1>1, <1>3, AtKeepsEntry
<1>11. /\ JobType' /\ Jobs' /\ Removal' /\ Numbers' /\ job'.at = "end" /\ job'.of = {}
       /\ job'.entry = job.entry /\ job'.conn = job.conn
  <2>1. "end" \in Requests \cup {"publish", "end"}
    OBVIOUS
  <2>2. QED
    BY <1>1, <1>2, <1>10, <2>1, MovesOn
<1>12. AnswerTurn' /\ RequestTurn' /\ ReplyType'
  BY <1>1, <1>11, TakenTurns
<1>13. Pasts'
  BY <1>1, <1>3, <1>7, <1>11, LinkBounds
  DEF LinkInv, Pasts, Past, NoReply, Absent, DevType, LinkBounds
<1>14. Wishes'
  BY <1>4, <1>6, <1>7, <1>9 DEF LinkInv, Wishes
<1>15. Tombs' /\ DeletePledge'
  <2>1. \A o : Asked(o) => Asked(o)'
    BY <1>4, <1>6, <1>7 DEF Asked
  <2>2. settled[op].pendant = "CONFIRMED"
    BY <1>1, <1>4, <1>6 DEF Asked, LinkInv, Wishes
  <2>3. Tombs'
    BY <1>1, <1>7, <2>1, <2>2 DEF Tombs
  <2>4. DeletePledge'
    BY <1>1, <1>6, <1>7, <2>1 DEF LinkInv, DeletePledge
  <2>5. QED
    BY <2>3, <2>4
<1>16. Owed' /\ Copies' /\ Receipts'
  BY <1>1, <1>7, <1>9 DEF LinkInv, Owed, Copies, Receipts
<1>17. Places' /\ OnDisk'
  BY <1>11 DEF Places, OnDisk
<1>18. QED
  BY <1>1, <1>8, <1>11, <1>12, <1>13, <1>14, <1>15, <1>16, <1>17, Frames DEF LinkInv, Types

(* A verified segment is on the disk before anything counts it.            *)
LEMMA TakeSegmentStep == ASSUME LinkInv, TakeSegment PROVE LinkInv'
<1> DEFINE i == Min(Missing(meta))
<1>1. /\ job.kind = "sync" /\ job.at = "segment" /\ files' = files \cup {i}
      /\ job' = [job EXCEPT !.at = "publish", !.of = {}]
      /\ UNCHANGED <<dev, srv, conns, link, meta, once>>
  BY DEF TakeSegment, pendantVars
<1>2. MetaType /\ JobType /\ DevType /\ DiskType
  BY DEF LinkInv, Types
<1>3. i \in Missing(meta) /\ i \in 1..N
  <2>1. Missing(meta) # {} /\ Missing(meta) \subseteq 1..N
    BY <1>1, <1>2, MissingType DEF LinkInv, Places
  <2>2. QED
    BY <2>1, MinIsMember, LinkBounds DEF LinkBounds
<1> HIDE DEF i
<1>4. DiskType'
  BY <1>1, <1>2, <1>3 DEF DiskType
<1>5. job.entry \in Entries /\ job' = [job EXCEPT !.at = "publish", !.entry = job.entry, !.of = {}]
  BY <1>1, <1>2, AtKeepsEntry DEF At
<1>6. "publish" \in Requests \cup {"publish", "end"}
  OBVIOUS
<1>7. /\ JobType' /\ Jobs' /\ Removal' /\ job'.at = "publish" /\ job'.of = {}
      /\ job'.entry = job.entry /\ job'.conn = job.conn
      /\ UNCHANGED <<srv, reply>> => Numbers'
      /\ reply' = NoReply /\ UNCHANGED srv => Numbers'
  BY <1>1, <1>5, <1>6, MovesOn
<1>8. AnswerTurn' /\ RequestTurn' /\ ReplyType' /\ Numbers' /\ Pasts'
  <2>1. CASE Valid /\ reply' = NoReply
    <3>1. AnswerTurn' /\ RequestTurn' /\ ReplyType' /\ Numbers'
      BY <1>1, <1>7, <2>1, TakenTurns
    <3>2. Pasts'
      BY <1>1, <1>2, <1>7, <2>1, LinkBounds
      DEF LinkInv, Pasts, Past, NoReply, Absent, DevType, LinkBounds
    <3>3. QED
      BY <3>1, <3>2
  <2>2. CASE job.of = {} /\ UNCHANGED reply
    <3>1. AnswerTurn' /\ RequestTurn'
      BY <1>1, <1>7, <2>2 DEF LinkInv, AnswerTurn, RequestTurn
    <3>2. Pasts' /\ ReplyType'
      BY <1>1, <1>7, <2>2, Frames DEF LinkInv, Types, Pasts, Past
    <3>3. QED
      BY <1>1, <1>7, <2>2, <3>1, <3>2
  <2>3. QED
    BY <2>1, <2>2 DEF TakeSegment
<1>9. Copies'
  BY <1>1 DEF LinkInv, Copies, PhonePending
<1>10. Places'
  BY <1>1, <1>7 DEF LinkInv, Places, PhonePending, PendantPending, Missing
<1>11. OnDisk'
  BY <1>1 DEF OnDisk, Missing, i
<1>12. QED
  BY <1>1, <1>4, <1>7, <1>8, <1>9, <1>10, <1>11, Frames DEF LinkInv, Types

(* What a publication commits: the first missing segment, on the disk, of  *)
(* a recording that is here and that nobody wished away.                   *)
LEMMA PublishFacts ==
  ASSUME LinkInv, Publish, NEW i, i = Min(Missing(meta))
  PROVE  /\ job.kind = "sync" /\ i \in Missing(meta) /\ i \in 1..N /\ i \in files
         /\ i \in 1..meta.manifest.n
         /\ ~PhonePending /\ PendantPending = {} /\ ~meta.suppressed /\ meta.copy = "PRESENT"
<1>1. job.at = "publish" /\ MetaType /\ JobType
  BY DEF Publish, LinkInv, Types
<1>2. job.kind = "sync"
  BY <1>1 DEF LinkInv, Jobs, NoJob, JobType
<1>3. Missing(meta) # {} /\ Missing(meta) \subseteq 1..N /\ Missing(meta) \subseteq 1..meta.manifest.n
  BY <1>1, MissingType DEF LinkInv, Places
<1>4. i \in Missing(meta)
  BY <1>3, MinIsMember, LinkBounds DEF LinkBounds
<1>5. QED
  BY <1>1, <1>2, <1>3, <1>4 DEF LinkInv, Places, OnDisk

(* Publishing counts a segment that is on the disk and owes its receipt    *)
(* (publishDownloadedSegment).                                             *)
LEMMA PublishStep == ASSUME LinkInv, Publish PROVE LinkInv'
<1> DEFINE i == Min(Missing(meta))
           at == IF meta.manifest.final /\ Missing(meta') # {} THEN "segment" ELSE Flushing(meta')
<1>1. /\ job.at = "publish" /\ At(at) /\ once' = once \cup {i}
      /\ meta' = [meta EXCEPT !.segs = @ \cup {i}, !.pend = @ \cup {i}]
      /\ UNCHANGED <<dev, srv, conns, link, reply, files>>
  BY DEF Publish, Published, pendantVars
<1>2. MetaType /\ JobType /\ DiskType /\ SrvType /\ ReplyType
  BY DEF LinkInv, Types
<1>3. /\ job.kind = "sync" /\ i \in 1..N /\ i \in files /\ i \in 1..meta.manifest.n
      /\ ~PhonePending /\ PendantPending = {} /\ ~meta.suppressed /\ meta.copy = "PRESENT"
  BY PublishFacts
<1>4. /\ at \in {"receipt", "segment", "end"}
      /\ at = "receipt" => meta'.pend # {}
      /\ at = "segment" => Missing(meta') # {}
  BY FlushingPlace
<1> HIDE DEF i, at
<1>5. /\ meta'.manifest = meta.manifest /\ meta'.copy = meta.copy
      /\ meta'.suppressed = meta.suppressed /\ meta'.segs = meta.segs \cup {i}
      /\ meta'.pend = meta.pend \cup {i} /\ meta'.dels = meta.dels
  BY <1>1, <1>2 DEF MetaType
<1>6. MetaType' /\ DiskType'
  BY <1>1, <1>2, <1>3 DEF MetaType, DiskType
<1>7. job.entry \in Entries /\ job' = [job EXCEPT !.at = at, !.entry = job.entry, !.of = {}]
  BY <1>1, <1>2, AtKeepsEntry
<1>8. at \in Requests \cup {"publish", "end"}
  BY <1>4 DEF Requests
<1>9. /\ JobType' /\ Jobs' /\ Removal' /\ Numbers' /\ job'.at = at /\ job'.of = {}
      /\ job'.entry = job.entry /\ job'.conn = job.conn
  BY <1>1, <1>3, <1>7, <1>8, MovesOn
<1>10. AnswerTurn' /\ RequestTurn'
  BY <1>1, <1>2, <1>3, <1>9
  DEF LinkInv, AnswerTurn, RequestTurn, ReplyType, SrvType, Messages, Requests
<1>11. Pasts' /\ Tombs' /\ DeletePledge' /\ Wishes'
  BY <1>1, <1>5, <1>9 DEF LinkInv, Pasts, Past, Tombs, DeletePledge, Wishes, Asked, PhonePending
<1>12. Owed' /\ ReceiptPledge' /\ Copies' /\ Receipts'
  BY <1>1, <1>3, <1>5 DEF LinkInv, Owed, ReceiptPledge, Copies, Receipts, PhonePending
<1>13. Places' /\ OnDisk'
  BY <1>3, <1>4, <1>5, <1>9 DEF Places, OnDisk, Missing, PhonePending, PendantPending
<1>14. QED
  BY <1>1, <1>6, <1>9, <1>10, <1>11, <1>12, <1>13, Frames DEF LinkInv, Types

(* A job that is over takes nothing from what was on its way to it.        *)
LEMMA JobOver ==
  ASSUME LinkInv, job' = NoJob, UNCHANGED <<dev, srv, reply, conns>>, link' \in {0, link},
         job.kind = "sync" => link' = 0
  PROVE  /\ JobType' /\ LinkType' /\ Jobs' /\ Removal' /\ Numbers' /\ AnswerTurn' /\ RequestTurn'
         /\ Places' /\ OnDisk' /\ (UNCHANGED <<dev, meta>> => Pasts')
<1>1. /\ NoJob.kind = "none" /\ NoJob.at = "off" /\ NoJob.conn = 0 /\ NoJob.of = {}
      /\ NoJob.entry = Absent
  BY DEF NoJob
<1>2. JobType' /\ LinkType'
  BY Empties DEF JobType, LinkInv, Types, LinkType
<1>3. Jobs' /\ Removal' /\ AnswerTurn' /\ RequestTurn' /\ Places' /\ OnDisk'
  BY <1>1 DEF Jobs, Removal, AnswerTurn, RequestTurn, Places, OnDisk
<1>4. Numbers'
  BY <1>1 DEF LinkInv, Numbers, Types, LinkType
<1>5. UNCHANGED <<dev, meta>> => Pasts'
  BY <1>1, LinkBounds DEF LinkInv, Pasts, Past, Absent, Types, DevType, LinkBounds
<1>6. QED
  BY <1>2, <1>3, <1>4, <1>5

(* The end of a job leaves nothing that could be taken for the next.       *)
LEMMA EndJobStep == ASSUME LinkInv, EndJob PROVE LinkInv'
<1>1. /\ job.kind = "sync" /\ job' = NoJob
      /\ link' = IF link = job.conn THEN 0 ELSE link
      /\ UNCHANGED <<dev, srv, conns, reply, meta, files, once>>
  BY DEF EndJob, pendantVars
<1>2. link' = 0
  BY <1>1 DEF LinkInv, Jobs
<1>3. QED
  BY <1>1, <1>2, JobOver, Frames DEF LinkInv, Types

(* A crash of the phone forgets the job and keeps the disk.                *)
LEMMA PhoneDiesStep == ASSUME LinkInv, PhoneDies PROVE LinkInv'
<1>1. job' = NoJob /\ link' = 0 /\ UNCHANGED <<dev, srv, conns, reply, meta, files, once>>
  BY DEF PhoneDies, pendantVars
<1>2. QED
  BY <1>1, JobOver, Frames DEF LinkInv, Types

-----------------------------------------------------------------------------
(* The steps of the deletion job.                                          *)

(* A removal occupies the job and leaves the connection alone.             *)
LEMMA RemovalJob ==
  ASSUME LinkInv, job.kind # "sync", NEW at \in {"files", "commit"}, UNCHANGED <<link, conns>>,
         NEW j \in [kind : {"none", "sync", "remove"}, at : Stations, conn : Nat, entry : Entries,
                    of : SUBSET Nat],
         Past(j.entry), job' = [j EXCEPT !.kind = "remove", !.at = at]
  PROVE  /\ JobType' /\ Jobs' /\ AnswerTurn' /\ RequestTurn' /\ Places' /\ OnDisk'
         /\ PhonePending' => Removal'
         /\ UNCHANGED <<srv, reply>> => Numbers'
         /\ UNCHANGED <<dev, srv, reply>> /\ meta'.manifest = meta.manifest => Pasts'
<1>1. job'.kind = "remove" /\ job'.at = at /\ job'.entry = j.entry
  OBVIOUS
<1>2. JobType'
  BY DEF JobType, Stations
<1>3. Jobs' /\ AnswerTurn' /\ RequestTurn' /\ Places' /\ OnDisk' /\ (PhonePending' => Removal')
  BY <1>1 DEF Jobs, AnswerTurn, RequestTurn, Places, OnDisk, Removal
<1>4. UNCHANGED <<srv, reply>> => Numbers'
  BY <1>1 DEF LinkInv, Numbers
<1>5. UNCHANGED <<dev, srv, reply>> /\ meta'.manifest = meta.manifest => Pasts'
  BY <1>1 DEF LinkInv, Pasts, Past
<1>6. QED
  BY <1>2, <1>3, <1>4, <1>5

(* What a request for a deletion adds to the snapshot.                     *)
LEMMA RequestFacts ==
  ASSUME LinkInv, NEW loc \in {"PHONE_ONLY", "PENDANT_ONLY", "BOTH"}, requestDeletion(loc)
  PROVE  /\ MetaType' /\ Intent(loc) \in Deletions
         /\ meta'.dels = Append(meta.dels, Intent(loc))
         /\ meta'.manifest = meta.manifest /\ meta'.copy = meta.copy /\ meta'.segs = meta.segs
         /\ meta'.suppressed = (meta.suppressed \/ loc # "PENDANT_ONLY")
         /\ meta'.pend = IF loc # "PENDANT_ONLY" THEN {} ELSE meta.pend
         /\ DOMAIN meta'.dels = 1..(Len(meta.dels) + 1)
         /\ \A k \in DOMAIN meta.dels : k \in DOMAIN meta'.dels /\ meta'.dels[k] = meta.dels[k]
         /\ meta'.dels[Len(meta.dels) + 1] = Intent(loc)
<1>1. MetaType /\ Len(meta.dels) \in Nat /\ Len(meta.dels) < MaxOps /\ meta.dels \in Seq(Deletions)
  BY DEF LinkInv, Types, MetaType, requestDeletion
<1>2. Intent(loc) \in Deletions
  BY <1>1, LinkBounds DEF Intent, Deletions, LinkBounds
<1>3. meta' = [meta EXCEPT !.suppressed = @ \/ loc # "PENDANT_ONLY",
                           !.pend = IF loc # "PENDANT_ONLY" THEN {} ELSE @,
                           !.dels = Append(@, Intent(loc))]
  BY DEF requestDeletion
<1> DEFINE grown == Append(meta.dels, Intent(loc))
<1>4. /\ grown \in Seq(Deletions) /\ Len(grown) = Len(meta.dels) + 1
      /\ DOMAIN grown = 1..(Len(meta.dels) + 1)
      /\ \A k \in DOMAIN meta.dels : k \in DOMAIN grown /\ grown[k] = meta.dels[k]
      /\ grown[Len(meta.dels) + 1] = Intent(loc)
  BY <1>1, <1>2
<1> HIDE DEF grown
<1>5. /\ meta'.manifest = meta.manifest /\ meta'.copy = meta.copy /\ meta'.segs = meta.segs
      /\ meta'.suppressed = (meta.suppressed \/ loc # "PENDANT_ONLY")
      /\ meta'.pend = IF loc # "PENDANT_ONLY" THEN {} ELSE meta.pend
      /\ meta'.dels = grown
  BY <1>1, <1>3 DEF MetaType, grown
<1>6. MetaType'
  <2>1. meta' = [meta EXCEPT !.suppressed = meta'.suppressed, !.pend = meta'.pend, !.dels = grown]
    BY <1>1, <1>3, <1>5 DEF MetaType
  <2>2. meta'.suppressed \in BOOLEAN /\ meta'.pend \in SUBSET (1..N)
    BY <1>1, <1>5 DEF MetaType
  <2>3. Len(grown) <= MaxOps
    BY <1>1, <1>4, LinkBounds DEF LinkBounds
  <2>4. QED
    BY <1>1, <1>4, <1>5, <2>1, <2>2, <2>3 DEF MetaType
<1>7. QED
  BY <1>2, <1>4, <1>5, <1>6 DEF grown

(* A deletion that is asked for is numbered and, on the phone, suppresses  *)
(* the recording at once (requestDeletion).                                *)
LEMMA RequestStep ==
  ASSUME LinkInv, NEW loc \in {"PHONE_ONLY", "PENDANT_ONLY", "BOTH"}, requestDeletion(loc)
  PROVE  LinkInv'
<1> DEFINE m == Len(meta.dels) + 1
<1>1. /\ job = NoJob /\ ~PhonePending /\ PendantPending = {}
      /\ job' = IF loc = "PENDANT_ONLY" THEN job ELSE [NoJob EXCEPT !.kind = "remove", !.at = "files"]
      /\ UNCHANGED <<dev, srv, conns, link, reply, files, once>>
  BY DEF requestDeletion, pendingDeletion, pendantVars
<1>2. /\ MetaType' /\ Intent(loc) \in Deletions
      /\ meta'.manifest = meta.manifest /\ meta'.copy = meta.copy /\ meta'.segs = meta.segs
      /\ meta'.suppressed = (meta.suppressed \/ loc # "PENDANT_ONLY")
      /\ meta'.pend = IF loc # "PENDANT_ONLY" THEN {} ELSE meta.pend
      /\ DOMAIN meta'.dels = 1..m
      /\ \A k \in DOMAIN meta.dels : k \in DOMAIN meta'.dels /\ meta'.dels[k] = meta.dels[k]
      /\ meta'.dels[m] = Intent(loc)
  BY RequestFacts
<1>3. DOMAIN meta.dels = 1..Len(meta.dels) /\ Len(meta.dels) \in Nat
  BY DEF LinkInv, Types, MetaType
<1>4. /\ Intent(loc).op = m /\ (Intent(loc).phone <=> loc # "PENDANT_ONLY")
      /\ Intent(loc).pendant = "CONFIRMED" => meta.copy = "DELETED"
  BY DEF Intent
<1>5. \A k \in DOMAIN meta'.dels : k \in DOMAIN meta.dels \/ k = m
  BY <1>2, <1>3
<1>6. PhonePending' <=> loc # "PENDANT_ONLY"
  <2>1. \A k \in DOMAIN meta.dels : ~meta.dels[k].phone
    BY <1>1 DEF PhonePending
  <2>2. m \in DOMAIN meta'.dels
    BY <1>2, <1>3
  <2>3. PhonePending' <=> meta'.dels[m].phone
    BY <1>2, <1>5, <2>1, <2>2 DEF PhonePending
  <2>4. QED
    BY <1>2, <1>4, <2>3
<1>7. Wishes'
  <2>1. \A k \in DOMAIN meta'.dels : meta'.dels[k].op = k
    BY <1>2, <1>4, <1>5 DEF LinkInv, Wishes
  <2>2. \A k \in DOMAIN meta'.dels : meta'.dels[k].pendant = "CONFIRMED" => meta'.copy = "DELETED"
    BY <1>2, <1>4, <1>5 DEF LinkInv, Wishes
  <2>3. PhonePending' => meta'.suppressed
    BY <1>2, <1>6
  <2>4. QED
    BY <2>1, <2>2, <2>3 DEF Wishes
<1>8. Tombs' /\ DeletePledge'
  BY <1>1, <1>2 DEF LinkInv, Tombs, DeletePledge, Asked
<1>9. Owed' /\ Copies' /\ Receipts'
  BY <1>1, <1>2, <1>6 DEF LinkInv, Owed, Copies, Receipts
<1>10. JobType' /\ Jobs' /\ AnswerTurn' /\ RequestTurn' /\ Places' /\ OnDisk' /\ Removal'
       /\ Numbers' /\ Pasts'
  <2>1. NoJob.kind = "none" /\ NoJob.at = "off"
    BY DEF NoJob
  <2>2. CASE loc = "PENDANT_ONLY"
    <3>1. UNCHANGED job
      BY <1>1, <2>2
    <3>2. Places' /\ OnDisk' /\ Removal' /\ Pasts'
      BY <1>1, <1>2, <2>1, <3>1 DEF LinkInv, Places, OnDisk, Removal, Pasts, Past
    <3>3. QED
      BY <1>1, <3>1, <3>2, Frames DEF LinkInv, Types
  <2>3. CASE loc # "PENDANT_ONLY"
    <3>1. job' = [NoJob EXCEPT !.kind = "remove", !.at = "files"] /\ job.kind # "sync"
      BY <1>1, <2>1, <2>3
    <3>2. Past(NoJob.entry)
      BY <1>1 DEF LinkInv, Pasts
    <3>3. QED
      BY <1>1, <1>2, <1>6, <2>3, <3>1, <3>2, Empties, RemovalJob
  <2>4. QED
    BY <2>2, <2>3
<1>11. QED
  BY <1>1, <1>2, <1>7, <1>8, <1>9, <1>10, Frames DEF LinkInv, Types

(* A removal is resumed only while it is pending.                          *)
LEMMA ResumeRemovalStep == ASSUME LinkInv, ResumeRemoval PROVE LinkInv'
<1>1. /\ job = NoJob /\ PhonePending
      /\ job' = [NoJob EXCEPT !.kind = "remove", !.at = "files"]
      /\ UNCHANGED <<dev, srv, conns, link, reply, meta, files, once>>
  BY DEF ResumeRemoval, pendantVars
<1>2. job.kind # "sync" /\ Past(NoJob.entry) /\ PhonePending'
  BY <1>1 DEF NoJob, LinkInv, Pasts, PhonePending
<1>3. JobType' /\ Jobs' /\ AnswerTurn' /\ RequestTurn' /\ Places' /\ OnDisk' /\ Removal'
       /\ Numbers' /\ Pasts'
  BY <1>1, <1>2, Empties, RemovalJob
<1>4. QED
  BY <1>1, <1>3, Frames DEF LinkInv, Types

(* Files go only for a removal that is pending.                            *)
LEMMA RemoveFilesStep == ASSUME LinkInv, RemoveFiles PROVE LinkInv'
<1>1. /\ job.at = "files" /\ job' = [job EXCEPT !.at = "commit"] /\ files' = {}
      /\ UNCHANGED <<dev, srv, conns, link, reply, meta, once>>
  BY DEF RemoveFiles, pendantVars
<1>2. JobType /\ job.kind = "remove" /\ PhonePending /\ PhonePending'
  <2>1. JobType
    BY DEF LinkInv, Types
  <2>2. job.kind = "remove"
    BY <1>1, <2>1 DEF LinkInv, Jobs, NoJob, Requests, JobType
  <2>3. QED
    BY <1>1, <2>1, <2>2 DEF LinkInv, Removal, PhonePending
<1>3. job' = [job EXCEPT !.kind = "remove", !.at = "commit"] /\ Past(job.entry)
  BY <1>1, <1>2 DEF JobType, LinkInv, Pasts
<1>4. JobType' /\ Jobs' /\ AnswerTurn' /\ RequestTurn' /\ Places' /\ OnDisk' /\ Removal'
       /\ Numbers' /\ Pasts'
  <2>1. job \in [kind : {"none", "sync", "remove"}, at : Stations, conn : Nat, entry : Entries,
                 of : SUBSET Nat]
    BY <1>2 DEF JobType
  <2>2. job.kind # "sync"
    BY <1>2
  <2>3. QED
    BY <1>1, <1>2, <1>3, <2>1, <2>2, RemovalJob
<1>5. DiskType' /\ Copies'
  BY <1>1, <1>2 DEF LinkInv, Types, DiskType, Copies
<1>6. QED
  BY <1>1, <1>4, <1>5, Frames DEF LinkInv, Types

(* A removal that is committed was wished for.                             *)
LEMMA CommitRemovalStep ==
  ASSUME LinkInv, CommitRemoval
  PROVE  LinkInv' /\ meta.suppressed
<1> DEFINE Drop(d) == [d EXCEPT !.phone = FALSE]
           dropped == [k \in DOMAIN meta.dels |-> Drop(meta.dels[k])]
<1>1. /\ job.at = "commit" /\ job' = NoJob
      /\ meta' = [meta EXCEPT !.segs = {}, !.pend = {}, !.dels = dropped]
      /\ UNCHANGED <<dev, srv, conns, link, reply, files, once>>
  BY DEF CommitRemoval, pendantVars
<1>2. MetaType /\ JobType
  BY DEF LinkInv, Types
<1>3. job.kind = "remove"
  BY <1>1, <1>2 DEF LinkInv, Jobs, NoJob, Requests, JobType
<1>4. meta.suppressed
  BY <1>3 DEF LinkInv, Removal, Wishes
<1>5. \A d \in Deletions : /\ Drop(d) \in Deletions /\ Drop(d).op = d.op
                           /\ Drop(d).phone = FALSE /\ Drop(d).pendant = d.pendant
  BY DEF Deletions
<1>6. meta.dels \in Seq(Deletions)
  BY <1>2 DEF MetaType
<1> HIDE DEF Drop
<1>7. /\ dropped \in Seq(Deletions) /\ Len(dropped) = Len(meta.dels)
      /\ DOMAIN dropped = DOMAIN meta.dels
      /\ \A k \in DOMAIN meta.dels : dropped[k] = Drop(meta.dels[k]) /\ meta.dels[k] \in Deletions
  BY <1>5, <1>6
<1> HIDE DEF dropped
<1>8. /\ meta'.manifest = meta.manifest /\ meta'.copy = meta.copy
      /\ meta'.suppressed = meta.suppressed /\ meta'.segs = {} /\ meta'.pend = {}
      /\ meta'.dels = dropped
  BY <1>1, <1>2 DEF MetaType
<1>9. MetaType'
  BY <1>1, <1>2, <1>7 DEF MetaType
<1>10. ~PhonePending' /\ \A op : Asked(op) => Asked(op)'
  BY <1>5, <1>7, <1>8 DEF PhonePending, Asked
<1>11. Wishes'
  BY <1>5, <1>7, <1>8, <1>10 DEF LinkInv, Wishes
<1>12. Tombs'
  BY <1>1, <1>5, <1>7, <1>8, <1>10 DEF LinkInv, Tombs, Asked
<1>13. DeletePledge'
  BY <1>1, <1>7, <1>8, <1>10 DEF LinkInv, DeletePledge
<1>14. Owed' /\ Copies' /\ Receipts'
  BY <1>8 DEF Owed, Copies, Receipts
<1>15. /\ JobType' /\ LinkType' /\ Jobs' /\ Removal' /\ Numbers' /\ AnswerTurn' /\ RequestTurn'
       /\ Places' /\ OnDisk'
  BY <1>1, <1>3, JobOver
<1>16. Pasts'
  BY <1>1, <1>8, LinkBounds DEF LinkInv, Pasts, Past, NoJob, Absent, Types, DevType, LinkBounds
<1>17. QED
  BY <1>1, <1>4, <1>9, <1>11, <1>12, <1>13, <1>14, <1>15, <1>16, Frames DEF LinkInv, Types

-----------------------------------------------------------------------------
(* The theorems.                                                           *)

(* The two ends begin with nothing on its way.                             *)
LEMMA InitInv == ASSUME Init PROVE LinkInv
<1>1. /\ meta.dels = <<>> /\ meta.segs = {} /\ meta.pend = {} /\ meta.copy = "UNKNOWN"
      /\ meta.manifest = NoManifest /\ ~meta.suppressed
      /\ dev.n = 0 /\ ~dev.final /\ dev.tomb = 0 /\ dev.receipts = {}
      /\ srv = NoServe /\ conns = 0 /\ link = 0 /\ reply = NoReply /\ job = NoJob
      /\ files = {} /\ once = {}
  BY DEF Init
<1>2. DevType
  BY LinkBounds DEF Init, DevType, LinkBounds
<1>3. MetaType
  <2>1. NoManifest \in [n : 0..N, final : BOOLEAN]
    BY LinkBounds DEF LinkBounds, NoManifest
  <2>2. <<>> \in Seq(Deletions) /\ Len(<<>>) = 0
    OBVIOUS
  <2>3. QED
    BY <2>1, <2>2, LinkBounds DEF LinkBounds, Init, MetaType
<1>4. Types
  BY <1>1, <1>2, <1>3, Empties DEF Types, SrvType, LinkType, ReplyType, DiskType, JobType
<1>5. ~PhonePending
  BY <1>1 DEF PhonePending
<1>6. Wishes /\ Tombs /\ Owed /\ Copies /\ Receipts
  BY <1>1, <1>5 DEF Wishes, Tombs, Owed, Copies, Receipts
<1>7. /\ NoServe.conn = 0 /\ NoServe.snap = Absent /\ NoServe.req = NoMsg /\ NoMsg.kind = "none"
      /\ NoReply.kind = "none" /\ NoReply.conn = 0 /\ NoReply.body = Absent
      /\ NoJob.kind = "none" /\ NoJob.at = "off" /\ NoJob.entry = Absent
      /\ Absent.n = 0 /\ ~Absent.final /\ NoManifest.n = 0 /\ ~NoManifest.final
  BY DEF NoServe, NoReply, NoJob, NoMsg, Absent, NoManifest
<1>8. Pasts /\ ReceiptPledge /\ DeletePledge
  BY <1>1, <1>7 DEF Pasts, Past, ReceiptPledge, DeletePledge
<1>9. Numbers /\ Jobs /\ Removal /\ AnswerTurn /\ RequestTurn /\ Places /\ OnDisk
  BY <1>1, <1>7 DEF Numbers, Jobs, Removal, AnswerTurn, RequestTurn, Places, OnDisk
<1>10. QED
  BY <1>4, <1>6, <1>8, <1>9 DEF LinkInv

(* Every step keeps the invariant: one lemma per action.                   *)
LEMMA NextInv == ASSUME LinkInv, [Next]_vars PROVE LinkInv'
<1>1. CASE Sync
  BY <1>1, StartStep, SendStep, TakeCatalogStep, TakeManifestStep, TakeReceiptStep,
     TakeTombstoneStep, TakeSegmentStep, PublishStep, EndJobStep DEF Sync
<1>2. CASE \E loc \in {"PHONE_ONLY", "PENDANT_ONLY", "BOTH"} : requestDeletion(loc)
  BY <1>2, RequestStep
<1>3. CASE UNCHANGED vars
  BY <1>3, Frames DEF vars, LinkInv, Types
<1>4. QED
  BY <1>1, <1>2, <1>3, GrowStep, ServeStep, RetireStep, ResetPendantStep, ConnectStep,
     DisconnectStep, ResumeRemovalStep, RemoveFilesStep, CommitRemovalStep, PhoneDiesStep DEF Next

(* Messages, sessions and jobs stay in step with the two stores            *)
(* (rcat_handle, DurableRecordingSyncSession.run, deletePhone): the        *)
(* inductive invariant of the link.                                        *)
THEOREM LinkInvariant == Spec => []LinkInv
BY InitInv, NextInv, PTL DEF Spec

(* What the phone has written down is so, for every number of segments,    *)
(* connections, deletions and crashes (publishDownloadedSegment,           *)
(* confirmReceipts, confirmPendantDeletion, performPhoneDeletion).         *)
THEOREM PhoneTruthHolds == Spec => []PhoneTruth
<1>1. ASSUME LinkInv PROVE PhoneTruth
  <2>1. Types /\ Numbers /\ Tombs /\ Wishes /\ Pasts /\ Copies /\ Receipts
    BY <1>1 DEF LinkInv
  <2>2. TypeOK
    <3>1. /\ dev \in [n : 0..N, final : BOOLEAN, receipts : SUBSET (1..N), tomb : 0..MaxOps]
          /\ {meta.segs, meta.pend, files, once} \subseteq SUBSET (1..N)
          /\ meta.copy \in {"UNKNOWN", "PRESENT", "DELETED"}
          /\ job.kind \in {"none", "sync", "remove"}
      BY <2>1 DEF Types, DevType, MetaType, DiskType, JobType
    <3>2. link \in 0..conns /\ srv.conn \in 0..conns /\ reply.conn \in 0..conns
      BY <2>1 DEF Types, LinkType, SrvType, ReplyType, Numbers
    <3>3. QED
      BY <3>1, <3>2 DEF TypeOK
  <2>3. meta.copy = "DELETED" => \E k \in DOMAIN meta.dels : /\ meta.dels[k].op = dev.tomb
                                                            /\ meta.dels[k].pendant = "CONFIRMED"
    BY <2>1 DEF Tombs, Asked, Wishes
  <2>4. QED
    BY <2>1, <2>2, <2>3 DEF PhoneTruth, Pasts, Past, Copies, Receipts
<1>2. QED
  BY <1>1, LinkInvariant, PTL

-----------------------------------------------------------------------------
(* The link implements Transfer.                                           *)

AnyAsked == \E k \in DOMAIN meta.dels : meta.dels[k].pendant # "NOT_REQUESTED"

(* Most steps leave what Transfer speaks of as it is.                      *)
LEMMA Stutters ==
  ASSUME UNCHANGED <<dev, once>>, meta'.segs = meta.segs, meta'.suppressed = meta.suppressed,
         meta'.copy = "DELETED" <=> meta.copy = "DELETED", AnyAsked' <=> AnyAsked
  PROVE  UNCHANGED T!vars
BY DEF T!vars, AnyAsked

(* A write of the pendant acknowledges, gives up its copy, or is none.     *)
LEMMA StoredMaps ==
  ASSUME LinkInv, srv.req # NoMsg, Grants(srv.req), dev' = Stored(srv.req), UNCHANGED <<meta, once>>
  PROVE  [T!Next]_(T!vars)
<1> DEFINE r == srv.req
<1>1. DevType /\ DevType' /\ DiskType
  BY StoredRecords, RecordedKeeps DEF LinkInv, Types
<1>2. CASE r.kind = "receipt"
  <2>1. dev' = [dev EXCEPT !.receipts = @ \cup r.of] /\ r.of \subseteq once /\ dev.tomb = 0
    BY <1>2, StoredRecords DEF LinkInv, ReceiptPledge, Grants, Readable
  <2>2. /\ dev'.n = dev.n /\ dev'.final = dev.final /\ dev'.tomb = dev.tomb
        /\ dev'.receipts = dev.receipts \cup r.of
    BY <1>1, <2>1 DEF DevType
  <2>3. r.of \in SUBSET (1..N)
    BY <1>1, <2>1 DEF DiskType
  <2>4. T!Acknowledge(r.of)
    BY <2>1, <2>2 DEF T!Acknowledge
  <2>5. QED
    BY <2>3, <2>4 DEF T!Next
<1>3. CASE r.kind = "delete" /\ dev'.tomb # dev.tomb
  <2>1. /\ dev'.n = dev.n /\ dev'.final = dev.final /\ dev'.receipts = dev.receipts
        /\ dev'.tomb # 0 /\ dev.final
    BY <1>3, StoredRecords DEF Recorded
  <2>2. AnyAsked
    BY <1>3, <2>1 DEF LinkInv, DeletePledge, Asked, AnyAsked
  <2>3. (dev'.tomb = 0) = FALSE
    BY <2>1
  <2>4. T!GiveUp
    BY <2>1, <2>2, <2>3 DEF T!GiveUp, AnyAsked
  <2>5. QED
    BY <2>4 DEF T!Next
<1>4. CASE r.kind # "receipt" /\ dev'.tomb = dev.tomb
  <2>1. dev' = dev
    <3>1. dev'.n = dev.n /\ dev'.final = dev.final /\ dev'.receipts = dev.receipts
      BY <1>4, StoredRecords DEF Recorded
    <3>2. QED
      BY <1>1, <1>4, <3>1 DEF DevType
  <2>2. QED
    BY <2>1 DEF T!vars
<1>5. QED
  <2>1. r.kind \notin {"receipt", "delete"} => dev' = dev
    BY StoredRecords
  <2>2. QED
    BY <1>2, <1>3, <1>4, <2>1

(* Every step of the link is a step of Transfer, or none.                  *)
LEMMA StepMaps == ASSUME LinkInv, LinkInv', [Next]_vars PROVE [T!Next]_(T!vars)
<1>1. MetaType /\ MetaType' /\ DevType /\ DevType' /\ DiskType
  BY DEF LinkInv, Types
<1>2. CASE Grow
  <2>1. dev.tomb = 0 /\ ~dev.final /\ UNCHANGED <<meta, once>>
    BY <1>2 DEF Grow, phoneVars
  <2>2. dev'.receipts = dev.receipts /\ dev'.tomb = dev.tomb
    BY <1>1, <1>2 DEF Grow, DevType
  <2>3. \/ dev.n < N /\ dev'.n = dev.n + 1 /\ dev'.final = dev.final
        \/ dev'.n = dev.n /\ dev'.final = TRUE
    BY <1>1, <1>2 DEF Grow, DevType
  <2>4. T!Record
    BY <2>1, <2>2, <2>3 DEF T!Record
  <2>5. QED
    BY <2>4 DEF T!Next
<1>3. CASE Serve
  <2>1. CASE Grants(srv.req)
    BY <1>3, <2>1, StoredMaps DEF Serve, phoneVars
  <2>2. CASE ~Grants(srv.req)
    BY <1>3, <2>2 DEF Serve, phoneVars, T!vars
  <2>3. QED
    BY <2>1, <2>2
<1>4. CASE ResetPendant
  <2>1. UNCHANGED <<meta, once>>
    BY <1>4 DEF ResetPendant, phoneVars
  <2>2. CASE dev' = dev
    BY <2>1, <2>2 DEF T!vars
  <2>3. CASE srv.req # NoMsg /\ Grants(srv.req) /\ dev' = Stored(srv.req)
    BY <2>1, <2>3, StoredMaps
  <2>4. QED
    BY <1>4, <2>2, <2>3 DEF ResetPendant
<1>5. CASE TakeManifest
  <2>1. /\ UNCHANGED <<dev, once>> /\ meta.copy # "DELETED"
        /\ meta' = [meta EXCEPT !.manifest = Manifest(job.entry), !.copy = "PRESENT"]
    BY <1>5 DEF TakeManifest, Observable, Unsaved, pendantVars
  <2>2. /\ meta'.segs = meta.segs /\ meta'.suppressed = meta.suppressed /\ meta'.dels = meta.dels
        /\ meta'.copy = "PRESENT"
    BY <1>1, <2>1 DEF MetaType
  <2>3. QED
    BY <2>1, <2>2, Stutters DEF AnyAsked
<1>6. CASE TakeReceipt
  <2>1. UNCHANGED <<dev, once>> /\ meta' = [meta EXCEPT !.pend = @ \ job.of]
    BY <1>6 DEF TakeReceipt, Unsaved, pendantVars
  <2>2. /\ meta'.segs = meta.segs /\ meta'.suppressed = meta.suppressed /\ meta'.dels = meta.dels
        /\ meta'.copy = meta.copy
    BY <1>1, <2>1 DEF MetaType
  <2>3. QED
    BY <2>1, <2>2, Stutters DEF AnyAsked
<1>7. CASE TakeTombstone
  <2>1. /\ UNCHANGED <<dev, once>> /\ dev.tomb # 0 /\ Asked(dev.tomb)
        /\ meta' = Confirmed(meta, dev.tomb)
    BY <1>7, TombstoneTaken DEF TakeTombstone, Unsaved, pendantVars
  <2>2. /\ meta'.segs = meta.segs /\ meta'.suppressed = meta.suppressed
        /\ meta'.copy = "DELETED"
    BY <1>1, <2>1 DEF MetaType, Confirmed
  <2>3. AnyAsked
    BY <2>1 DEF Asked, AnyAsked
  <2>4. AnyAsked'
    BY <2>1, <2>2 DEF LinkInv, Tombs, Asked, AnyAsked
  <2>5. T!Learn
    BY <2>1, <2>2, <2>3, <2>4 DEF T!Learn, AnyAsked
  <2>6. QED
    BY <2>5 DEF T!Next
<1>8. CASE Publish
  <2> DEFINE i == Min(Missing(meta))
  <2>1. /\ UNCHANGED dev /\ once' = once \cup {i}
        /\ meta' = [meta EXCEPT !.segs = @ \cup {i}, !.pend = @ \cup {i}]
    BY <1>8 DEF Publish, Published, pendantVars
  <2>2. /\ i \in 1..N /\ i \in 1..meta.manifest.n
        /\ PendantPending = {} /\ ~meta.suppressed /\ meta.copy = "PRESENT"
    BY <1>8, PublishFacts
  <2> HIDE DEF i
  <2>3. /\ meta'.segs = meta.segs \cup {i} /\ meta'.suppressed = meta.suppressed
        /\ meta'.dels = meta.dels /\ meta'.copy = meta.copy
    BY <1>1, <2>1 DEF MetaType
  <2>4. ~AnyAsked
    <3>1. \A k \in DOMAIN meta.dels :
             meta.dels[k].pendant \in {"NOT_REQUESTED", "PENDING", "CONFIRMED"}
      <4>1. meta.dels \in Seq(Deletions)
        BY <1>1 DEF MetaType
      <4>2. \A k \in DOMAIN meta.dels : meta.dels[k] \in Deletions
        BY <4>1
      <4>3. QED
        BY <4>2 DEF Deletions
    <3>2. QED
      BY <2>2, <3>1 DEF AnyAsked, PendantPending, LinkInv, Wishes
  <2>5. dev.tomb = 0
    BY <2>4 DEF LinkInv, Tombs, Asked, AnyAsked
  <2>6. i <= dev.n
    BY <1>1, <2>2 DEF LinkInv, Pasts, Past, MetaType, DevType
  <2>7. T!Copy(i)
    BY <2>1, <2>2, <2>3, <2>4, <2>5, <2>6 DEF T!Copy, AnyAsked
  <2>8. QED
    BY <2>2, <2>7 DEF T!Next
<1>9. CASE CommitRemoval
  <2>1. meta.suppressed /\ UNCHANGED <<dev, once>>
    BY <1>9, CommitRemovalStep DEF CommitRemoval, pendantVars
  <2>2. /\ meta'.segs = {} /\ meta'.suppressed = meta.suppressed /\ meta'.copy = meta.copy
        /\ meta'.dels = [k \in DOMAIN meta.dels |-> [meta.dels[k] EXCEPT !.phone = FALSE]]
    BY <1>1, <1>9 DEF CommitRemoval, MetaType
  <2>3. AnyAsked' <=> AnyAsked
    <3>1. meta.dels \in Seq(Deletions)
      BY <1>1 DEF MetaType
    <3>2. DOMAIN meta'.dels = DOMAIN meta.dels
      BY <2>2
    <3>3. \A k \in DOMAIN meta.dels : meta'.dels[k].pendant = meta.dels[k].pendant
      BY <2>2, <3>1 DEF Deletions
    <3>4. QED
      BY <3>2, <3>3 DEF AnyAsked
  <2>4. T!DropCopies
    BY <2>1, <2>2, <2>3 DEF T!DropCopies, AnyAsked
  <2>5. QED
    BY <2>4 DEF T!Next
<1>10. ASSUME NEW loc \in {"PHONE_ONLY", "PENDANT_ONLY", "BOTH"}, requestDeletion(loc)
       PROVE  [T!Next]_(T!vars)
  <2> DEFINE W == (IF loc # "PENDANT_ONLY" THEN {"phone"} ELSE {}) \cup
                  (IF loc # "PHONE_ONLY" THEN {"pendant"} ELSE {})
  <2>1. UNCHANGED <<dev, once>> /\ meta.manifest.final
    BY <1>10 DEF requestDeletion, pendantVars
  <2>2. dev.final
    BY <2>1 DEF LinkInv, Pasts, Past
  <2>3. /\ meta'.segs = meta.segs /\ meta'.copy = meta.copy
        /\ meta'.suppressed = (meta.suppressed \/ loc # "PENDANT_ONLY")
        /\ DOMAIN meta'.dels = 1..(Len(meta.dels) + 1)
        /\ \A k \in DOMAIN meta.dels : k \in DOMAIN meta'.dels /\ meta'.dels[k] = meta.dels[k]
        /\ meta'.dels[Len(meta.dels) + 1] = Intent(loc)
    BY <1>10, RequestFacts
  <2>4. AnyAsked' <=> AnyAsked \/ loc # "PHONE_ONLY"
    <3>1. Intent(loc).pendant # "NOT_REQUESTED" <=> loc # "PHONE_ONLY"
      BY DEF Intent
    <3>2. DOMAIN meta.dels = 1..Len(meta.dels) /\ Len(meta.dels) \in Nat
      BY <1>1 DEF MetaType
    <3>3. /\ \A k \in DOMAIN meta'.dels : k \in DOMAIN meta.dels \/ k = Len(meta.dels) + 1
          /\ Len(meta.dels) + 1 \in DOMAIN meta'.dels
      BY <2>3, <3>2
    <3>4. QED
      BY <2>3, <3>1, <3>3 DEF AnyAsked
  <2>5. W \in SUBSET {"phone", "pendant"}
    OBVIOUS
  <2>6. T!Ask(W)
    BY <2>1, <2>2, <2>3, <2>4 DEF T!Ask, AnyAsked
  <2>7. QED
    BY <2>5, <2>6 DEF T!Next
<1>11. CASE \/ Retire \/ Connect \/ Disconnect \/ Start \/ Send \/ TakeCatalog \/ TakeSegment
            \/ EndJob \/ ResumeRemoval \/ RemoveFiles \/ PhoneDies \/ UNCHANGED vars
  <2>1. UNCHANGED <<dev, once, meta>>
    BY <1>11 DEF Retire, Connect, Disconnect, Start, Send, TakeCatalog, TakeSegment, EndJob,
                 ResumeRemoval, RemoveFiles, PhoneDies, vars, pendantVars, phoneVars, Unsaved
  <2>2. QED
    BY <2>1 DEF T!vars
<1>12. QED
  BY <1>2, <1>3, <1>4, <1>5, <1>6, <1>7, <1>8, <1>9, <1>10, <1>11 DEF Next, Sync

(* Pendant, link and phone together implement Transfer, for every number   *)
(* of segments, connections, deletions and crashes: nothing is             *)
(* acknowledged that was not copied, the pendant's copy goes only when it  *)
(* is asked for, and nothing is copied after a deletion is.                *)
THEOREM LinkImplementsTransfer == Spec => Transfers
<1>1. Init => T!Init
  <2>1. SUFFICES ASSUME Init PROVE T!Init
    OBVIOUS
  <2>2. /\ dev.n = 0 /\ dev.final = FALSE /\ (dev.tomb = 0) = TRUE /\ dev.receipts = {}
        /\ meta.segs = {} /\ once = {} /\ (meta.copy = "DELETED") = FALSE
        /\ meta.suppressed = FALSE /\ meta.dels = <<>>
    BY <2>1 DEF Init
  <2>3. QED
    BY <2>2 DEF T!Init
<1>2. LinkInv /\ LinkInv' /\ [Next]_vars => [T!Next]_(T!vars)
  BY StepMaps
<1>3. QED
  BY <1>1, <1>2, LinkInvariant, PTL DEF Spec, Transfers, T!Spec

-----------------------------------------------------------------------------
(* The broker inside the composition.                                      *)

BP == INSTANCE BrokerProofs WITH link <- gatt, MaxConns <- BrokerConns

(* The broker inside the composition takes its own steps and no others.    *)
LEMMA BrokerInside == MCSpec => BP!Spec
<1>1. MCInit => BP!Init
  BY DEF MCInit,
     B!Init, BP!Init, B!NoBroker, BP!NoBroker, B!NoRuntime, BP!NoRuntime, B!NoReq, BP!NoReq,
     B!NoNonce, BP!NoNonce, B!NoFrame, BP!NoFrame, B!IdleThread, BP!IdleThread, B!IdlePump,
     BP!IdlePump, B!IdleCodec, BP!IdleCodec
<1>2. [MCNext]_<<layer, vars, brokerVars>> => [BP!Next]_BP!vars
  <2>1. B!Next => BP!Next
    BY ONLY DEF
       B!Commands, BP!Commands, B!NoNonce, BP!NoNonce, B!NoReq, BP!NoReq, B!NoFrame,
       BP!NoFrame, B!Parts, BP!Parts, B!Requests, BP!Requests, B!NoBroker, BP!NoBroker,
       B!NoRuntime, BP!NoRuntime, B!IdleThread, BP!IdleThread, B!IdlePump, BP!IdlePump,
       B!IdleCodec, BP!IdleCodec, B!Expire, BP!Expire, B!Clear, BP!Clear, B!Quiet, BP!Quiet,
       B!Kick, BP!Kick, B!HookAfterKick, BP!HookAfterKick, B!Leaving, BP!Leaving, B!Leave,
       BP!Leave, B!Deliverable, BP!Deliverable, B!Schedule, BP!Schedule, B!Live, BP!Live,
       B!BaseReady, BP!BaseReady, B!Ready, BP!Ready, B!Authorized, BP!Authorized,
       B!Admitted, BP!Admitted, B!BusyWhilePending, BP!BusyWhilePending, B!Busy, BP!Busy,
       B!Opens, BP!Opens, B!Continues, BP!Continues, B!Write, BP!Write, B!Goto, BP!Goto,
       B!Permit, BP!Permit, B!Commit, BP!Commit, B!Claim, BP!Claim, B!Enqueue, BP!Enqueue,
       B!After, BP!After, B!ScheduleAfter, BP!ScheduleAfter, B!LeaveRadio, BP!LeaveRadio,
       B!Radio, BP!Radio, B!Handle, BP!Handle, B!Check, BP!Check, B!ReplyAllowed,
       BP!ReplyAllowed, B!Notify, BP!Notify, B!Delivered, BP!Delivered, B!EndDelivery,
       BP!EndDelivery, B!LeavePump, BP!LeavePump, B!Pump, BP!Pump, B!Reset, BP!Reset, B!To,
       BP!To, B!Poll, BP!Poll, B!schedule_retirement, BP!schedule_retirement, B!Take,
       BP!Take, B!Checks, BP!Checks, B!Fails, BP!Fails, B!StreamReady, BP!StreamReady,
       B!Result, BP!Result, B!Served, BP!Served, B!Perform, BP!Perform, B!Completable,
       BP!Completable, B!Complete, BP!Complete, B!More, BP!More, B!Stage, BP!Stage,
       B!ScheduleStaged, BP!ScheduleStaged, B!LeaveCodec, BP!LeaveCodec, B!Done, BP!Done,
       B!RetireHook, BP!RetireHook, B!RetireVolume, BP!RetireVolume, B!Retirable,
       BP!Retirable, B!Retired, BP!Retired, B!Unlatch, BP!Unlatch, B!Codec, BP!Codec,
       B!Connect, BP!Connect, B!Cancelled, BP!Cancelled, B!Disconnect, BP!Disconnect,
       B!Tick, BP!Tick, B!PowerLost, BP!PowerLost, B!OtherClaims, BP!OtherClaims,
       B!OtherReleases, BP!OtherReleases, B!Next, BP!Next
  <2> QED
    BY <2>1 DEF MCNext, brokerVars, BP!vars
<1> QED
  BY <1>1, <1>2, PTL DEF MCSpec, BP!Spec

(* The constants of the broker are numbers.                                *)
LEMMA BrokerNumbers == BP!Bounds
BY BrokerBounds DEF BrokerBounds, BP!Bounds

(* Whatever the order of the receive thread, the work item and the codec   *)
(* thread, the broker finds no contradiction: no completion and no         *)
(* retirement is refused, no actor is missing, no delivery finds nothing   *)
(* (recording_ble.c), beside a link in any state.                          *)
THEOREM BrokerSoundHolds == MCSpec => []BrokerSound
<1>1. BP!Spec => []BP!BrokerSound
  BY BrokerNumbers, BP!BrokerIsSound
<1>2. BP!BrokerSound => BrokerSound
  BY DEF BrokerSound, B!BrokerSound, BP!BrokerSound, B!TypeOK, BP!TypeOK, B!Requests,
     BP!Requests, B!Commands, BP!Commands, B!NoReq, BP!NoReq, B!NoNonce, BP!NoNonce
<1> QED
  BY <1>1, <1>2, BrokerInside, PTL

(* A frame reaches only the connection that asked for it, the frames of an *)
(* answer in order and each once, and no session goes on that has not had  *)
(* its answer whole (deliver, durable_notify, stream_sent).                *)
THEOREM AnsweredInFullHolds == MCSpec => []AnsweredInFull
<1>1. BP!Spec => []BP!AnsweredInFull
  BY BrokerNumbers, BP!AnswersAreFull
<1>2. BP!AnsweredInFull => AnsweredInFull
  BY DEF AnsweredInFull, B!AnsweredInFull, BP!AnsweredInFull, B!Parts, BP!Parts
<1> QED
  BY <1>1, <1>2, BrokerInside, PTL
=============================================================================
