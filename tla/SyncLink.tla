------------------------------ MODULE SyncLink ------------------------------
(***************************************************************************)
(* One recording between the pendant and the phone: the catalog session of *)
(* recording_catalog.c behind the broker, the sync job of                  *)
(* DurableRecordingSync.kt over its coordinator (RecordingSyncContract.kt) *)
(* and the phone's deletion job.  SyncBroker has shown that an answer      *)
(* reaches only the connection that asked and that a revoked session ends; *)
(* here a request is admitted, performed and answered in one step each,    *)
(* and anything may fail between them: the link, the pendant, the phone's  *)
(* patience, the phone itself.                                             *)
(*                                                                         *)
(* A GATT connection serves one sync job: its number is the job's epoch    *)
(* and its nonce.  A catalog, a manifest or a segment is one exchange.     *)
(* The bytes of a segment are its number.                                  *)
(***************************************************************************)
EXTENDS Naturals, FiniteSets, Sequences, FiniteSetsExt

CONSTANTS
  N,           \* bound: segments of the recording
  MaxConns,    \* bound: connections, so sync jobs
  MaxOps,      \* bound: deletions the user asks for
  MaxCrashes   \* bound: resets of the pendant and deaths of the phone

ASSUME LinkBounds == N \in Nat \ {0} /\ {MaxConns, MaxOps, MaxCrashes} \subseteq Nat

VARIABLES
  dev,      \* the pendant's store: sealed segments, terminal, receipts, tombstone
  srv,      \* the pendant's catalog session: connection, snapshot, request
  conns,    \* connections made
  link,     \* the connection that is up, 0 for none
  reply,    \* the answer on its way to the phone
  meta,     \* the phone's RecordingSyncSnapshot
  files,    \* the segments published on the phone's disk
  job,      \* the library job: none, a sync session, or a phone deletion
  once,     \* segments the phone has ever published (history)
  crashes   \* used of the bound

vars == <<dev, srv, conns, link, reply, meta, files, job, once, crashes>>
pendantVars == <<dev, srv>>
phoneVars == <<meta, files, job, once>>

Absent == [n |-> 0, final |-> FALSE, present |-> FALSE]
NoMsg == [kind |-> "none", conn |-> 0, of |-> {}]
NoServe == [conn |-> 0, snap |-> Absent, req |-> NoMsg]
NoReply == [kind |-> "none", conn |-> 0, body |-> Absent]
NoJob == [kind |-> "none", at |-> "off", conn |-> 0, entry |-> Absent, of |-> {}]
NoManifest == [n |-> 0, final |-> FALSE]

Init ==
  /\ dev = [n |-> 0, final |-> FALSE, receipts |-> {}, tomb |-> 0]
  /\ srv = NoServe /\ conns = 0 /\ link = 0 /\ reply = NoReply
  /\ meta = [manifest |-> NoManifest, copy |-> "UNKNOWN", suppressed |-> FALSE,
             segs |-> {}, pend |-> {}, dels |-> <<>>]
  /\ files = {} /\ job = NoJob /\ once = {} /\ crashes = 0

-----------------------------------------------------------------------------
(* The pendant.  It records only while no catalog is open.                 *)

Grow ==
  /\ srv = NoServe /\ dev.tomb = 0 /\ ~dev.final
  /\ \/ dev.n < N /\ dev' = [dev EXCEPT !.n = @ + 1]
     \/ dev.n > 0 /\ dev' = [dev EXCEPT !.final = TRUE]
  /\ UNCHANGED <<srv, conns, link, reply, phoneVars, crashes>>

(* rcat_open: the snapshot leaves out a tombstoned recording.              *)
Snapshot == [n |-> dev.n, final |-> dev.final, present |-> dev.tomb = 0 /\ dev.n > 0]

(* rcat_handle: a tombstone revokes data and receipt selectors even within *)
(* the snapshot; a delete is replayed, or names a terminal entry of it.    *)
Selects(r) == CASE r.kind = "manifest" -> srv.snap.present
                [] r.kind \in {"segment", "receipt"} ->
                     srv.snap.present /\ \A i \in r.of : i <= srv.snap.n
                [] OTHER -> TRUE
Readable(r) == dev.tomb = 0 /\ Selects(r)

Replays(r) == dev.tomb # 0 /\ r.of = {dev.tomb}
Deletable(r) == dev.tomb = 0 /\ srv.snap.present /\ srv.snap.final

Stored(r) == CASE r.kind = "receipt" -> [dev EXCEPT !.receipts = @ \cup r.of]
               [] r.kind = "delete" /\ dev.tomb = 0 ->
                    [dev EXCEPT !.tomb = CHOOSE op \in r.of : TRUE]
               [] OTHER -> dev

Grants(r) == CASE r.kind = "catalog" -> TRUE
               [] r.kind = "delete"  -> Replays(r) \/ Deletable(r)
               [] OTHER              -> Readable(r)

(* The request is performed and answered, if its link is still there; a    *)
(* refused selector is answered by closing the session.                    *)
Serve ==
  /\ srv.req # NoMsg
  /\ LET r == srv.req
         snap == IF r.kind = "catalog" THEN Snapshot ELSE srv.snap
     IN IF Grants(r)
        THEN /\ dev' = Stored(r) /\ srv' = [srv EXCEPT !.req = NoMsg, !.snap = snap]
             /\ reply' = IF link = srv.conn THEN [kind |-> r.kind, conn |-> srv.conn, body |-> snap]
                         ELSE reply
             /\ UNCHANGED link
        ELSE /\ UNCHANGED <<dev, reply>> /\ srv' = [srv EXCEPT !.req = NoMsg]
             /\ link' = IF link = srv.conn THEN 0 ELSE link
  /\ UNCHANGED <<conns, phoneVars, crashes>>

(* The broker retires the session of a connection that is gone.            *)
Retire ==
  /\ srv.conn # 0 /\ srv.conn # link /\ srv.req = NoMsg /\ srv' = NoServe
  /\ UNCHANGED <<dev, conns, link, reply, phoneVars, crashes>>

(* A reset before a request is performed, or after it and before the       *)
(* answer: what was stored stays.                                          *)
ResetPendant ==
  /\ crashes < MaxCrashes /\ crashes' = crashes + 1
  /\ \/ dev' = dev
     \/ srv.req # NoMsg /\ Grants(srv.req) /\ dev' = Stored(srv.req)
  /\ srv' = NoServe /\ link' = 0
  /\ UNCHANGED <<conns, reply, phoneVars>>

-----------------------------------------------------------------------------
(* The link.                                                               *)

Connect ==
  /\ link = 0 /\ job = NoJob /\ conns < MaxConns
  /\ conns' = conns + 1 /\ link' = conns + 1
  /\ UNCHANGED <<pendantVars, reply, phoneVars, crashes>>

Disconnect ==
  /\ link # 0 /\ link' = 0
  /\ UNCHANGED <<pendantVars, conns, reply, phoneVars, crashes>>

-----------------------------------------------------------------------------
(* The phone's coordinator: decisions over its persisted snapshot.         *)

PhonePending == \E k \in DOMAIN meta.dels : meta.dels[k].phone
PendantPending == {k \in DOMAIN meta.dels : meta.dels[k].pendant = "PENDING"}
pendingDeletion == PhonePending \/ PendantPending # {}

Manifest(entry) == [n |-> entry.n, final |-> entry.final]
Settled(entry) == /\ meta.copy = "PRESENT" /\ ~meta.suppressed /\ meta.dels = <<>>
                  /\ meta.pend = {} /\ entry.final /\ meta.manifest = Manifest(entry)
                  /\ meta.segs = 1..entry.n

(* nextPendantDeletion is asked for even when the catalog omits the        *)
(* recording: absence is not a tombstone.                                  *)
Step(entry) == IF PhonePending \/ (~entry.present /\ PendantPending = {}) THEN "end"
               ELSE IF PendantPending # {} THEN "delete"
               ELSE IF Settled(entry) THEN "end" ELSE "manifest"

Missing(m) == {i \in 1..m.manifest.n : i \notin m.segs}
Flushing(m) == IF m.pend # {} THEN "receipt" ELSE IF Missing(m) # {} THEN "segment" ELSE "end"

(* nextReceiptBatch: a contiguous run for a finished recording, else one.  *)
NextReceipts == LET first == Min(meta.pend)
                IN IF meta.manifest.final THEN {i \in meta.pend : first..i \subseteq meta.pend}
                   ELSE {first}

(* observeManifest: a revision only grows, and a final one stands.         *)
Observable(entry) == /\ meta.copy # "DELETED" /\ entry.n >= meta.manifest.n
                     /\ (meta.manifest.final => Manifest(entry) = meta.manifest)

-----------------------------------------------------------------------------
(* The sync job (DurableRecordingSyncSession.run).                         *)

Operands == CASE job.at = "delete"  -> {meta.dels[Min(PendantPending)].op}
              [] job.at = "receipt" -> NextReceipts
              [] job.at = "segment" -> {Min(Missing(meta))}
              [] OTHER -> {}

Start ==
  /\ job = NoJob /\ link # 0 /\ link = conns
  /\ job' = [NoJob EXCEPT !.kind = "sync", !.at = "catalog", !.conn = link]
  /\ UNCHANGED <<pendantVars, conns, link, reply, meta, files, once, crashes>>

(* A complete file on disk needs no read: it is published as it is.        *)
Reused == job.at = "segment" /\ Min(Missing(meta)) \in files

(* The request goes out and is admitted: the first of a session is its     *)
(* catalog, and the pendant serves one session and one request.            *)
SendForgetting ==
  /\ job.kind = "sync" /\ job.of = {} /\ ~Reused
  /\ job.at \in {"catalog", "delete", "manifest", "receipt", "segment"}
  /\ link = job.conn
  /\ srv.req = NoMsg /\ srv.conn = (IF job.at = "catalog" THEN 0 ELSE job.conn)
  /\ srv' = [srv EXCEPT !.conn = link, !.req = [kind |-> job.at, conn |-> link, of |-> Operands]]
  /\ job' = [job EXCEPT !.of = IF Operands = {} THEN {0} ELSE Operands]
  /\ meta' = IF job.at = "receipt" THEN [meta EXCEPT !.pend = @ \ Operands] ELSE meta
  /\ UNCHANGED <<dev, conns, link, reply, files, once, crashes>>

Send ==
  /\ job.kind = "sync" /\ job.of = {} /\ ~Reused
  /\ job.at \in {"catalog", "delete", "manifest", "receipt", "segment"}
  /\ link = job.conn
  /\ srv.req = NoMsg /\ srv.conn = (IF job.at = "catalog" THEN 0 ELSE job.conn)
  /\ srv' = [srv EXCEPT !.conn = link, !.req = [kind |-> job.at, conn |-> link, of |-> Operands]]
  /\ job' = [job EXCEPT !.of = IF Operands = {} THEN {0} ELSE Operands]
  /\ UNCHANGED <<dev, conns, link, reply, meta, files, once, crashes>>

(* validateReply: the answer of this job, its lease and link still live.   *)
Valid == /\ reply.kind = job.at /\ reply.conn = job.conn /\ job.of # {}
         /\ job.kind = "sync" /\ link = job.conn

At(at) == job' = [job EXCEPT !.at = at, !.of = {}]
Unsaved == UNCHANGED <<pendantVars, conns, link, files, once, crashes>>

TakeCatalog ==
  /\ Valid /\ job.at = "catalog" /\ reply' = NoReply
  /\ meta.segs \subseteq files \/ PhonePending       \* the coordinator verifies every file
  /\ job' = [job EXCEPT !.at = Step(reply.body), !.entry = reply.body, !.of = {}]
  /\ UNCHANGED meta /\ Unsaved

TakeManifest ==
  /\ Valid /\ job.at = "manifest" /\ reply' = NoReply /\ Observable(job.entry)
  /\ meta' = [meta EXCEPT !.manifest = Manifest(job.entry), !.copy = "PRESENT"]
  /\ At(IF meta.suppressed THEN "end" ELSE Flushing(meta'))
  /\ Unsaved

(* confirmReceipts: one commit for the batch that was sent.                *)
TakeReceipt ==
  /\ Valid /\ job.at = "receipt" /\ reply' = NoReply
  /\ meta' = [meta EXCEPT !.pend = @ \ job.of]
  /\ At(Flushing(meta')) /\ Unsaved

(* confirmPendantDeletion.                                                 *)
Confirmed(m, op) ==
  [m EXCEPT !.copy = "DELETED", !.pend = {},
            !.dels = [k \in DOMAIN @ |-> IF @[k].op = op THEN [@[k] EXCEPT !.pendant = "CONFIRMED"]
                                         ELSE @[k]]]
TakeTombstone ==
  /\ Valid /\ job.at = "delete" /\ reply' = NoReply
  /\ meta' = Confirmed(meta, CHOOSE op \in job.of : TRUE)
  /\ At("end") /\ Unsaved

(* The segment is verified; publishDownloadedSegment then commits the file *)
(* and only after it the metadata that makes its receipt eligible.         *)
TakeSegment ==
  /\ job.kind = "sync" /\ job.at = "segment"
  /\ \/ Reused /\ link = job.conn /\ job.of = {} /\ UNCHANGED reply
     \/ Valid /\ reply' = NoReply
  /\ files' = files \cup {Min(Missing(meta))}
  /\ job' = [job EXCEPT !.at = "publish", !.of = {}]
  /\ UNCHANGED <<pendantVars, conns, link, meta, once, crashes>>

Published(m, i) == [m EXCEPT !.segs = @ \cup {i}, !.pend = @ \cup {i}]

Publish ==
  /\ job.at = "publish" /\ link = job.conn
  /\ LET i == Min(Missing(meta))
     IN /\ meta' = Published(meta, i) /\ once' = once \cup {i}
  /\ At(IF meta.manifest.final /\ Missing(meta') # {} THEN "segment" ELSE Flushing(meta'))
  /\ UNCHANGED <<pendantVars, conns, link, reply, files, crashes>>

(* The job ends by itself, or gives up at any point: a deadline, a         *)
(* cancellation, a lost link, a refused or late answer.  Either way its    *)
(* GATT connection is closed; an answer not taken changes nothing.         *)
EndJobAssumingDeleted ==
  /\ job.kind = "sync" /\ job' = NoJob
  /\ link' = IF link = job.conn THEN 0 ELSE link
  /\ meta' = IF job.at = "delete" /\ job.of # {} THEN Confirmed(meta, CHOOSE op \in job.of : TRUE)
             ELSE meta
  /\ UNCHANGED <<pendantVars, conns, reply, files, once, crashes>>

EndJob ==
  /\ job.kind = "sync" /\ job' = NoJob
  /\ link' = IF link = job.conn THEN 0 ELSE link
  /\ UNCHANGED <<pendantVars, conns, reply, meta, files, once, crashes>>

Sync == Start \/ Send \/ TakeCatalog \/ TakeManifest \/ TakeReceipt \/ TakeTombstone
        \/ TakeSegment \/ Publish \/ EndJob

-----------------------------------------------------------------------------
(* The deletion job: the intent is persisted before anything is removed.   *)

Intent(loc) ==
  [op |-> Len(meta.dels) + 1, phone |-> loc # "PENDANT_ONLY",
   pendant |-> IF loc = "PHONE_ONLY" THEN "NOT_REQUESTED"
               ELSE IF meta.copy = "DELETED" THEN "CONFIRMED" ELSE "PENDING"]

requestDeletion(loc) ==
  /\ job = NoJob /\ meta.manifest.final /\ ~pendingDeletion /\ Len(meta.dels) < MaxOps
  /\ meta' = [meta EXCEPT !.suppressed = @ \/ loc # "PENDANT_ONLY",
                          !.pend = IF loc # "PENDANT_ONLY" THEN {} ELSE @,
                          !.dels = Append(@, Intent(loc))]
  /\ job' = IF loc = "PENDANT_ONLY" THEN job ELSE [NoJob EXCEPT !.kind = "remove", !.at = "files"]
  /\ UNCHANGED <<pendantVars, conns, link, reply, files, once, crashes>>

(* Only a pending deletion can be resumed.                                 *)
ResumeRemoval ==
  /\ job = NoJob /\ PhonePending /\ job' = [NoJob EXCEPT !.kind = "remove", !.at = "files"]
  /\ UNCHANGED <<pendantVars, conns, link, reply, meta, files, once, crashes>>

RemoveFiles ==
  /\ job.at = "files" /\ job' = [job EXCEPT !.at = "commit"]
  /\ files' = {}
  /\ UNCHANGED <<pendantVars, conns, link, reply, meta, once, crashes>>

CommitRemoval ==
  /\ job.at = "commit" /\ job' = NoJob
  /\ meta' = [meta EXCEPT !.segs = {}, !.pend = {},
                          !.dels = [k \in DOMAIN @ |-> [@[k] EXCEPT !.phone = FALSE]]]
  /\ UNCHANGED <<pendantVars, conns, link, reply, files, once, crashes>>

(* The phone's process dies: what is on its disk stays.                    *)
PhoneDies ==
  /\ crashes < MaxCrashes /\ crashes' = crashes + 1
  /\ job # NoJob /\ job' = NoJob /\ link' = 0
  /\ UNCHANGED <<pendantVars, conns, reply, meta, files, once>>

Next ==
  \/ Grow \/ Serve \/ Retire \/ ResetPendant \/ Connect \/ Disconnect
  \/ Sync
  \/ \E loc \in {"PHONE_ONLY", "PENDANT_ONLY", "BOTH"} : requestDeletion(loc)
  \/ ResumeRemoval \/ RemoveFiles \/ CommitRemoval \/ PhoneDies

Spec == Init /\ [][Next]_vars

-----------------------------------------------------------------------------
(* Every variable keeps its type.                                          *)
TypeOK ==
  /\ dev \in [n : 0..N, final : BOOLEAN, receipts : SUBSET (1..N), tomb : 0..MaxOps]
  /\ link \in 0..conns /\ srv.conn \in 0..conns /\ reply.conn \in 0..conns
  /\ meta.copy \in {"UNKNOWN", "PRESENT", "DELETED"}
  /\ {meta.segs, meta.pend, files, once} \subseteq SUBSET (1..N)
  /\ job.kind \in {"none", "sync", "remove"}

(* What the phone has written down is so: a segment it counts is on its    *)
(* disk and one of the pendant's; a receipt it no longer owes is durable   *)
(* on the pendant, or the recording is gone there; and a deletion it calls *)
(* confirmed is the tombstone of its own operation.  Through lost answers, *)
(* resets and deaths between any two steps (publishDownloadedSegment,      *)
(* confirmReceipts, confirmPendantDeletion, performPhoneDeletion).         *)
PhoneTruth ==
  /\ TypeOK
  /\ ~PhonePending => meta.segs \subseteq files
  /\ meta.segs \subseteq 1..meta.manifest.n /\ meta.manifest.n <= dev.n
  /\ meta.manifest.final => dev.final /\ meta.manifest.n = dev.n
  /\ ~PhonePending => \A i \in meta.segs \ meta.pend : i \in dev.receipts \/ dev.tomb # 0
  /\ meta.copy = "DELETED" => \E k \in DOMAIN meta.dels : /\ meta.dels[k].op = dev.tomb
                                                         /\ meta.dels[k].pendant = "CONFIRMED"

(* The link implements Transfer: nothing is acknowledged that the phone    *)
(* never had, the pendant's copy goes only at the user's wish and when the *)
(* recording is finished, the phone calls it gone only when it is, and     *)
(* nothing is copied again once a deletion is wished for.                  *)
T == INSTANCE Transfer WITH
       sealed <- dev.n, final <- dev.final, there <- dev.tomb = 0,
       held <- meta.segs,
       acked <- dev.receipts,
       wish <- (IF meta.suppressed THEN {"phone"} ELSE {}) \cup
               (IF \E k \in DOMAIN meta.dels : meta.dels[k].pendant # "NOT_REQUESTED"
                THEN {"pendant"} ELSE {}),
       known <- meta.copy = "DELETED"
Transfers == T!Spec
=============================================================================
