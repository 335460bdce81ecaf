------------------------------ MODULE SyncMetadata -----------------------------
(***************************************************************************)
(* The sync metadata (recording_sync_metadata.c with the pages of          *)
(* recording_sync_paged.inc): what the phone has received, by slot, and    *)
(* which recordings were deleted, kept for good.  Each page is published   *)
(* by itself: written, synced and read back.  A call that changes pages    *)
(* leaves the ones it still has to publish in rsm.todo; a step is a write  *)
(* or a sync.  Any fault ends in the volume's Fence.                       *)
(***************************************************************************)
EXTENDS LogicalMap

VARIABLE rsm    \* RAM of the metadata: recording_sync_metadata

NoReceipt == [id |-> "none"]
MetaPage == [kind |-> "meta"]
EmptyReceipts == [kind |-> "receipts", entries |-> [s \in SlotNo |-> NoReceipt]]
EmptyTombs == [kind |-> "tombs", list |-> <<>>]

(* A context after rsm_init_extent.                                        *)
NoMetadata == [mounted |-> FALSE, deleted |-> {}, revision |-> 1,
               todo |-> <<>>, wrote |-> FALSE, reply |-> {}]

(* A terminal manifest: the digest stands for what it names.  Its revision *)
(* is segments * 4 + state, state 1 when finalized and 2 when interrupted. *)
Manifests == [id : Recs, segments : 0..Slots, state : {1, 2}]
Revision(man) == man.segments * 4 + man.state

TombList(m, p) == IF m[Tombs(p)] = Missing THEN <<>> ELSE m[Tombs(p)].list
Tombstones(m) == UNION {Range(TombList(m, p)) : p \in TombPage}
Deleted(m) == {t.man.id : t \in Tombstones(m)}
ReceiptAt(m, s) == IF m[Receipts(s \div SlotsPerPage)] = Missing THEN NoReceipt
                   ELSE m[Receipts(s \div SlotsPerPage)].entries[s]

-----------------------------------------------------------------------------
(* rsmx_open.                                                              *)

Companions == {Receipts(p) : p \in ReceiptPage} \cup {Tombs(p) : p \in TombPage}
AllMissing(m) == \A s \in Companions \cup {MetaRoot} : m[s] = Missing

(* The tombstones of all pages in order: a page is filled before the next  *)
(* one is begun, revisions grow, nothing is named twice.                   *)
TombsInOrder(m) ==
  LET at == {<<p, i>> : p \in TombPage, i \in 1..TombsPerPage}
      held == {x \in at : x[2] <= Len(TombList(m, x[1]))}
      tomb(x) == TombList(m, x[1])[x[2]]
      before(x, y) == x[1] < y[1] \/ (x[1] = y[1] /\ x[2] < y[2])
  IN /\ \A x \in held, y \in at : before(y, x) => y \in held
     /\ \A x, y \in held : before(y, x) =>
          /\ tomb(y).rev < tomb(x).rev
          /\ tomb(y).op # tomb(x).op
          /\ tomb(y).man.id # tomb(x).man.id
     /\ \A x \in held : tomb(x).rev > Revision(tomb(x).man)

MetadataValid(m) ==
  /\ \A s \in Companions \cup {MetaRoot} : m[s] # Missing
  /\ TombsInOrder(m)

Newest(m) == IF Tombstones(m) = {} THEN 1
             ELSE CHOOSE r \in {t.rev : t \in Tombstones(m)} :
                    \A t \in Tombstones(m) : r >= t.rev

(* What an open that finds its pages leaves in RAM.                        *)
Opened == [NoMetadata EXCEPT !.mounted = TRUE, !.deleted = Deleted(Image),
                             !.revision = Newest(Image)]

(* Creation: every companion, and the root last.                           *)
PagesOf(S, sector(_), page) ==
  LET next[n \in Nat] == IF n \notin S THEN <<>>
                         ELSE <<[sector |-> sector(n), page |-> page]>> \o next[n + 1]
  IN next[0]
CreatePages ==
  PagesOf(ReceiptPage, Receipts, EmptyReceipts)
  \o PagesOf(TombPage, Tombs, EmptyTombs)
  \o <<[sector |-> MetaRoot, page |-> MetaPage]>>

-----------------------------------------------------------------------------
(* rsmx_publish.                                                           *)

Idle == rsm.todo = <<>>

WritePage ==
  /\ ~Idle /\ ~rsm.wrote
  /\ rns_write(rsm.todo[1].sector, rsm.todo[1].page)
  /\ rsm' = [rsm EXCEPT !.wrote = TRUE] /\ UNCHANGED promised

(* The last page of a call is durable: its caller gets the reply, and a    *)
(* deletion enters the cached list.                                        *)
Replied(reply) ==
  [rsm EXCEPT !.todo = <<>>, !.wrote = FALSE, !.reply = {},
              !.deleted = @ \cup {p.man.id : p \in {q \in reply : q.kind = "delete"}},
              !.revision = IF \E p \in reply : p.kind = "delete"
                           THEN (CHOOSE p \in reply : p.kind = "delete").rev ELSE @]
SyncPage ==
  /\ rsm.wrote /\ rns_sync
  /\ IF Len(rsm.todo) > 1
     THEN /\ rsm' = [rsm EXCEPT !.todo = Tail(@), !.wrote = FALSE]
          /\ UNCHANGED promised
     ELSE rsm' = Replied(rsm.reply) /\ promised' = promised \cup rsm.reply

-----------------------------------------------------------------------------
(* Receipts and deletions.                                                 *)

(* rsm_receive_slot and rsm_receive_slots: a receipt belongs to a slot.  A *)
(* slot that already has one keeps it, unless that recording is deleted.   *)
MayReceive(s, r) == \/ ReceiptAt(Image, s) \in {r, NoReceipt}
                    \/ ReceiptAt(Image, s).id \in rsm.deleted

(* The pages that change, each published once, in the order of the slots.  *)
ReceiptPagesOf(f) ==
  LET changed == {s \in DOMAIN f : ReceiptAt(Image, s) # f[s]}
      page(p) == [Image[Receipts(p)] EXCEPT !.entries =
                    [s \in SlotNo |-> IF s \in changed /\ s \div SlotsPerPage = p
                                      THEN f[s] ELSE @[s]]]
      next[n \in Nat] ==
        IF n \notin ReceiptPage THEN <<>>
        ELSE (IF \E s \in changed : s \div SlotsPerPage = n
              THEN <<[sector |-> Receipts(n), page |-> page(n)]>> ELSE <<>>)
             \o next[n + 1]
  IN next[0]

rsm_receive_slots(f) ==
  /\ rsm.mounted /\ Idle
  /\ \A s \in DOMAIN f : f[s].id \notin rsm.deleted /\ MayReceive(s, f[s])
  /\ LET reply == {[kind |-> "receipt", id |-> f[s].id, seq |-> f[s].seq] : s \in DOMAIN f}
         pages == ReceiptPagesOf(f)
     IN IF pages = <<>>
        THEN promised' = promised \cup reply /\ UNCHANGED rsm
        ELSE rsm' = [rsm EXCEPT !.todo = pages, !.reply = reply] /\ UNCHANGED promised
  /\ UNCHANGED versions

(* rsmx_replay: an operation names one manifest, a manifest one operation. *)
Conflict(op, man) ==
  \E t \in Tombstones(Image) : (t.op = op) # (t.man = man)

(* rsm_replay_delete_paged, and the replay inside rsm_delete.              *)
rsm_replay_delete(op, man) ==
  /\ rsm.mounted /\ Idle /\ ~Conflict(op, man)
  /\ \E t \in Tombstones(Image) :
       /\ t.op = op
       /\ promised' = promised \cup
            {[kind |-> "delete", op |-> op, man |-> man, rev |-> t.rev]}
  /\ UNCHANGED <<versions, rsm>>

(* rsmx_delete of a recording that has no tombstone: one is appended, with *)
(* a revision above every earlier one and above the manifest's.            *)
NextRevision(man) == IF rsm.revision + 1 <= Revision(man) THEN Revision(man) + 1
                     ELSE rsm.revision + 1
Publishing(op, man) ==
  LET n == Cardinality(rsm.deleted)
      p == n \div TombsPerPage
      rev == NextRevision(man)
      tomb == [op |-> op, man |-> man, rev |-> rev]
  IN rsm' = [rsm EXCEPT
       !.todo = <<[sector |-> Tombs(p),
                   page |-> [Image[Tombs(p)] EXCEPT !.list = Append(@, tomb)]]>>,
       !.reply = {[kind |-> "delete", op |-> op, man |-> man, rev |-> rev]}]

rsm_delete_again(op, man) ==
  /\ rsm.mounted /\ Idle
  /\ \A t \in Tombstones(Image) : t.op # op
  /\ Cardinality(rsm.deleted) < TombPages * TombsPerPage
  /\ Publishing(op, man) /\ UNCHANGED <<versions, promised>>
rsm_delete(op, man) ==
  /\ rsm.mounted /\ Idle
  /\ \A t \in Tombstones(Image) : t.op # op /\ t.man # man
  /\ man.id \notin rsm.deleted
  /\ Cardinality(rsm.deleted) < TombPages * TombsPerPage
  /\ Publishing(op, man) /\ UNCHANGED <<versions, promised>>
================================================================================
