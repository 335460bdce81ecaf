------------------------------ MODULE LogicalMap -------------------------------
(***************************************************************************)
(* The logical map the native store offers its two users, the object store *)
(* and the sync metadata (recording_native_store.c over the Dhara library):*)
(* checked 2048-byte sectors, read, written and synced one call at a time. *)
(* Dhara goes back to its last checkpoint after a cut, and may take a      *)
(* checkpoint by itself at any write: a cut keeps any prefix of the writes *)
(* made since the last sync, and always everything before that.            *)
(***************************************************************************)
EXTENDS Integers, Sequences, FiniteSets, Functions

CONSTANTS
  Recs,           \* recording ids
  Ops,            \* operation ids of delete requests
  Roots,          \* root sectors, RLL_ROOTS
  Slots,          \* slots, RLL_SLOTS
  DataPages,      \* payload sectors of a segment
  SlotsPerPage,   \* receipts of a receipt page, RLL_RECEIPTS_PER_PAGE
  TombPages,      \* tombstone pages, RLL_TOMBSTONE_PAGES
  TombsPerPage    \* tombstones of a page, RLL_TOMBSTONES_PER_PAGE

ASSUME LayoutAssumption ==
  /\ Roots \in Nat \ {0} /\ Slots \in Nat \ {0} /\ DataPages \in Nat \ {0}
  /\ SlotsPerPage \in Nat \ {0} /\ TombPages \in Nat \ {0}
  /\ TombsPerPage \in Nat \ {0}

VARIABLES
  versions,  \* the map after the last sync and after each write since
  promised   \* history: what a caller was told is durable

RootNo == 0..Roots-1
SlotNo == 0..Slots-1
ReceiptPage == 0..(Slots - 1) \div SlotsPerPage
TombPage == 0..TombPages-1

(* rsmx_sector and sector(): where each part of the layout lives.          *)
MetaRoot == <<"meta">>
Root(r) == <<"root", r>>
Slot(s) == <<"slot", s>>
Data(s, i) == <<"data", s, i>>
Receipts(p) == <<"receipts", p>>
Tombs(p) == <<"tombs", p>>
Sector == {MetaRoot} \cup {Root(r) : r \in RootNo} \cup {Slot(s) : s \in SlotNo}
          \cup {Data(s, i) : s \in SlotNo, i \in 1..DataPages}
          \cup {Receipts(p) : p \in ReceiptPage} \cup {Tombs(p) : p \in TombPage}

(* RNS_MISSING: dhara_map_find knows no such sector.                       *)
Missing == [kind |-> "missing"]
Formatted == [s \in Sector |-> Missing]

(* What rns_read sees.                                                     *)
Image == versions[Len(versions)]

rns_write(s, page) == versions' = Append(versions, [Image EXCEPT ![s] = page])

rns_sync == versions' = <<Image>>

(* A power loss: dhara_map_resume finds some checkpoint since the sync.    *)
Cut == \E i \in DOMAIN versions : versions' = <<versions[i]>>

(* rns_format_begin, rns_format_step until done, publish_root.             *)
rns_format == versions' = <<Formatted>>
================================================================================
