------------------------------ MODULE OwnedVolume ------------------------------
(***************************************************************************)
(* The owned volume: the volume's life cycle (recording_volume.c), the     *)
(* storage provider that joins the layers (recording_storage_provider.c),  *)
(* the control journal (owned_control_journal.c) and the NAND adapter the  *)
(* Dhara library calls (owned_dhara.c), over flash that a power loss or an *)
(* error can leave half erased or half programmed.                         *)
(*                                                                         *)
(* One step is one physical access, or the code between two of them.  Any  *)
(* fault of any layer (a deadline, a refused admission, a transport error) *)
(* fences the volume until the next reset: Fence.  Dhara itself is         *)
(* external: it may program any page the adapter calls unused, erase any   *)
(* block it does not need, and sync.                                       *)
(***************************************************************************)
EXTENDS ControlSnapshot, Sequences

CONSTANTS
  MinGood,  \* blocks Dhara needs that are not retired, 19
  MaxBoots  \* bound: resets considered

ASSUME BootsAssumption == MinGood \in Nat /\ MaxBoots \in Nat

VARIABLES
  phase,    \* durable: RCFG phase of the configuration record
  latched,  \* durable: fault_banks of the configuration record
  banks,    \* durable: the two control banks
  map,      \* durable: the map pages, each Blank, Garbage or a lease
  vol,      \* RV_ state of the volume, after a fault FENCED
  j,        \* RAM of the control journal
  d,        \* RAM of the adapter
  op,       \* the call in progress: its next step and its continuation
  boots,    \* resets so far
  used,     \* history: leases under which a physical operation started
  acked,    \* history: the last snapshot a publish or a boot returned OK for
  kept      \* history: pages a sync returned OK for, not recycled since

durable == <<phase, latched, banks, map>>
history == <<boots, used, acked, kept>>
vars == <<durable, vol, j, d, op, history>>

Blank == 0
Garbage == -1
NoLease == [kind |-> "none"]
Idle == [pc |-> "idle"]

NoJournal == [booted |-> FALSE, reconciled |-> FALSE, tail_fresh |-> FALSE,
              next_slot |-> 0, fresh |-> {}, inflight |-> NoLease,
              current |-> NoRoot, working |-> [b \in MapBlocks |-> NoRange]]
NoAdapter == [ready |-> FALSE, writable |-> FALSE, sequence |-> 0,
              high_water |-> 0, retired |-> {}, format |-> {},
              base |-> [b \in MapBlocks |-> 0],
              consumed |-> [b \in MapBlocks |-> {}]]

Init ==
  /\ phase = "PREPARED" /\ latched = FALSE
  /\ banks \in [Banks -> {[i \in BankSlot |-> x] : x \in {Erased, Torn}}]
  /\ map = [b \in MapBlocks |-> [p \in Pages |-> Garbage]]
  /\ vol = "PREPARED" /\ j = NoJournal /\ d = NoAdapter /\ op = Idle
  /\ boots = 0 /\ used = {} /\ acked = NoRoot /\ kept = {}

-----------------------------------------------------------------------------
(* Faults and resets.                                                      *)

(* fence: every layer refuses from now on, and no layer's RAM is read.     *)
Fenced == vol' = "FENCED" /\ j' = NoJournal /\ d' = NoAdapter /\ op' = Idle

(* A deadline, a refused admission, a read error or any other fault        *)
(* between two mutations.  A media error met while reading a control bank, *)
(* at boot or in the read-back, is latched.                                *)
Fence ==
  /\ vol # "FENCED"
  /\ latched' \in {latched} \cup
                  IF op.pc = "verify" \/ ~j.booted THEN {TRUE} ELSE {}
  /\ Fenced
  /\ UNCHANGED <<phase, banks, map, history>>

(* A reset, at any time; rv_init or rv_recovery_init decides what the new  *)
(* boot may do.                                                            *)
Reset ==
  /\ boots < MaxBoots /\ boots' = boots + 1
  /\ vol' \in CASE latched -> {"FENCED"}
                [] phase = "PREPARED" -> {"PREPARED"}
                [] phase = "ACTIVE" -> {"CONFIGURED"}
                [] OTHER -> {"FENCED", "RECOVERY_PREPARED"}
  /\ j' = NoJournal /\ d' = NoAdapter /\ op' = Idle
  /\ UNCHANGED <<durable, used, acked, kept>>

-----------------------------------------------------------------------------
(* publish: prepare the candidate, erase the other bank if the current one *)
(* cannot take it, program it, read it back.                               *)
(* Mutated: the page after the root is used without knowing it is erased.  *)
CandidateTrustsTail(s) ==
  LET stay == j.current.slot + 1 < BankSlots
  IN [s EXCEPT !.epoch = j.current.epoch + 1,
               !.digest = <<j.current.epoch + 1, boots>>,
               !.previous = j.current.digest,
               !.bank = IF stay THEN j.current.bank ELSE 1 - j.current.bank,
               !.slot = IF stay THEN j.current.slot + 1 ELSE 0]

Candidate(s) ==
  LET stay == j.tail_fresh /\ j.next_slot < BankSlots
  IN [s EXCEPT !.epoch = j.current.epoch + 1,
               !.digest = <<j.current.epoch + 1, boots>>,
               !.previous = j.current.digest,
               !.bank = IF stay THEN j.current.bank ELSE 1 - j.current.bank,
               !.slot = IF stay THEN j.next_slot ELSE 0]

Publish(s, then) ==
  IF j.current.epoch = MaxEpoch
  THEN Fenced
  ELSE /\ op' = [pc |-> "encode", cand |-> Candidate(s), then |-> then]
       /\ UNCHANGED <<vol, j, d>>

(* Mutated: the bank that is recycled is the one holding the root.         *)
EncodeRecyclesRoot ==
  /\ op.pc = "encode"
  /\ IF Syntax(op.cand) /\ Transition(j.current, op.cand)
     THEN /\ op' = IF op.cand.bank = j.current.bank
                   THEN [op EXCEPT !.pc = "program"]
                   ELSE [pc |-> "erase", todo |-> <<j.current.bank>>,
                         cand |-> op.cand, then |-> op.then]
          /\ UNCHANGED <<vol, j, d>>
     ELSE Fenced
  /\ UNCHANGED <<durable, history>>

(* ocj_encode and the transition check, before anything is touched.        *)
Encode ==
  /\ op.pc = "encode"
  /\ IF Syntax(op.cand) /\ Transition(j.current, op.cand)
     THEN /\ op' = IF op.cand.bank = j.current.bank
                   THEN [op EXCEPT !.pc = "program"]
                   ELSE [pc |-> "erase", todo |-> <<op.cand.bank>>,
                         cand |-> op.cand, then |-> op.then]
          /\ UNCHANGED <<vol, j, d>>
     ELSE Fenced
  /\ UNCHANGED <<durable, history>>

(* erase_fresh: erase a bank and read all of it back.                      *)
EraseBank ==
  /\ op.pc = "erase"
  /\ banks' = [banks EXCEPT ![op.todo[1]] = [i \in BankSlot |-> Erased]]
  /\ op' = IF Len(op.todo) > 1
           THEN [op EXCEPT !.todo = Tail(@)]
           ELSE [pc |-> "program", cand |-> op.cand, then |-> op.then]
  /\ UNCHANGED <<phase, latched, map, vol, j, d, history>>

(* The erase was cut short or reported an error; a media failure, or a     *)
(* page found programmed afterwards, is latched for ever.                  *)
EraseBankFails ==
  /\ op.pc = "erase"
  /\ \E torn \in SUBSET BankSlot :
       banks' = [banks EXCEPT ![op.todo[1]] =
                   [i \in BankSlot |-> IF i \in torn THEN Torn ELSE @[i]]]
  /\ latched' \in {latched, TRUE}
  /\ Fenced
  /\ UNCHANGED <<phase, map, history>>

ProgramBank ==
  /\ op.pc = "program"
  /\ banks' = [banks EXCEPT ![op.cand.bank][op.cand.slot] = op.cand]
  /\ j' = [j EXCEPT !.tail_fresh = FALSE]
  /\ op' = [op EXCEPT !.pc = "verify"]
  /\ UNCHANGED <<phase, latched, map, vol, d, history>>

ProgramBankFails ==
  /\ op.pc = "program"
  /\ \E left \in {Torn, op.cand} :
       banks' = [banks EXCEPT ![op.cand.bank][op.cand.slot] = left]
  /\ latched' \in {latched, TRUE}
  /\ Fenced
  /\ UNCHANGED <<phase, map, history>>

(* The read-back: only now is the snapshot the current one.                *)
Verified(then) ==
  /\ op.pc = "verify" /\ op.then = then
  /\ acked' = op.cand
  /\ UNCHANGED <<durable, boots, used>>

Published ==
  [j EXCEPT !.current = op.cand, !.tail_fresh = TRUE,
            !.next_slot = op.cand.slot + 1]

-----------------------------------------------------------------------------
(* The life cycle of the volume.                                           *)

(* ocj_capability, and the adapter's capability check that adopts it.      *)
Granted(adapter, root) ==
  [adapter EXCEPT !.sequence = root.epoch, !.high_water = root.high_water,
                  !.retired = root.retired, !.writable = TRUE]

(* owned_dhara_init and the start of owned_dhara_format.                   *)
Formatting(root) ==
  [Granted(NoAdapter, root) EXCEPT !.format = MapBlocks \ root.retired]

(* rv_provision: PREPARED is left durably before the banks are touched.    *)
Genesis ==
  [kind |-> "snapshot", epoch |-> 1, digest |-> <<1, boots>>,
   previous |-> NoDigest, state |-> "PROVISIONING", bank |-> 0, slot |-> 0,
   high_water |-> 0, retired |-> {}, quarantine |-> {}, open |-> {},
   pending |-> NoBlock, blocks |-> [b \in MapBlocks |-> NoRange]]

Provision ==
  /\ vol = "PREPARED" /\ op = Idle
  /\ phase' = "PROVISIONING" /\ vol' = "PROVISIONING"
  /\ op' = [pc |-> "erase", todo |-> <<1, 0>>, cand |-> Genesis,
            then |-> "provision"]
  /\ UNCHANGED <<latched, banks, map, j, d, history>>

ProvisionDone ==
  /\ Verified("provision")
  /\ j' = [Published EXCEPT !.booted = TRUE, !.reconciled = TRUE,
                            !.working = op.cand.blocks]
  /\ d' = Formatting(op.cand) /\ op' = Idle
  /\ UNCHANGED <<vol, kept>>

(* ocj_boot, read only, into the journal's RAM.                            *)
Booted(root) == [NoJournal EXCEPT !.booted = TRUE, !.current = root,
                                  !.working = root.blocks]

(* ocj_page_info: the state of a page as the journal classifies it.        *)
PageInfo(b, p) ==
  IF p \in j.working[b].valid THEN "committed"
  ELSE IF /\ b \in j.fresh \ j.current.retired
          /\ p >= j.working[b].consumed
       THEN "unused" ELSE "abandoned"
LeaseOf(b, p) == j.working[b].base + 1 + p

(* rv_mount: boot, enough blocks for owned_dhara_init, and a checkpoint    *)
(* for dhara_map_resume.                                                   *)
Good(retired) == Cardinality(MapBlocks \ retired)
Mount ==
  /\ vol = "CONFIGURED" /\ op = Idle
  /\ LET root == Boot(banks) IN
       IF /\ IsSnapshot(root) /\ Good(root.retired) >= MinGood
          /\ \E b \in MapBlocks : root.blocks[b].valid # {}
       THEN /\ j' = Booted(root) /\ vol' = "READ_ONLY"
            /\ d' = [NoAdapter EXCEPT !.ready = TRUE,
                                      !.retired = root.retired]
            /\ acked' = root /\ UNCHANGED op
       ELSE Fenced /\ UNCHANGED acked
  /\ UNCHANGED <<durable, boots, used, kept>>

(* known_phase2_root: a first format that stopped after two blocks.  The   *)
(* fifth snapshot is in slot 4 of bank 0 of the 64-page banks.             *)
KnownPhase2Root(root) ==
  /\ root.epoch = 5 /\ root.high_water = 2 * (PagesPerBlock + 1)
  /\ root.state = "PROVISIONING" /\ root.pending = NoBlock
  /\ root.bank = 0 /\ root.slot = 4 % BankSlots
  /\ root.retired = {} /\ root.quarantine = {} /\ root.open = {0, 1}
  /\ \A b \in MapBlocks :
       root.blocks[b] =
         IF b \in {0, 1}
         THEN [base |-> 1 + b * (PagesPerBlock + 1), valid |-> {},
               seq |-> 2 * (b + 1), consumed |-> 0]
         ELSE NoRange

(* ocj_reconcile: blocks left open and a pending erase are quarantined.    *)
Reconciled(root) ==
  [root EXCEPT !.quarantine = @ \cup root.open \cup
                              ({root.pending} \ {NoBlock}),
               !.open = {}, !.pending = NoBlock]

(* rv_recovery_run: rsp_recovery_prepare reads, rsp_recovery_commit        *)
(* reconciles into the other bank.                                         *)
RecoveryPrepare ==
  /\ vol = "RECOVERY_PREPARED" /\ op = Idle
  /\ LET root == Boot(banks) IN
       IF IsSnapshot(root) /\ KnownPhase2Root(root)
       THEN /\ j' = Booted(root) /\ vol' = "PROVISIONING"
            /\ acked' = root /\ UNCHANGED <<d, op>>
       ELSE Fenced /\ UNCHANGED acked
  /\ UNCHANGED <<durable, boots, used, kept>>

RecoveryCommit ==
  /\ vol = "PROVISIONING" /\ op = Idle /\ j.booted /\ ~j.reconciled
  /\ Publish(Reconciled(j.current), "recover")
  /\ UNCHANGED <<durable, history>>

RecoveryDone ==
  /\ Verified("recover")
  /\ j' = [Published EXCEPT !.reconciled = TRUE, !.working = op.cand.blocks]
  /\ d' = Formatting(op.cand) /\ op' = Idle
  /\ UNCHANGED <<vol, kept>>

(* rv_grant: reconcile once per boot, then make the map writable.          *)
Grant ==
  /\ vol = "READ_ONLY" /\ op = Idle
  /\ IF j.reconciled
     THEN /\ d' = Granted(d, j.current) /\ vol' = "WRITABLE"
          /\ UNCHANGED <<j, op>>
     ELSE Publish(Reconciled(j.current), "reconcile")
  /\ UNCHANGED <<durable, history>>

GrantDone ==
  /\ Verified("reconcile")
  /\ j' = [Published EXCEPT !.reconciled = TRUE, !.working = op.cand.blocks]
  /\ d' = Granted(d, op.cand) /\ vol' = "WRITABLE" /\ op' = Idle
  /\ UNCHANGED kept

(* rsp_activate, once applications() has written and synced its root.      *)
Activate ==
  /\ vol = "PROVISIONING" /\ op = Idle /\ d.ready
  /\ j.current.state = "PROVISIONING" /\ kept # {}
  /\ Publish([j.current EXCEPT !.state = "ACTIVE"], "activate")
  /\ UNCHANGED <<durable, history>>

ActivateDone ==
  /\ Verified("activate")
  /\ j' = Published /\ d' = Granted(d, op.cand)
  /\ op' = [pc |-> "advance"]
  /\ UNCHANGED <<vol, kept>>

(* rcfg_advance(PROVISIONING, ACTIVE).                                     *)
Advance ==
  /\ op.pc = "advance"
  /\ phase' = "ACTIVE" /\ vol' = "WRITABLE" /\ op' = Idle
  /\ UNCHANGED <<latched, banks, map, j, d, history>>

(* ocj_history_sync: the volatile page history becomes the candidate's.    *)
Synced ==
  [j.current EXCEPT !.blocks = j.working,
                    !.open = {b \in @ : j.working[b].consumed < PagesPerBlock}]

(* What a sync that returns OK vouches for: every page Dhara was told is   *)
(* written, with the lease that wrote it.                                  *)
Written ==
  {x \in MapBlocks \X Pages \X (1..MaxLease) :
     x[2] \in j.working[x[1]].valid /\ x[3] = LeaseOf(x[1], x[2])}

(* rv_suspend, rv_reopen and rv_close.                                     *)
Suspend ==
  /\ vol \in {"READ_ONLY", "WRITABLE"} /\ op = Idle
  /\ IF d.writable
     THEN Publish(Synced, "suspend")
     ELSE /\ d' = [d EXCEPT !.ready = FALSE] /\ vol' = "SUSPENDED"
          /\ UNCHANGED <<j, op>>
  /\ UNCHANGED <<durable, history>>

SuspendDone ==
  /\ Verified("suspend")
  /\ j' = Published /\ op' = Idle
  /\ d' = [d EXCEPT !.writable = FALSE, !.ready = FALSE]
  /\ vol' = "SUSPENDED"
  /\ kept' = Written

Reopen ==
  /\ vol = "SUSPENDED" /\ op = Idle
  /\ vol' = "READ_ONLY" /\ d' = [d EXCEPT !.ready = TRUE]
  /\ UNCHANGED <<durable, j, op, history>>

Close ==
  /\ vol \in {"READ_ONLY", "WRITABLE"} /\ op = Idle
  /\ vol' = "CLOSED" /\ d' = [d EXCEPT !.writable = FALSE]
  /\ UNCHANGED <<durable, j, op, history>>

-----------------------------------------------------------------------------
(* The NAND operations Dhara makes through the adapter.                    *)

MayMutate == /\ op = Idle /\ d.writable /\ j.inflight = NoLease
             /\ vol \in {"PROVISIONING", "WRITABLE"}
             /\ Good(d.retired) >= MinGood

(* owned_dhara_sync: Dhara's own sync, then ocj_history_sync.              *)
Sync ==
  /\ MayMutate /\ d.ready
  /\ Publish(Synced, "sync")
  /\ UNCHANGED <<durable, history>>

SyncDone ==
  /\ Verified("sync")
  /\ j' = Published /\ op' = Idle
  /\ kept' = Written
  /\ UNCHANGED <<vol, d>>

(* dhara_nand_erase.  Formatting erases the blocks in order; afterwards    *)
(* Dhara recycles a block only when its last checkpoint is elsewhere.      *)
Recyclable(b) ==
  IF d.format # {} THEN b = Min(d.format)
  ELSE d.ready /\ b \notin d.retired /\ \E x \in kept : x[1] # b

(* ocj_acquire of an erase: the whole lease range is published first.      *)
Reserved(b) ==
  [j.current EXCEPT !.high_water = @ + 1 + PagesPerBlock,
                    !.pending = b,
                    !.quarantine = @ \cup {b}, !.open = @ \ {b},
                    !.blocks[b] = [NoRange EXCEPT
                                     !.base = j.current.high_water + 1,
                                     !.seq = j.current.epoch + 1]]

AcquireErase(b) ==
  /\ MayMutate /\ Recyclable(b)
  /\ IF j.current.high_water > MaxLease - (PagesPerBlock + 1)
     THEN Fenced ELSE Publish(Reserved(b), "acquire")
  /\ kept' = {x \in kept : x[1] # b}
  /\ UNCHANGED <<durable, boots, used, acked>>

Lease(kind, root, b, p) ==
  [kind |-> kind, slot |-> b, page |-> p, base |-> root.blocks[b].base,
   sequence |-> root.epoch,
   id |-> root.blocks[b].base + IF kind = "program" THEN 1 + p ELSE 0]

AcquireEraseDone ==
  /\ Verified("acquire")
  /\ LET b == op.cand.pending IN
       j' = [Published EXCEPT !.working[b] = op.cand.blocks[b],
                              !.fresh = @ \ {b},
                              !.inflight = Lease("erase", op.cand, b, 0)]
  /\ op' = [pc |-> "lease"]
  /\ UNCHANGED <<vol, d, kept>>

(* dhara_nand_prog: only an unused page, and the lease is consumed before  *)
(* the program starts.                                                     *)
AcquireProgram(b, p) ==
  /\ MayMutate /\ d.ready
  /\ PageInfo(b, p) = "unused"
  /\ j' = [j EXCEPT !.working[b].consumed = p + 1,
                    !.inflight = [Lease("program", j.current, b, p) EXCEPT
                                    !.base = j.working[b].base,
                                    !.id = LeaseOf(b, p)]]
  /\ op' = [pc |-> "lease"]
  /\ UNCHANGED <<durable, vol, d, history>>

(* The adapter's own checks on the lease it was given (acquire).           *)
LeaseAccepted ==
  LET l == j.inflight IN
    /\ l.slot \notin d.retired
    /\ l.base # 0 /\ l.sequence >= d.sequence
    /\ IF l.kind = "erase"
       THEN /\ l.base = l.id /\ l.base > d.high_water
            /\ l.sequence > d.sequence
       ELSE /\ l.base = d.base[l.slot] /\ l.id = l.base + 1 + l.page
            /\ l.page \notin d.consumed[l.slot]

AdapterAcquire ==
  /\ op.pc = "lease"
  /\ IF LeaseAccepted
     THEN /\ d' = [d EXCEPT
                     !.sequence = j.inflight.sequence,
                     !.high_water = Max({@, j.inflight.base + PagesPerBlock}),
                     !.consumed[j.inflight.slot] =
                        IF j.inflight.kind = "program"
                        THEN @ \cup {j.inflight.page} ELSE @]
          /\ op' = [pc |-> "mutate"] /\ UNCHANGED <<vol, j>>
     ELSE Fenced
  /\ UNCHANGED <<durable, history>>

(* The physical operation succeeds and is read back; a data page carries   *)
(* the lease it was written under.                                         *)
Mutated(l) ==
  IF l.kind = "erase"
  THEN [map EXCEPT ![l.slot] = [p \in Pages |-> Blank]]
  ELSE [map EXCEPT ![l.slot][l.page] = l.id]

Mutate ==
  /\ op.pc = "mutate"
  /\ map' = Mutated(j.inflight)
  /\ used' = used \cup {j.inflight.id}
  /\ op' = [pc |-> "resolve"]
  /\ UNCHANGED <<phase, latched, banks, vol, j, d, boots, acked, kept>>

(* It is cut short, or fails: pages of the block, or the page, may hold    *)
(* anything, however they read.  A reported media failure retires the block at once; anything *)
(* else fences the volume.                                                 *)
MutateFails ==
  /\ op.pc = "mutate"
  /\ LET l == j.inflight IN
       \/ /\ l.kind = "erase"
          /\ \E torn \in SUBSET Pages :
               map' = [map EXCEPT ![l.slot] =
                         [p \in Pages |-> IF p \in torn THEN Garbage ELSE @[p]]]
       \/ /\ l.kind = "program"
          /\ \E left \in {Garbage, l.id} :
               map' = [map EXCEPT ![l.slot][l.page] = left]
  /\ used' = used \cup {j.inflight.id}
  /\ \/ op' = [pc |-> "retire"] /\ UNCHANGED <<vol, j, d>>
     \/ Fenced
  /\ UNCHANGED <<phase, latched, banks, boots, acked, kept>>

(* mutation_result and ocj_resolve: an erase is published, a program only  *)
(* remembered until the next sync.                                         *)
ResolveErase ==
  /\ op.pc = "resolve" /\ j.inflight.kind = "erase"
  /\ Publish([j.current EXCEPT !.pending = NoBlock,
                !.blocks[j.inflight.slot].consumed = 0,
                !.quarantine = @ \ {j.inflight.slot},
                !.open = @ \cup {j.inflight.slot}], "resolve")
  /\ UNCHANGED <<durable, history>>

(* owned_dhara_format ends when its last block has been erased or retired. *)
Formatted(b) ==
  [d EXCEPT !.format = @ \ {b}, !.ready = @ \/ d.format = {b}]

ResolveEraseDone ==
  /\ Verified("resolve")
  /\ LET b == j.inflight.slot IN
       /\ j' = [Published EXCEPT !.working[b] = op.cand.blocks[b],
                                 !.fresh = @ \cup {b}, !.inflight = NoLease]
       /\ d' = [Formatted(b) EXCEPT !.base[b] = j.inflight.base,
                                    !.consumed[b] = {}]
  /\ op' = Idle
  /\ UNCHANGED <<vol, kept>>

ResolveProgram ==
  /\ op.pc = "resolve" /\ j.inflight.kind = "program"
  /\ j' = [j EXCEPT !.working[j.inflight.slot].valid = @ \cup {j.inflight.page},
                    !.inflight = NoLease]
  /\ op' = Idle
  /\ UNCHANGED <<durable, vol, d, history>>

(* dhara_nand_mark_bad and ocj_retire: the failed block is excluded before *)
(* Dhara hears of the failure.                                             *)
Retire ==
  /\ op.pc = "retire"
  /\ LET b == j.inflight.slot IN
       Publish([j.current EXCEPT !.retired = @ \cup {b},
                  !.quarantine = @ \cup {b}, !.open = @ \ {b},
                  !.pending = NoBlock,
                  !.blocks[b].consumed = j.working[b].consumed], "retire")
  /\ UNCHANGED <<durable, history>>

RetireDone ==
  /\ Verified("retire")
  /\ LET b == j.inflight.slot IN
       IF Good(op.cand.retired) < MinGood
       THEN Fenced
       ELSE /\ j' = [Published EXCEPT !.fresh = @ \ {b},
                                      !.inflight = NoLease]
            /\ d' = [Formatted(b) EXCEPT !.retired = @ \cup {b}]
            /\ op' = Idle /\ UNCHANGED vol
  /\ UNCHANGED kept

-----------------------------------------------------------------------------
Lifecycle ==
  \/ Provision \/ ProvisionDone \/ Mount
  \/ RecoveryPrepare \/ RecoveryCommit \/ RecoveryDone
  \/ Grant \/ GrantDone \/ Activate \/ ActivateDone \/ Advance
  \/ Suspend \/ SuspendDone \/ Reopen \/ Close

Journal ==
  \/ Encode \/ EraseBank \/ EraseBankFails \/ ProgramBank \/ ProgramBankFails

Nand ==
  \/ Sync \/ SyncDone
  \/ \E b \in MapBlocks : AcquireErase(b)
  \/ AcquireEraseDone
  \/ \E b \in MapBlocks, p \in Pages : AcquireProgram(b, p)
  \/ AdapterAcquire \/ Mutate \/ MutateFails
  \/ ResolveErase \/ ResolveEraseDone \/ ResolveProgram
  \/ Retire \/ RetireDone

Next == Lifecycle \/ Journal \/ Nand \/ Fence \/ Reset

Spec == Init /\ [][Next]_vars

-----------------------------------------------------------------------------
(* Properties.                                                             *)
Leases == 1..MaxLease
Snapshot(s) ==
  /\ IsSnapshot(s) /\ s.bank \in Banks /\ s.slot \in BankSlot
  /\ s.epoch \in 1..MaxEpoch /\ s.high_water \in 0..MaxLease
  /\ s.state \in {"PROVISIONING", "ACTIVE"}
  /\ s.pending \in MapBlocks \cup {NoBlock}
  /\ \A b \in MapBlocks : s.blocks[b].valid \subseteq Pages

(* Every durable and volatile part keeps its type.                         *)
TypeOK ==
  /\ phase \in {"PREPARED", "PROVISIONING", "ACTIVE"} /\ latched \in BOOLEAN
  /\ \A k \in Banks, i \in BankSlot :
       banks[k][i] \in {Erased, Torn} \/ Snapshot(banks[k][i])
  /\ map \in [MapBlocks -> [Pages -> {Blank, Garbage} \cup Leases]]
  /\ vol \in {"PREPARED", "CONFIGURED", "RECOVERY_PREPARED", "PROVISIONING",
              "READ_ONLY", "WRITABLE", "SUSPENDED", "CLOSED", "FENCED"}
  /\ j.booted => Snapshot(j.current)
  /\ j.fresh \subseteq MapBlocks /\ d.retired \subseteq MapBlocks
  /\ used \subseteq Leases

(* Whatever is interrupted, in whatever order, a boot finds the newest     *)
(* snapshot any call was told is published, or the one being published.    *)
RootNeverLost ==
  acked # NoRoot =>
    LET root == Boot(banks) IN
      /\ IsSnapshot(root)
      /\ root.epoch \in {acked.epoch, acked.epoch + 1}
      /\ root.epoch = acked.epoch => root = acked

(* A snapshot is only ever programmed into a page that this boot erased    *)
(* and has not programmed since: a tail that merely reads blank after a    *)
(* reset, or after a failed attempt, is never appended to.                 *)
TailErased ==
  op.pc = "program" => banks[op.cand.bank][op.cand.slot] = Erased

(* page_info is honest: a page it calls committed holds exactly its lease, *)
(* a page it calls unused is blank, so no page is programmed twice.        *)
PageInfoHonest ==
  j.booted => \A b \in MapBlocks, p \in Pages :
    /\ PageInfo(b, p) = "committed" => map[b][p] = LeaseOf(b, p)
    /\ PageInfo(b, p) = "unused" => map[b][p] = Blank

(* Pages that a sync reported durable are found, by the lease that wrote   *)
(* them, by every later boot until Dhara recycles their block.             *)
SyncedSurvive ==
  kept # {} =>
    LET root == Boot(banks) IN
      /\ IsSnapshot(root)
      /\ \A x \in kept : /\ x[2] \in root.blocks[x[1]].valid
                          /\ x[3] = root.blocks[x[1]].base + 1 + x[2]
                          /\ map[x[1]][x[2]] = x[3]

(* No lease is used for two physical operations, also across resets, and   *)
(* no operation touches a retired block.                                   *)
LeaseFresh ==
  op.pc = "mutate" => /\ j.inflight.id \notin used
                      /\ j.inflight.slot \notin j.current.retired

(* The journal's own checks never refuse a snapshot it built, and the      *)
(* adapter's never refuse a lease the journal issued: OCJ_CONFLICT on      *)
(* publish and OD_FAULT_LEASE are unreachable.                             *)
LayersAgree ==
  /\ op.pc = "encode" => Syntax(op.cand) /\ Transition(j.current, op.cand)
  /\ op.pc = "lease" => LeaseAccepted

(* An active volume can be mounted after any interruption, as long as its  *)
(* flash has blocks enough: rv_mount finds an active root and a checkpoint.*)
ActiveMountable ==
  phase = "ACTIVE" =>
    LET root == Boot(banks) IN
      /\ IsSnapshot(root) /\ root.state = "ACTIVE"
      /\ Good(root.retired) >= MinGood =>
          \E b \in MapBlocks : root.blocks[b].valid # {}

(* What a call was told is durable is found by every boot after it, and    *)
(* the volume can be mounted from it, whatever write a reset cuts short    *)
(* (ocj_boot, rv_mount).                                                   *)
DurableAcrossResets == RootNeverLost /\ SyncedSurvive /\ ActiveMountable

(* The journal, the adapter and the media have one view of every page:     *)
(* none is programmed over, misread as blank or refused by the other layer *)
(* (page_info, publish, od_lease).                                         *)
LayersHonest == TypeOK /\ TailErased /\ PageInfoHonest /\ LayersAgree

(* A block once retired stays retired for every later boot, and the lease  *)
(* high water never falls.                                                 *)
RetirementIsFinal ==
  [][acked # NoRoot /\ acked' # acked =>
       /\ acked'.epoch > acked.epoch
       /\ acked.retired \subseteq acked'.retired
       /\ acked'.high_water >= acked.high_water]_vars
===============================================================================
