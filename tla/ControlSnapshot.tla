---------------------------- MODULE ControlSnapshot ----------------------------
(***************************************************************************)
(* The snapshots of the owned control journal (owned_control_journal.c)    *)
(* and the pure checks made on them: what a well-formed snapshot is, which *)
(* snapshot may follow which, and which one a boot selects from the two    *)
(* banks.  A page of a bank is Erased, Torn (no valid seal, however it     *)
(* reads) or a snapshot.                                                   *)
(* The digest of a snapshot is its identity: the epoch and the boot that   *)
(* programmed it.                                                          *)
(***************************************************************************)
EXTENDS Integers, FiniteSets, FiniteSetsExt

CONSTANTS
  MapBlocks,      \* map blocks of the volume, 0..31 in the code
  PagesPerBlock,  \* 64
  BankSlots,      \* pages of a control bank, 64
  MaxEpoch,       \* INT64_MAX
  MaxLease        \* UINT64_MAX

ASSUME GeometryAssumption == /\ PagesPerBlock \in Nat \ {0}
                             /\ BankSlots \in Nat \ {0}
                             /\ MapBlocks # {} /\ IsFiniteSet(MapBlocks)
                             /\ MapBlocks \subseteq Nat
ASSUME LimitAssumption == MaxEpoch \in Nat \ {0} /\ MaxLease \in Nat

Banks == {0, 1}
BankSlot == 0..(BankSlots - 1)
Pages == 0..(PagesPerBlock - 1)
Erased == [kind |-> "erased"]
Torn == [kind |-> "torn"]
NoBlock == -1
NoDigest == <<0, 0>>

(* An unused block: every page consumed, no lease range.                   *)
NoRange == [base |-> 0, valid |-> {}, seq |-> 0, consumed |-> PagesPerBlock]

IsSnapshot(page) == page.kind = "snapshot"

-----------------------------------------------------------------------------
(* syntax: one block entry, then the whole snapshot.                       *)
BlockSyntax(s, b) ==
  LET x == s.blocks[b] IN
    /\ x.consumed <= PagesPerBlock
    /\ x.base = 0 => x = NoRange
    /\ x.base # 0 => /\ x.base <= MaxLease - PagesPerBlock
                     /\ x.base + PagesPerBlock <= s.high_water
                     /\ x.seq \in 1..s.epoch
    /\ \A p \in x.valid : p < x.consumed
    /\ b \in s.open => x.base # 0 /\ x.consumed < PagesPerBlock
    /\ \A c \in MapBlocks \ {b} : x.base # 0 /\ s.blocks[c].base # 0 =>
         \/ x.base > s.blocks[c].base + PagesPerBlock
         \/ s.blocks[c].base > x.base + PagesPerBlock

Syntax(s) ==
  /\ s.epoch \in 1..MaxEpoch
  /\ s.bank \in Banks /\ s.slot \in BankSlot
  /\ s.epoch = 1 => /\ s.bank = 0 /\ s.slot = 0 /\ s.high_water = 0
                    /\ s.state = "PROVISIONING" /\ s.pending = NoBlock
                    /\ s.retired = {} /\ s.quarantine = {} /\ s.open = {}
  /\ (s.epoch = 1) <=> (s.previous = NoDigest)
  /\ s.retired \subseteq s.quarantine
  /\ s.open \cap s.quarantine = {}
  /\ s.pending # NoBlock => /\ s.pending \in s.quarantine \ s.retired
                            /\ s.blocks[s.pending].valid = {}
                            /\ s.blocks[s.pending].consumed = PagesPerBlock
  /\ \A b \in MapBlocks : BlockSyntax(s, b)

(* transition: whether snapshot t may directly follow snapshot s.          *)
BlockTransition(s, t, b) ==
  LET x == s.blocks[b]
      y == t.blocks[b]
      resolved == s.pending = b /\ t.pending = NoBlock
  IN /\ \/ /\ y.base # x.base
           /\ t.pending = b
           /\ s.high_water <= MaxLease - (PagesPerBlock + 1)
           /\ y.base = s.high_water + 1 /\ y.valid = {} /\ y.seq = t.epoch
           /\ t.high_water = y.base + PagesPerBlock
        \/ /\ y.base = x.base
           /\ x.valid \subseteq y.valid
           /\ y.seq = x.seq
           /\ y.consumed >= x.consumed \/ resolved
     /\ \/ b \in s.quarantine \ t.quarantine
        \/ b \in t.open \ s.open
        => /\ resolved
           /\ y.consumed = 0 /\ y.valid = {}
           /\ b \in t.open /\ b \notin t.quarantine

Transition(s, t) ==
  /\ t.epoch = s.epoch + 1
  /\ t.previous = s.digest
  /\ IF t.bank = s.bank THEN t.slot = s.slot + 1 ELSE t.slot = 0
  /\ s.retired \subseteq t.retired
  /\ t.high_water >= s.high_water
  /\ ~(s.state = "ACTIVE" /\ t.state = "PROVISIONING")
  /\ ~(s.pending # NoBlock /\ t.pending # NoBlock)
  /\ \A b \in MapBlocks : BlockTransition(s, t, b)
  /\ LET changed == {b \in MapBlocks : t.blocks[b].base # s.blocks[b].base}
     IN /\ Cardinality(changed) <= 1
        /\ changed = {} => t.high_water = s.high_water /\ t.pending = NoBlock

-----------------------------------------------------------------------------
(* ocj_boot: the scan of one bank, and the choice of the root.             *)
Sealed(bank) == {i \in BankSlot : IsSnapshot(bank[i])}
First(bank) == bank[Min(Sealed(bank))]
Last(bank) == bank[Max(Sealed(bank))]
Epoch(bank) == IF Sealed(bank) = {} THEN 0 ELSE Last(bank).epoch
Highest(bank) == Max({bank[i].epoch : i \in Sealed(bank)} \cup {0})

Broken(bank) ==
  \E i \in Sealed(bank) :
    \/ \E k \in BankSlot : k < i /\ k \notin Sealed(bank)
    \/ i - 1 \in Sealed(bank) /\ ~Transition(bank[i - 1], bank[i])

NoRoot == [kind |-> "no_root"]
Conflict == [kind |-> "conflict"]

(* Mutated: the first sealed snapshot of the bank is taken, not the last.  *)
BootFirst(banks) ==
  LET selected == IF Epoch(banks[1]) > Epoch(banks[0]) THEN 1 ELSE 0
  IN IF Sealed(banks[selected]) = {} THEN NoRoot ELSE First(banks[selected])

Boot(banks) ==
  LET selected == IF Epoch(banks[1]) > Epoch(banks[0]) THEN 1 ELSE 0
      root == banks[selected]
      other == banks[1 - selected]
  IN IF Sealed(root) = {} THEN NoRoot
     ELSE IF \/ Broken(root)
             \/ First(root).slot # 0
             \/ Highest(other) # 0 /\ Highest(other) >= First(root).epoch
             \/ /\ Epoch(other) # 0
                /\ Epoch(other) + 1 = First(root).epoch
                /\ ~Transition(Last(other), First(root))
          THEN Conflict
          ELSE Last(root)
===============================================================================
