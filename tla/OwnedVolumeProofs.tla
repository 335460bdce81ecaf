-------------------------- MODULE OwnedVolumeProofs --------------------------
(***************************************************************************)
(* Proofs about the owned volume, for any geometry, any number of resets   *)
(* and any limit of the epochs and leases: what was acknowledged survives  *)
(* every reset, the layers agree, no page is programmed twice under one    *)
(* lease, and a retired block stays retired.                               *)
(*                                                                         *)
(* None of these is inductive.  A reset reads the root anew from banks     *)
(* that an interrupted publish may have left half written, so the          *)
(* invariant says how all slots of both banks hang together (RootIs); and  *)
(* the journal and the adapter decide by their RAM, so it says how that    *)
(* RAM, the lease in flight and the snapshot being published follow the    *)
(* root (LiveInv, PublishInv).                                             *)
(***************************************************************************)
EXTENDS OwnedVolume, FiniteSetTheorems, WellFoundedInduction, TLAPS

-----------------------------------------------------------------------------
(* The invariant.                                                          *)

Ranges == [base : Nat, valid : SUBSET Pages, seq : Nat,
           consumed : 0..PagesPerBlock]
Snapshots ==
  [kind : {"snapshot"}, epoch : 1..MaxEpoch, digest : (Nat \ {0}) \X Nat,
   previous : Nat \X Nat, state : {"PROVISIONING", "ACTIVE"}, bank : Banks,
   slot : BankSlot, high_water : 0..MaxLease, retired : SUBSET MapBlocks,
   quarantine : SUBSET MapBlocks, open : SUBSET MapBlocks,
   pending : MapBlocks \cup {NoBlock}, blocks : [MapBlocks -> Ranges]]
LeaseRecords == [kind : {"erase", "program"}, slot : MapBlocks, page : Pages,
                 base : Nat, sequence : Nat, id : Nat]
Journals ==
  [booted : BOOLEAN, reconciled : BOOLEAN, tail_fresh : BOOLEAN,
   next_slot : Nat, fresh : SUBSET MapBlocks,
   inflight : {NoLease} \cup LeaseRecords, current : {NoRoot} \cup Snapshots,
   working : [MapBlocks -> Ranges]]
Adapters ==
  [ready : BOOLEAN, writable : BOOLEAN, sequence : Nat, high_water : Nat,
   retired : SUBSET MapBlocks, format : SUBSET MapBlocks,
   base : [MapBlocks -> Nat], consumed : [MapBlocks -> SUBSET Pages]]
Thens == {"provision", "recover", "reconcile", "activate", "suspend", "sync",
          "acquire", "resolve", "retire"}
Calls ==
  [pc : {"idle", "advance", "lease", "mutate", "resolve", "retire"}]
  \cup [pc : {"encode", "program", "verify"}, cand : Snapshots, then : Thens]
  \cup [pc : {"erase"}, todo : {<<0>>, <<1>>, <<1, 0>>}, cand : Snapshots,
        then : Thens]

(* Every variable has its type.                                            *)
TypeInv ==
  /\ phase \in {"PREPARED", "PROVISIONING", "ACTIVE"} /\ latched \in BOOLEAN
  /\ banks \in [Banks -> [BankSlot -> {Erased, Torn} \cup Snapshots]]
  /\ map \in [MapBlocks -> [Pages -> {Blank, Garbage} \cup Leases]]
  /\ vol \in {"PREPARED", "CONFIGURED", "RECOVERY_PREPARED", "PROVISIONING",
              "READ_ONLY", "WRITABLE", "SUSPENDED", "CLOSED", "FENCED"}
  /\ j \in Journals /\ d \in Adapters /\ op \in Calls
  /\ boots \in Nat /\ used \subseteq Leases
  /\ acked \in {NoRoot} \cup Snapshots
  /\ kept \subseteq MapBlocks \X Pages \X Leases

(* The chain of snapshots that ends in r is what the banks B hold: a run   *)
(* of slots of r's bank, and older snapshots in the other bank.            *)
Start(r) == r.epoch - r.slot
RootIs(B, r) ==
  /\ r \in Snapshots /\ B[r.bank][r.slot] = r
  /\ \A i \in BankSlot : i > r.slot => ~IsSnapshot(B[r.bank][i])
  /\ \A i \in BankSlot : i <= r.slot =>
       /\ B[r.bank][i] \in Snapshots
       /\ B[r.bank][i].slot = i /\ B[r.bank][i].epoch = Start(r) + i
       /\ i > 0 => Transition(B[r.bank][i - 1], B[r.bank][i])
  /\ \A i \in BankSlot : IsSnapshot(B[1 - r.bank][i]) =>
       /\ B[1 - r.bank][i].epoch < Start(r)
       /\ B[1 - r.bank][i].epoch + 1 = Start(r) =>
            Transition(B[1 - r.bank][i], B[r.bank][0])
NothingSealed(B) == \A k \in Banks, i \in BankSlot : ~IsSnapshot(B[k][i])

(* The valid pages of s hold their leases, and what was kept is in s.      *)
Holds(m, s) ==
  \A b \in MapBlocks : \A p \in s.blocks[b].valid :
    m[b][p] = s.blocks[b].base + 1 + p
Keeps(K, s) ==
  \A x \in K : /\ x[2] \in s.blocks[x[1]].valid
               /\ x[3] = s.blocks[x[1]].base + 1 + x[2]

(* What flash and the history of the calls have in common, at any time.    *)
Follows(r) == acked = NoRoot \/ acked = r \/ Transition(acked, r)
Sound(r) ==
  /\ RootIs(banks, r) /\ Syntax(r) /\ Follows(r)
  /\ Holds(map, r) /\ Keeps(kept, r)
  /\ \A u \in used : u <= r.high_water
DurableInv ==
  /\ \/ /\ NothingSealed(banks) /\ acked = NoRoot
        /\ kept = {} /\ used = {} /\ phase # "ACTIVE"
     \/ Sound(Boot(banks)) /\ phase # "PREPARED"
  /\ phase = "ACTIVE" => Boot(banks).state = "ACTIVE" /\ kept # {}

(* The modes: at rest, provisioning, or with a journal in RAM.             *)
Publishing == op.pc \in {"encode", "erase", "program", "verify"}
ProvisionInv ==
  /\ op.then = "provision" /\ op.pc # "encode" /\ op.cand = Genesis
  /\ vol = "PROVISIONING" /\ acked = NoRoot /\ kept = {} /\ used = {}
  /\ op.pc # "verify" => NothingSealed(banks)
  /\ op.pc = "erase" => op.todo \in {<<0>>, <<1, 0>>}
  /\ op.pc = "erase" /\ op.todo = <<0>> =>
       \A i \in BankSlot : banks[1][i] = Erased
  /\ op.pc = "program" => \A k \in Banks, i \in BankSlot : banks[k][i] = Erased
  /\ op.pc = "verify" => /\ Boot(banks) = op.cand
                         /\ \A i \in BankSlot : i > 0 => banks[0][i] = Erased
ModeInv ==
  /\ ~j.booted => /\ j = NoJournal /\ d = NoAdapter
                  /\ op = Idle \/ (Publishing /\ ProvisionInv)
  /\ j.booted <=> /\ vol \in {"PROVISIONING", "READ_ONLY", "WRITABLE",
                              "SUSPENDED", "CLOSED"}
                  /\ ~(Publishing /\ op.then = "provision")
  /\ vol = "PREPARED" => phase = "PREPARED"
  /\ vol \in {"PROVISIONING", "RECOVERY_PREPARED"} => phase = "PROVISIONING"

(* The journal in RAM is the root, and its tail is erased when it says so. *)
RootInv ==
  /\ j.current \in Snapshots /\ acked = j.current /\ Syntax(j.current)
  /\ op.pc # "verify" => Boot(banks) = j.current
  /\ \A u \in used : u <= j.current.high_water
  /\ j.tail_fresh => /\ j.next_slot = j.current.slot + 1
                     /\ \A i \in BankSlot : i >= j.next_slot =>
                          banks[j.current.bank][i] = Erased

(* The page history in RAM extends the one of the root, and the media      *)
(* agree with it.                                                          *)
Extends(x, y) ==
  /\ y.base = x.base /\ y.seq = x.seq /\ x.valid \subseteq y.valid
  /\ x.consumed <= y.consumed /\ \A p \in y.valid : p < y.consumed
  /\ y.base = 0 => y = NoRange
FreshInv(b) ==
  /\ d.base[b] = j.working[b].base /\ b \notin j.current.retired
  /\ \A p \in d.consumed[b] : p < j.working[b].consumed
  /\ \A p \in Pages : p >= j.working[b].consumed =>
       map[b][p] = Blank /\ j.working[b].base + 1 + p \notin used
HistoryInv ==
  /\ \A b \in MapBlocks : Extends(j.current.blocks[b], j.working[b])
  /\ \A b \in MapBlocks : \A p \in j.working[b].valid :
       map[b][p] = j.working[b].base + 1 + p
  /\ \A b \in j.fresh : FreshInv(b)

(* The lease in flight.                                                    *)
Holding == \/ op.pc \in {"lease", "mutate", "resolve", "retire"}
           \/ Publishing /\ op.then \in {"resolve", "retire"}
EraseInv(l) ==
  /\ l.id = l.base /\ l.slot \notin j.fresh
  /\ j.working[l.slot].valid = {} /\ \A x \in kept : x[1] # l.slot
  /\ op.pc = "lease" => l.base > d.high_water /\ l.sequence > d.sequence
  /\ op.pc \in {"lease", "mutate"} => \A u \in used : u < l.base
  /\ op.pc = "resolve" \/ (Publishing /\ op.then = "resolve") =>
       /\ \A u \in used : u <= l.base
       /\ \A p \in Pages : map[l.slot][p] = Blank
ProgramInv(l) ==
  /\ l.id = l.base + 1 + l.page /\ l.slot \in j.fresh
  /\ j.working[l.slot].consumed = l.page + 1
  /\ l.page \notin j.working[l.slot].valid
  /\ op.pc = "lease" => l.page \notin d.consumed[l.slot]
  /\ op.pc \in {"lease", "mutate"} => l.id \notin used
  /\ op.pc = "resolve" => map[l.slot][l.page] = l.id
LeaseInv ==
  /\ ~Holding => j.inflight = NoLease
  /\ Holding =>
       LET l == j.inflight IN
         /\ l \in LeaseRecords /\ j.reconciled /\ d.writable
         /\ l.slot \notin j.current.retired
         /\ l.base # 0 /\ l.base = j.working[l.slot].base
         /\ l.sequence = j.current.epoch
         /\ l.kind = "erase" => EraseInv(l)
         /\ l.kind = "program" => ProgramInv(l)
         /\ Publishing /\ op.then = "resolve" => l.kind = "erase"

(* The adapter's RAM.                                                      *)
AdapterInv ==
  /\ d.retired = j.current.retired
  /\ d.sequence <= j.current.epoch /\ d.high_water <= j.current.high_water
  /\ d.format \cap d.retired = {}
  /\ d.format # {} => vol = "PROVISIONING" /\ ~d.ready
  /\ d.writable => j.reconciled /\ vol \in {"PROVISIONING", "WRITABLE"}
  /\ vol = "PROVISIONING" /\ d.ready => d.writable
  /\ ~j.reconciled => j.fresh = {}
  /\ j.reconciled => j.current.pending = IF j.inflight.kind = "erase"
                                         THEN j.inflight.slot ELSE NoBlock
  /\ op.pc = "advance" => /\ d.ready /\ j.current.state = "ACTIVE"
                          /\ vol = "PROVISIONING" /\ j.reconciled

(* The publish in progress.                                                *)
Resolved(b) == [j.current EXCEPT !.pending = NoBlock,
                  !.blocks[b].consumed = 0,
                  !.quarantine = @ \ {b}, !.open = @ \cup {b}]
Excluded(b) == [j.current EXCEPT !.retired = @ \cup {b},
                  !.quarantine = @ \cup {b}, !.open = @ \ {b},
                  !.pending = NoBlock,
                  !.blocks[b].consumed = j.working[b].consumed]
Body(s) == <<s.state, s.high_water, s.retired, s.quarantine, s.open,
             s.pending, s.blocks>>
IntentInv(c) ==
  /\ op.then \in {"recover", "reconcile"} =>
       ~j.reconciled /\ Body(c) = Body(Reconciled(j.current))
  /\ op.then \notin {"recover", "reconcile"} => j.reconciled /\ d.writable
  /\ op.then = "recover" => vol = "PROVISIONING"
  /\ op.then = "reconcile" => vol = "READ_ONLY"
  /\ op.then = "activate" =>
       /\ vol = "PROVISIONING" /\ d.ready
       /\ Body(c) = Body([j.current EXCEPT !.state = "ACTIVE"])
  /\ op.then = "suspend" => vol = "WRITABLE"
  /\ op.then \in {"suspend", "sync"} => Body(c) = Body(Synced)
  /\ op.then = "acquire" =>
       /\ c.pending \in MapBlocks \ j.current.retired
       /\ Body(c) = Body(Reserved(c.pending))
       /\ c.epoch = j.current.epoch + 1
       /\ \A x \in kept : x[1] # c.pending
  /\ op.then = "resolve" => Body(c) = Body(Resolved(j.inflight.slot))
  /\ op.then = "retire" => Body(c) = Body(Excluded(j.inflight.slot))
PublishInv ==
  LET c == op.cand IN
    /\ Syntax(c) /\ Transition(j.current, c) /\ Holds(map, c)
    /\ Keeps(kept, c) /\ IntentInv(c)
    /\ c.bank = j.current.bank /\ op.pc \in {"encode", "program"} =>
         j.tail_fresh /\ c.slot = j.next_slot
    /\ op.pc = "erase" => op.todo = <<c.bank>> /\ c.bank # j.current.bank
    /\ op.pc = "program" => \A i \in BankSlot : i >= c.slot =>
                              banks[c.bank][i] = Erased
    /\ op.pc = "verify" => /\ Boot(banks) = c
                           /\ \A i \in BankSlot : i > c.slot =>
                                banks[c.bank][i] = Erased

LiveInv == RootInv /\ HistoryInv /\ LeaseInv /\ AdapterInv
OwnedInv ==
  /\ TypeInv /\ DurableInv /\ ModeInv
  /\ j.booted => LiveInv /\ (Publishing => PublishInv)
  /\ (Publishing /\ op.then = "activate") \/ op.pc = "advance" => kept # {}

-----------------------------------------------------------------------------
(* Numbers.                                                                *)

(* A set of numbers has a least element.                                   *)
LEMMA LeastOf ==
  ASSUME NEW S, S \subseteq Nat, S # {}
  PROVE  \E n \in S : \A m \in S : n <= m
<1>1. PICK n \in S : \A m \in S : ~ (<<m, n>> \in OpToRel(<, Nat))
  BY WFMin, NatLessThanWellFounded
<1>2. \A m \in S : ~ (m < n)
  BY <1>1 DEF OpToRel
<1> QED
  BY <1>2

(* A bounded set of numbers has a maximum.                                 *)
LEMMA MaxOf ==
  ASSUME NEW S, S \subseteq Nat, S # {}, NEW b \in Nat, \A x \in S : x <= b
  PROVE  Max(S) \in S /\ \A y \in S : Max(S) >= y
<1> DEFINE U == {n \in Nat : \A x \in S : x <= n}
<1>1. PICK n \in U : \A m \in U : n <= m
  BY LeastOf
<1>2. n \in S
  <2> SUFFICES ASSUME n \notin S PROVE FALSE
    OBVIOUS
  <2>0. PICK x \in S : TRUE
    OBVIOUS
  <2>1. n \in Nat /\ x \in Nat /\ x <= n /\ x # n
    BY <2>0
  <2>2. n - 1 \in U
    BY <2>1
  <2> QED
    BY <1>1, <2>1, <2>2
<1>3. \A y \in S : n >= y
  BY <1>1
<1> QED
  BY <1>2, <1>3 DEF Max

-----------------------------------------------------------------------------
(* What a boot finds in the banks.                                         *)

BankPairs == [Banks -> [BankSlot -> {Erased, Torn} \cup Snapshots]]

(* A page is a snapshot or has no seal.                                    *)
LEMMA PageKinds ==
  ASSUME NEW B \in BankPairs, NEW k \in Banks, NEW i \in BankSlot
  PROVE  /\ ~IsSnapshot(Erased) /\ ~IsSnapshot(Torn)
         /\ IsSnapshot(B[k][i]) <=> B[k][i] \in Snapshots
         /\ ~IsSnapshot(B[k][i]) <=> B[k][i] \in {Erased, Torn}
<1>1. ~IsSnapshot(Erased) /\ ~IsSnapshot(Torn)
  BY DEF IsSnapshot, Erased, Torn
<1>2. B[k][i] \in {Erased, Torn} \cup Snapshots
  BY DEF BankPairs
<1>3. \A s \in Snapshots : IsSnapshot(s)
  BY DEF IsSnapshot, Snapshots
<1> QED
  BY <1>1, <1>2, <1>3

(* With no sealed page a boot finds no root.                               *)
LEMMA BootsNothing ==
  ASSUME NEW B, NothingSealed(B)
  PROVE  Boot(B) = NoRoot /\ Boot(B) \notin Snapshots
<1>1. Sealed(B[0]) = {} /\ Sealed(B[1]) = {}
  BY DEF NothingSealed, Sealed, Banks
<1>2. Boot(B) = NoRoot
  BY <1>1 DEF Boot
<1> QED
  BY <1>2 DEF NoRoot, Snapshots

(* A boot finds the end of the chain.                                      *)
LEMMA BootsRoot ==
  ASSUME NEW B \in BankPairs, NEW r, RootIs(B, r)
  PROVE  Boot(B) = r
<1> DEFINE k == r.bank
           o == 1 - r.bank
           n == r.slot
<1> USE GeometryAssumption
<1>1. /\ r \in Snapshots /\ k \in {0, 1} /\ o \in {0, 1} /\ o # k /\ 1 - o = k
      /\ n \in BankSlot /\ n \in Nat /\ n < BankSlots /\ r.epoch \in Nat /\ r.epoch > 0
      /\ BankSlots \in Nat
  BY DEF RootIs, Snapshots, Banks, BankSlot
<1>2. Sealed(B[k]) = 0..n
  <2>1. \A i \in BankSlot : i <= n => IsSnapshot(B[k][i])
    BY <1>1, PageKinds DEF RootIs, Banks
  <2>2. \A i \in BankSlot : i > n => ~IsSnapshot(B[k][i])
    BY DEF RootIs
  <2>3. 0..n \subseteq BankSlot /\ BankSlot \subseteq Nat
    BY <1>1 DEF BankSlot
  <2> HIDE DEF k, n
  <2>4. \A i \in BankSlot : IsSnapshot(B[k][i]) <=> i \in 0..n
    BY <2>1, <2>2, <2>3, <1>1
  <2> QED
    BY <2>3, <2>4 DEF Sealed
<1>3. Max(0..n) = n /\ Min(0..n) = 0
  <2>1. Max(0..n) \in 0..n /\ \A y \in 0..n : Max(0..n) >= y
    <3> DEFINE S == 0..n
    <3>1. S \subseteq Nat /\ S # {} /\ \A x \in S : x <= n
      BY <1>1
    <3> HIDE DEF S
    <3>2. Max(S) \in S /\ \A y \in S : Max(S) >= y
      BY <1>1, <3>1, MaxOf
    <3> QED
      BY <3>2 DEF S
  <2>2. Min(0..n) = 0
    BY <1>1 DEF Min
  <2> QED
    BY <1>1, <2>1, <2>2
<1>4. /\ First(B[k]) = B[k][0] /\ Last(B[k]) = r /\ Epoch(B[k]) = r.epoch
      /\ B[k][0].epoch = Start(r) /\ B[k][0].slot = 0 /\ Start(r) \in Int
      /\ Start(r) <= r.epoch /\ Start(r) > 0 /\ Sealed(B[k]) # {}
  <2>1. 0 \in BankSlot /\ 0 <= n
    BY <1>1 DEF BankSlot
  <2>2. B[k][0] \in Snapshots /\ B[k][0].slot = 0 /\ B[k][0].epoch = Start(r) + 0
    BY <2>1 DEF RootIs
  <2>3. B[k][0].epoch \in Nat /\ B[k][0].epoch > 0
    BY <2>2 DEF Snapshots
  <2>4. Start(r) = r.epoch - n
    BY DEF Start
  <2>5. 0 \in 0..n
    BY <1>1
  <2>6. B[k][n] = r
    BY DEF RootIs
  <2> HIDE DEF k, n
  <2>7. Sealed(B[k]) # {}
    BY <1>2, <2>5
  <2>8. First(B[k]) = B[k][0]
    BY ONLY <1>2, <1>3 DEF First
  <2>9. Last(B[k]) = r
    BY ONLY <1>2, <1>3, <2>6 DEF Last
  <2>10. Epoch(B[k]) = r.epoch
    BY ONLY <2>7, <2>9 DEF Epoch
  <2>11. Start(r) \in Int /\ Start(r) <= r.epoch
    BY ONLY <1>1, <2>4
  <2>12. B[k][0].epoch = Start(r)
    BY ONLY <2>2, <2>11
  <2> QED
    BY ONLY <2>2, <2>3, <2>7, <2>8, <2>9, <2>10, <2>11, <2>12
<1>5. ~Broken(B[k])
  <2> SUFFICES ASSUME NEW i \in 0..n
               PROVE  /\ \A m \in BankSlot : m < i => m \in 0..n
                      /\ i - 1 \in 0..n => Transition(B[k][i - 1], B[k][i])
    BY <1>2 DEF Broken
  <2>1. i \in BankSlot /\ i <= n
    BY <1>1 DEF BankSlot
  <2>2. \A m \in BankSlot : m < i => m \in 0..n
    BY <1>1, <2>1 DEF BankSlot
  <2>3. ASSUME i - 1 \in 0..n PROVE Transition(B[k][i - 1], B[k][i])
    <3>1. i > 0
      BY <2>3, <1>1
    <3> QED
      BY <3>1, <2>1 DEF RootIs
  <2> QED
    BY <2>2, <2>3
<1>6. \A i \in Sealed(B[o]) : /\ i \in BankSlot /\ B[o][i] \in Snapshots
                              /\ B[o][i].epoch < Start(r)
                              /\ B[o][i].epoch + 1 = Start(r) => Transition(B[o][i], B[k][0])
  BY <1>1, PageKinds DEF Sealed, RootIs, Banks
<1>7. ASSUME Sealed(B[o]) # {}
      PROVE  Last(B[o]) = B[o][Max(Sealed(B[o]))] /\ Max(Sealed(B[o])) \in Sealed(B[o])
  <2>1. Sealed(B[o]) \subseteq Nat /\ \A x \in Sealed(B[o]) : x <= BankSlots
    BY <1>1 DEF Sealed, BankSlot
  <2>2. Max(Sealed(B[o])) \in Sealed(B[o])
    BY <1>1, <1>7, <2>1, MaxOf
  <2> QED
    BY <2>2 DEF Last
<1>8. /\ Epoch(B[o]) \in Nat /\ Epoch(B[o]) < Start(r)
      /\ Epoch(B[o]) # 0 /\ Epoch(B[o]) + 1 = Start(r) => Transition(Last(B[o]), First(B[k]))
  <2>1. CASE Sealed(B[o]) = {}
    BY <1>4, <2>1 DEF Epoch
  <2>2. CASE Sealed(B[o]) # {}
    <3>1. Epoch(B[o]) = Last(B[o]).epoch /\ Last(B[o]) = B[o][Max(Sealed(B[o]))]
      BY <2>2, <1>7 DEF Epoch
    <3>2. Last(B[o]).epoch \in Nat
      BY <2>2, <1>6, <1>7 DEF Snapshots
    <3> QED
      BY <2>2, <1>4, <1>6, <1>7, <3>1, <3>2
  <2> QED
    BY <2>1, <2>2
<1>9. Highest(B[o]) \in Nat /\ Highest(B[o]) < Start(r)
  <2> DEFINE S == {B[o][i].epoch : i \in Sealed(B[o])} \cup {0}
  <2>1. \A x \in S : x \in Nat /\ x < Start(r)
    BY <1>4, <1>6 DEF Snapshots
  <2>2. S \subseteq Nat /\ S # {} /\ Start(r) \in Nat /\ \A x \in S : x <= Start(r)
    <3>1. S # {}
      OBVIOUS
    <3>2. Start(r) \in Nat
      BY <1>4
    <3> HIDE DEF S
    <3>3. S \subseteq Nat
      BY <2>1
    <3>4. \A x \in S : x <= Start(r)
      BY <2>1, <3>2
    <3> QED
      BY <3>1, <3>2, <3>3, <3>4
  <2>3. Max(S) \in S
    <3> HIDE DEF S
    <3> QED
      BY <2>2, MaxOf
  <2> QED
    BY <2>1, <2>3 DEF Highest
<1>10. IF Epoch(B[1]) > Epoch(B[0]) THEN k = 1 ELSE k = 0
  BY <1>1, <1>4, <1>8
<1> HIDE DEF k, o, n
<1>11. \A sel \in {0, 1} : sel = (IF Epoch(B[1]) > Epoch(B[0]) THEN 1 ELSE 0) => sel = k
  BY <1>1, <1>10
<1>12. (IF Epoch(B[1]) > Epoch(B[0]) THEN 1 ELSE 0) = k /\ 1 - k = o
  BY <1>1, <1>10
<1> QED
  BY <1>4, <1>5, <1>8, <1>9, <1>12 DEF Boot

(* Pages that lose their seal, past the root or in the other bank, are no  *)
(* part of the chain.                                                      *)
LEMMA Dulled ==
  ASSUME NEW B \in BankPairs, NEW C \in BankPairs, NEW r, RootIs(B, r),
         \A k \in Banks, i \in BankSlot : C[k][i] \in {B[k][i], Erased, Torn},
         \A i \in BankSlot : i <= r.slot => C[r.bank][i] = B[r.bank][i]
  PROVE  RootIs(C, r)
<1> USE GeometryAssumption
<1>1. /\ r \in Snapshots /\ r.bank \in Banks /\ 1 - r.bank \in Banks /\ r.slot \in BankSlot
      /\ r.slot <= r.slot /\ 0 \in BankSlot /\ 0 <= r.slot
  BY DEF RootIs, Snapshots, Banks, BankSlot
<1>2. \A k \in Banks, i \in BankSlot : IsSnapshot(C[k][i]) => C[k][i] = B[k][i]
  BY PageKinds
<1>3. C[r.bank][r.slot] = r
  BY <1>1 DEF RootIs
<1>4. \A i \in BankSlot : i > r.slot => ~IsSnapshot(C[r.bank][i])
  BY <1>1, <1>2 DEF RootIs
<1>5. ASSUME NEW i \in BankSlot, i <= r.slot
      PROVE  /\ C[r.bank][i] \in Snapshots
             /\ C[r.bank][i].slot = i /\ C[r.bank][i].epoch = Start(r) + i
             /\ i > 0 => Transition(C[r.bank][i - 1], C[r.bank][i])
  <2>1. i > 0 => i - 1 \in BankSlot /\ i - 1 <= r.slot
    BY <1>1, <1>5 DEF BankSlot
  <2>2. C[r.bank][i] = B[r.bank][i] /\ (i > 0 => C[r.bank][i - 1] = B[r.bank][i - 1])
    BY <1>5, <2>1
  <2> QED
    BY <1>5, <2>2 DEF RootIs
<1>6. ASSUME NEW i \in BankSlot, IsSnapshot(C[1 - r.bank][i])
      PROVE  /\ C[1 - r.bank][i].epoch < Start(r)
             /\ C[1 - r.bank][i].epoch + 1 = Start(r) =>
                  Transition(C[1 - r.bank][i], C[r.bank][0])
  <2>1. C[1 - r.bank][i] = B[1 - r.bank][i] /\ C[r.bank][0] = B[r.bank][0]
    BY <1>1, <1>2, <1>6
  <2> QED
    BY <1>6, <2>1 DEF RootIs
<1> QED
  BY <1>1, <1>3, <1>4, <1>5, <1>6 DEF RootIs

(* A snapshot that may follow the root, programmed behind it or into the   *)
(* other bank with no seal left in it, is the new root.                    *)
LEMMA Appended ==
  ASSUME NEW B \in BankPairs, NEW r, RootIs(B, r),
         NEW c \in Snapshots, Transition(r, c),
         c.bank # r.bank => \A i \in BankSlot : ~IsSnapshot(B[c.bank][i])
  PROVE  RootIs([B EXCEPT ![c.bank][c.slot] = c], c)
<1> USE GeometryAssumption
<1> DEFINE C == [B EXCEPT ![c.bank][c.slot] = c]
<1>1. /\ r \in Snapshots /\ r.bank \in {0, 1} /\ r.slot \in BankSlot /\ r.epoch \in Nat
      /\ c.bank \in {0, 1} /\ c.slot \in BankSlot /\ c.epoch \in Nat /\ 1 - c.bank \in {0, 1}
      /\ 0 \in BankSlot /\ r.slot \in Nat /\ c.slot \in Nat
  BY DEF RootIs, Snapshots, Banks, BankSlot
<1>0. \A i \in BankSlot : i \in Nat /\ (i > 0 => i - 1 \in BankSlot)
  BY DEF BankSlot
<1>2. /\ c.epoch = r.epoch + 1
      /\ IF c.bank = r.bank THEN c.slot = r.slot + 1 ELSE c.slot = 0
  BY DEF Transition
<1>3. /\ C[c.bank][c.slot] = c
      /\ \A k \in Banks, i \in BankSlot : <<k, i>> # <<c.bank, c.slot>> => C[k][i] = B[k][i]
  BY <1>1 DEF BankPairs, Banks
<1>4. IsSnapshot(c)
  BY DEF Snapshots, IsSnapshot
<1> HIDE DEF C
<1>5. CASE c.bank = r.bank
  <2>1. Start(c) = Start(r) /\ c.slot = r.slot + 1 /\ 1 - c.bank = 1 - r.bank /\ 1 - c.bank # c.bank
    <3>1. Start(c) = Start(r)
      BY <1>1, <1>2, <1>5 DEF Start
    <3> QED
      BY <1>1, <1>2, <1>5, <3>1
  <2>0. \A i \in BankSlot : i # c.slot => C[c.bank][i] = B[r.bank][i]
    BY <1>1, <1>3, <1>5 DEF Banks
  <2>2. \A i \in BankSlot : i <= r.slot => C[c.bank][i] = B[r.bank][i]
    BY <1>0, <1>1, <2>0, <2>1
  <2>3. \A i \in BankSlot : i > c.slot => C[c.bank][i] = B[r.bank][i] /\ i > r.slot
    BY <1>0, <1>1, <2>0, <2>1
  <2>4. \A i \in BankSlot : C[1 - c.bank][i] = B[1 - r.bank][i]
    BY <1>0, <1>1, <1>3, <2>1 DEF Banks
  <2>5. ASSUME NEW i \in BankSlot, i <= c.slot
        PROVE  /\ C[c.bank][i] \in Snapshots
               /\ C[c.bank][i].slot = i /\ C[c.bank][i].epoch = Start(c) + i
               /\ i > 0 => Transition(C[c.bank][i - 1], C[c.bank][i])
    <3>1. CASE i = c.slot
      <4>1. C[c.bank][i] = c /\ i - 1 = r.slot /\ C[c.bank][r.slot] = r
        BY <1>0, <1>1, <1>3, <1>5, <2>1, <2>2, <3>1 DEF RootIs
      <4>2. c.epoch = Start(c) + i
        BY <1>0, <1>1, <3>1 DEF Start
      <4> QED
        BY <3>1, <4>1, <4>2
    <3>2. CASE i # c.slot
      <4>1. i <= r.slot /\ (i > 0 => i - 1 \in BankSlot /\ i - 1 <= r.slot)
        BY <1>0, <1>1, <2>1, <2>5, <3>2
      <4>2. C[c.bank][i] = B[r.bank][i] /\ (i > 0 => C[c.bank][i - 1] = B[r.bank][i - 1])
        BY <2>2, <4>1
      <4> QED
        BY <2>1, <4>1, <4>2 DEF RootIs
    <3> QED
      BY <3>1, <3>2
  <2>6. C[c.bank][0] = B[r.bank][0]
    BY <1>0, <1>1, <2>2
  <2>7. \A i \in BankSlot : i > c.slot => ~IsSnapshot(C[c.bank][i])
    BY <2>3 DEF RootIs
  <2>8. \A i \in BankSlot : IsSnapshot(C[1 - c.bank][i]) =>
          /\ C[1 - c.bank][i].epoch < Start(c)
          /\ C[1 - c.bank][i].epoch + 1 = Start(c) =>
               Transition(C[1 - c.bank][i], C[c.bank][0])
    BY <2>1, <2>4, <2>6 DEF RootIs
  <2> QED
    BY <1>3, <2>5, <2>7, <2>8 DEF RootIs, C
<1>6. CASE c.bank # r.bank
  <2>1. Start(c) = r.epoch + 1 /\ c.slot = 0 /\ 1 - c.bank = r.bank
    BY <1>0, <1>1, <1>2, <1>6 DEF Start
  <2>2. \A i \in BankSlot : i > c.slot => ~IsSnapshot(C[c.bank][i])
    BY <1>0, <1>1, <1>3, <1>6, <2>1 DEF Banks
  <2>3. \A i \in BankSlot : C[1 - c.bank][i] = B[r.bank][i]
    BY <1>0, <1>1, <1>3, <1>6, <2>1 DEF Banks
  <2>4. ASSUME NEW i \in BankSlot, i <= c.slot
        PROVE  /\ C[c.bank][i] \in Snapshots
               /\ C[c.bank][i].slot = i /\ C[c.bank][i].epoch = Start(c) + i
               /\ i > 0 => Transition(C[c.bank][i - 1], C[c.bank][i])
    <3>0. i \in Nat
      BY <1>0
    <3>1. i = 0 /\ C[c.bank][i] = c
      BY <1>1, <1>3, <2>1, <2>4, <3>0
    <3> QED
      BY <1>0, <1>1, <2>1, <3>1 DEF Start
  <2>5. ASSUME NEW i \in BankSlot, IsSnapshot(B[r.bank][i])
        PROVE  /\ B[r.bank][i].epoch < Start(c)
               /\ B[r.bank][i].epoch + 1 = Start(c) => Transition(B[r.bank][i], c)
    <3>0. i \in Nat
      BY <1>0
    <3>a. ~(i > r.slot)
      BY <2>5 DEF RootIs
    <3>1. i <= r.slot
      BY <1>1, <3>0, <3>a
    <3>2. B[r.bank][i].epoch = r.epoch - r.slot + i
      BY <3>1 DEF RootIs, Start
    <3>3. B[r.bank][i].epoch + 1 = Start(c) => i = r.slot
      BY <1>1, <2>1, <3>0, <3>2
    <3>4. B[r.bank][r.slot] = r
      BY DEF RootIs
    <3> QED
      BY <1>1, <2>1, <3>0, <3>1, <3>2, <3>3, <3>4
  <2>6. C[c.bank][0] = c
    BY <1>3, <2>1
  <2> QED
    BY <1>3, <2>2, <2>3, <2>4, <2>5, <2>6 DEF RootIs, C
<1> QED
  BY <1>5, <1>6

(* A first snapshot, programmed where nothing is sealed, is the root.      *)
LEMMA FirstRoot ==
  ASSUME NEW B \in BankPairs, NothingSealed(B), NEW c \in Snapshots, c.slot = 0
  PROVE  RootIs([B EXCEPT ![c.bank][c.slot] = c], c)
<1> USE GeometryAssumption
<1> DEFINE C == [B EXCEPT ![c.bank][c.slot] = c]
<1>1. /\ c.bank \in {0, 1} /\ c.slot \in BankSlot /\ c.epoch \in Nat /\ 1 - c.bank \in {0, 1}
      /\ 1 - c.bank # c.bank /\ c.slot \in Nat
  BY DEF Snapshots, Banks, BankSlot
<1>0. \A i \in BankSlot : i \in Nat
  BY DEF BankSlot
<1>2. /\ C[c.bank][c.slot] = c
      /\ \A k \in Banks, i \in BankSlot : <<k, i>> # <<c.bank, c.slot>> => C[k][i] = B[k][i]
  BY <1>1 DEF BankPairs, Banks
<1> HIDE DEF C
<1>3. \A i \in BankSlot : ~IsSnapshot(C[1 - c.bank][i]) /\ (i > 0 => ~IsSnapshot(C[c.bank][i]))
  BY <1>0, <1>1, <1>2 DEF NothingSealed, Banks
<1>4. \A i \in BankSlot : i <= c.slot => i = 0 /\ C[c.bank][i] = c /\ c.epoch = Start(c) + i
  BY <1>0, <1>1, <1>2 DEF Start
<1> QED
  BY <1>0, <1>1, <1>2, <1>3, <1>4 DEF RootIs, C

-----------------------------------------------------------------------------
(* What may follow the root.                                               *)

(* c has the contents of t and takes the place after s.                    *)
Stamped(s, t, c) ==
  /\ c \in Snapshots /\ c.epoch = s.epoch + 1 /\ c.previous = s.digest
  /\ IF c.bank = s.bank THEN c.slot = s.slot + 1 ELSE c.slot = 0
  /\ Body(c) = Body(t)

(* The fields of a snapshot.                                               *)
LEMMA SnapshotFields ==
  ASSUME NEW s \in Snapshots
  PROVE  /\ IsSnapshot(s) /\ s.epoch \in 1..MaxEpoch /\ s.epoch \in Nat /\ s.epoch > 0
         /\ s.digest # NoDigest /\ s.digest \in Nat \X Nat
         /\ s.state \in {"PROVISIONING", "ACTIVE"}
         /\ s.bank \in Banks /\ 1 - s.bank \in Banks /\ 1 - s.bank # s.bank
         /\ s.slot \in BankSlot /\ s.slot \in Nat
         /\ s.high_water \in 0..MaxLease /\ s.high_water \in Nat
         /\ s.retired \subseteq MapBlocks /\ s.quarantine \subseteq MapBlocks
         /\ s.open \subseteq MapBlocks /\ s.pending \in MapBlocks \cup {NoBlock}
         /\ s.blocks \in [MapBlocks -> Ranges]
<1>1. s.digest # NoDigest /\ s.digest \in Nat \X Nat
  BY DEF Snapshots, NoDigest
<1>2. s.epoch \in Nat /\ s.epoch > 0 /\ s.high_water \in Nat /\ s.slot \in Nat
  BY GeometryAssumption, LimitAssumption DEF Snapshots, BankSlot
<1>3. s.bank \in Banks /\ 1 - s.bank \in Banks /\ 1 - s.bank # s.bank
  BY DEF Snapshots, Banks
<1> QED
  BY <1>1, <1>2, <1>3 DEF Snapshots, IsSnapshot

(* The fields of a block entry.                                            *)
LEMMA RangeFields ==
  ASSUME NEW x \in Ranges
  PROVE  /\ x.base \in Nat /\ x.seq \in Nat /\ x.valid \subseteq Pages
         /\ x.consumed \in Nat /\ x.consumed <= PagesPerBlock
BY GeometryAssumption DEF Ranges

(* A block number is not the missing one.                                  *)
LEMMA BlockNumbers == NoBlock \notin MapBlocks
BY GeometryAssumption DEF NoBlock

(* A snapshot that only extends the histories of the blocks, and opens and *)
(* frees none, may follow.                                                 *)
LEMMA Growth ==
  ASSUME NEW s \in Snapshots, Syntax(s), NEW c, Stamped(s, c, c),
         c.high_water = s.high_water, c.pending = NoBlock,
         s.retired \subseteq c.retired, s.quarantine \subseteq c.quarantine,
         c.retired \subseteq c.quarantine, c.open \subseteq s.open,
         c.open \cap c.quarantine = {}, c.state = s.state \/ c.state = "ACTIVE",
         \A b \in MapBlocks : Extends(s.blocks[b], c.blocks[b]),
         \A b \in c.open : c.blocks[b].consumed < PagesPerBlock
  PROVE  Syntax(c) /\ Transition(s, c)
<1> USE SnapshotFields, RangeFields, GeometryAssumption, LimitAssumption
<1>1. c \in Snapshots /\ c.epoch = s.epoch + 1 /\ c.previous = s.digest
  BY DEF Stamped
<1>2. \A b \in MapBlocks : /\ s.blocks[b] \in Ranges /\ c.blocks[b] \in Ranges
                           /\ c.blocks[b].base = s.blocks[b].base
                           /\ c.blocks[b].seq = s.blocks[b].seq
  BY <1>1 DEF Extends
<1>3. ASSUME NEW b \in MapBlocks PROVE BlockSyntax(c, b)
  <2> DEFINE x == s.blocks[b]
             y == c.blocks[b]
  <2>1. BlockSyntax(s, b) /\ Extends(x, y) /\ x \in Ranges /\ y \in Ranges
    BY <1>2 DEF Syntax
  <2>2. y.consumed <= PagesPerBlock /\ (y.base = 0 => y = NoRange) /\ \A p \in y.valid : p < y.consumed
    BY <2>1 DEF Extends
  <2>3. y.base # 0 => /\ y.base <= MaxLease - PagesPerBlock
                      /\ y.base + PagesPerBlock <= c.high_water
    BY <2>1 DEF Extends, BlockSyntax
  <2>4. y.base # 0 => y.seq \in 1..c.epoch
    <3>1. y.base # 0 => x.seq \in 1..s.epoch
      BY <2>1 DEF Extends, BlockSyntax
    <3> QED
      BY <1>1, <2>1, <3>1 DEF Extends
  <2>5. b \in c.open => y.base # 0 /\ y.consumed < PagesPerBlock
    BY <2>1 DEF Extends, BlockSyntax
  <2>6. \A e \in MapBlocks \ {b} : y.base # 0 /\ c.blocks[e].base # 0 =>
          \/ y.base > c.blocks[e].base + PagesPerBlock
          \/ c.blocks[e].base > y.base + PagesPerBlock
    BY <1>2, <2>1 DEF BlockSyntax
  <2> QED
    BY <2>2, <2>3, <2>4, <2>5, <2>6 DEF BlockSyntax
<1>4. Syntax(c)
  <2>1. c.epoch \in 1..MaxEpoch /\ c.bank \in Banks /\ c.slot \in BankSlot /\ c.epoch # 1
        /\ c.previous # NoDigest
    BY <1>1
  <2> QED
    BY <1>3, <2>1 DEF Syntax
<1>5. ASSUME NEW b \in MapBlocks PROVE BlockTransition(s, c, b)
  BY <1>2, <1>5 DEF BlockTransition, Extends
<1>6. {b \in MapBlocks : c.blocks[b].base # s.blocks[b].base} = {}
  BY <1>2
<1>7. Cardinality({}) = 0
  BY FS_EmptySet
<1>8. ~(s.state = "ACTIVE" /\ c.state = "PROVISIONING")
  BY <1>1
<1> QED
  <2>1. /\ Cardinality({b \in MapBlocks : c.blocks[b].base # s.blocks[b].base}) <= 1
        /\ c.high_water >= s.high_water
    <3> DEFINE ch == {b \in MapBlocks : c.blocks[b].base # s.blocks[b].base}
    <3> HIDE DEF ch
    <3>1. Cardinality(ch) = 0
      BY ONLY <1>6, <1>7 DEF ch
    <3>2. Cardinality(ch) <= 1 /\ c.high_water >= s.high_water
      BY <3>1
    <3> QED
      BY ONLY <3>2 DEF ch
  <2> QED
    BY ONLY <1>1, <1>4, <1>5, <1>8, <2>1, Stamped(s, c, c), c.high_water = s.high_water,
       c.pending = NoBlock, s.retired \subseteq c.retired DEF Transition, Stamped

(* The entry of a block with a lease range reserved for its erase.         *)
Range0(s) == [NoRange EXCEPT !.base = s.high_water + 1, !.seq = s.epoch + 1]
(* The range a reservation gives a block.                                  *)
LEMMA ReservedRange ==
  ASSUME NEW s \in Snapshots
  PROVE  /\ Range0(s) \in Ranges /\ Range0(s).base = s.high_water + 1
         /\ Range0(s).seq = s.epoch + 1 /\ Range0(s).valid = {}
         /\ Range0(s).consumed = PagesPerBlock
<1>1. s.high_water \in Nat /\ s.epoch \in Nat
  BY SnapshotFields
<1>2. /\ NoRange \in Ranges /\ NoRange.valid = {} /\ NoRange.consumed = PagesPerBlock
  BY GeometryAssumption DEF NoRange, Ranges
<1> DEFINE u == s.high_water + 1
           v == s.epoch + 1
<1>3. u \in Nat /\ v \in Nat
  BY <1>1
<1>4. Range0(s) = [NoRange EXCEPT !.base = u, !.seq = v]
  BY DEF Range0
<1> HIDE DEF u, v
<1>5. /\ [NoRange EXCEPT !.base = u, !.seq = v] \in Ranges
      /\ [NoRange EXCEPT !.base = u, !.seq = v].base = u
      /\ [NoRange EXCEPT !.base = u, !.seq = v].seq = v
      /\ [NoRange EXCEPT !.base = u, !.seq = v].valid = {}
      /\ [NoRange EXCEPT !.base = u, !.seq = v].consumed = PagesPerBlock
  BY <1>2, <1>3 DEF Ranges
<1> QED
  BY <1>4, <1>5 DEF u, v

(* A snapshot that reserves leases for the erase of a block may follow.    *)
LEMMA Reservation ==
  ASSUME NEW s \in Snapshots, Syntax(s), NEW c, Stamped(s, c, c),
         NEW b \in MapBlocks, b \notin s.retired, s.pending = NoBlock, c.pending = b,
         s.high_water <= MaxLease - (PagesPerBlock + 1),
         c.high_water = s.high_water + 1 + PagesPerBlock,
         c.retired = s.retired, c.quarantine = s.quarantine \cup {b},
         c.open = s.open \ {b}, c.state = s.state,
         c.blocks = [s.blocks EXCEPT ![b] = Range0(s)]
  PROVE  Syntax(c) /\ Transition(s, c)
<1> USE SnapshotFields, RangeFields, GeometryAssumption, LimitAssumption
<1> DEFINE y == Range0(s)
<1>1. c \in Snapshots /\ c.epoch = s.epoch + 1 /\ c.previous = s.digest
  BY DEF Stamped
<1>2. /\ y \in Ranges /\ y.base = s.high_water + 1 /\ y.seq = c.epoch /\ y.valid = {}
      /\ y.consumed = PagesPerBlock
  BY <1>1, ReservedRange
<1>3. c.blocks[b] = y /\ \A e \in MapBlocks \ {b} : c.blocks[e] = s.blocks[e]
  OBVIOUS
<1> HIDE DEF y
<1>4. \A e \in MapBlocks : s.blocks[e] \in Ranges /\ BlockSyntax(s, e)
  BY DEF Syntax
<1>5. \A e \in MapBlocks : s.blocks[e].base # 0 => s.blocks[e].base + PagesPerBlock < y.base
  BY <1>2, <1>4 DEF BlockSyntax
<1>6. BlockSyntax(c, b)
  <2>1. y.base # 0 /\ y.base <= MaxLease - PagesPerBlock /\ y.base + PagesPerBlock <= c.high_water
    BY <1>2
  <2>2. y.seq \in 1..c.epoch
    BY <1>1, <1>2
  <2>3. \A e \in MapBlocks \ {b} : c.blocks[e].base # 0 => y.base > c.blocks[e].base + PagesPerBlock
    BY <1>2, <1>3, <1>4, <1>5
  <2> QED
    BY <1>2, <1>3, <2>1, <2>2, <2>3 DEF BlockSyntax
<1>7. ASSUME NEW e \in MapBlocks \ {b} PROVE BlockSyntax(c, e)
  <2> DEFINE x == s.blocks[e]
  <2>0. x \in Ranges /\ BlockSyntax(s, e) /\ c.blocks[e] = x
    BY <1>3, <1>4
  <2> HIDE DEF x
  <2>1. /\ x.consumed <= PagesPerBlock /\ (x.base = 0 => x = NoRange)
        /\ \A p \in x.valid : p < x.consumed
        /\ e \in c.open => x.base # 0 /\ x.consumed < PagesPerBlock
    BY <2>0 DEF BlockSyntax, x
  <2>2. x.base # 0 => /\ x.base <= MaxLease - PagesPerBlock
                      /\ x.base + PagesPerBlock <= c.high_water /\ x.seq \in 1..c.epoch
    <3>1. x.base # 0 => /\ x.base <= MaxLease - PagesPerBlock
                        /\ x.base + PagesPerBlock <= s.high_water /\ x.seq \in 1..s.epoch
      BY <2>0 DEF BlockSyntax, x
    <3> QED
      BY <1>1, <2>0, <3>1
  <2>3. ASSUME NEW f \in MapBlocks \ {e}, x.base # 0, c.blocks[f].base # 0
        PROVE  \/ x.base > c.blocks[f].base + PagesPerBlock
               \/ c.blocks[f].base > x.base + PagesPerBlock
    <3>1. CASE f = b
      <4>1. x.base + PagesPerBlock < y.base
        BY <1>5, <2>3 DEF x
      <4> QED
        BY <1>2, <1>3, <2>0, <3>1, <4>1
    <3>2. CASE f # b
      BY <1>3, <2>0, <2>3, <3>2 DEF BlockSyntax, x
    <3> QED
      BY <3>1, <3>2
  <2> QED
    BY <2>0, <2>1, <2>2, <2>3 DEF BlockSyntax
<1>8. Syntax(c)
  <2>1. c.epoch \in 1..MaxEpoch /\ c.bank \in Banks /\ c.slot \in BankSlot /\ c.epoch # 1
        /\ c.previous # NoDigest
    BY <1>1
  <2>2. c.retired \subseteq c.quarantine /\ c.open \cap c.quarantine = {} /\ b \in c.quarantine \ c.retired
    BY DEF Syntax
  <2> QED
    BY <1>2, <1>3, <1>6, <1>7, <2>1, <2>2 DEF Syntax
<1>9. y.base # s.blocks[b].base
  BY <1>2, <1>4, <1>5
<1>10. BlockTransition(s, c, b)
  BY <1>2, <1>3, <1>9 DEF BlockTransition
<1>11. ASSUME NEW e \in MapBlocks \ {b} PROVE BlockTransition(s, c, e)
  BY <1>3, <1>4 DEF BlockTransition
<1>12. {e \in MapBlocks : c.blocks[e].base # s.blocks[e].base} = {b}
  BY <1>3, <1>9
<1>13. Cardinality({b}) = 1
  BY FS_Singleton
<1>14. c.high_water >= s.high_water /\ ~(s.state = "ACTIVE" /\ c.state = "PROVISIONING")
  BY <1>1
<1> QED
  <2>1. /\ Cardinality({e \in MapBlocks : c.blocks[e].base # s.blocks[e].base}) <= 1
        /\ {e \in MapBlocks : c.blocks[e].base # s.blocks[e].base} # {}
    <3> DEFINE ch == {e \in MapBlocks : c.blocks[e].base # s.blocks[e].base}
    <3> HIDE DEF ch
    <3>1. Cardinality(ch) = 1 /\ ch # {}
      <4>1. ch = {b}
        BY ONLY <1>12 DEF ch
      <4> QED
        BY ONLY <1>13, <4>1
    <3>2. Cardinality(ch) <= 1 /\ ch # {}
      BY <3>1
    <3> QED
      BY ONLY <3>2 DEF ch
  <2>2. \A e \in MapBlocks : BlockTransition(s, c, e)
    BY <1>10, <1>11
  <2> QED
    BY ONLY <1>1, <1>8, <1>14, <2>1, <2>2, Stamped(s, c, c), s.pending = NoBlock,
       c.retired = s.retired DEF Transition, Stamped

(* A snapshot that opens the block whose erase was pending may follow.     *)
LEMMA Opening ==
  ASSUME NEW s \in Snapshots, Syntax(s), NEW c, Stamped(s, c, c),
         NEW b \in MapBlocks, s.pending = b, c.pending = NoBlock, s.blocks[b].base # 0,
         c.high_water = s.high_water, c.retired = s.retired,
         c.quarantine = s.quarantine \ {b}, c.open = s.open \cup {b}, c.state = s.state,
         c.blocks = [s.blocks EXCEPT ![b].consumed = 0]
  PROVE  Syntax(c) /\ Transition(s, c)
<1> USE SnapshotFields, RangeFields, GeometryAssumption, LimitAssumption, BlockNumbers
<1>1. c \in Snapshots /\ c.epoch = s.epoch + 1 /\ c.previous = s.digest
  BY DEF Stamped
<1>2. /\ s.blocks[b].valid = {} /\ b \in s.quarantine \ s.retired
      /\ \A e \in MapBlocks : s.blocks[e] \in Ranges /\ BlockSyntax(s, e)
  BY DEF Syntax
<1>3. /\ c.blocks[b].base = s.blocks[b].base /\ c.blocks[b].seq = s.blocks[b].seq
      /\ c.blocks[b].valid = {} /\ c.blocks[b].consumed = 0
      /\ \A e \in MapBlocks \ {b} : c.blocks[e] = s.blocks[e]
  <2>1. c.blocks[b] = [s.blocks[b] EXCEPT !.consumed = 0]
    OBVIOUS
  <2> QED
    BY <1>2, <2>1 DEF Ranges
<1>4. \A e \in MapBlocks : c.blocks[e].base = s.blocks[e].base /\ c.blocks[e].seq = s.blocks[e].seq
  BY <1>3
<1>5. ASSUME NEW e \in MapBlocks PROVE BlockSyntax(c, e)
  <2>0. s.blocks[e] \in Ranges /\ BlockSyntax(s, e) /\ c.blocks[e] \in Ranges
    BY <1>1, <1>2
  <2>1. /\ c.blocks[e].consumed <= PagesPerBlock
        /\ c.blocks[e].base = 0 => c.blocks[e] = NoRange
        /\ \A p \in c.blocks[e].valid : p < c.blocks[e].consumed
        /\ e \in c.open => c.blocks[e].base # 0 /\ c.blocks[e].consumed < PagesPerBlock
    <3>1. CASE e = b
      BY <1>3, <3>1
    <3>2. CASE e # b
      BY <1>3, <2>0, <3>2 DEF BlockSyntax
    <3> QED
      BY <3>1, <3>2
  <2>2. c.blocks[e].base # 0 => /\ c.blocks[e].base <= MaxLease - PagesPerBlock
                                /\ c.blocks[e].base + PagesPerBlock <= c.high_water
                                /\ c.blocks[e].seq \in 1..c.epoch
    <3>1. s.blocks[e].base # 0 => /\ s.blocks[e].base <= MaxLease - PagesPerBlock
                                  /\ s.blocks[e].base + PagesPerBlock <= s.high_water
                                  /\ s.blocks[e].seq \in 1..s.epoch
      BY <2>0 DEF BlockSyntax
    <3> QED
      BY <1>1, <1>4, <2>0, <3>1
  <2>3. \A f \in MapBlocks \ {e} : c.blocks[e].base # 0 /\ c.blocks[f].base # 0 =>
          \/ c.blocks[e].base > c.blocks[f].base + PagesPerBlock
          \/ c.blocks[f].base > c.blocks[e].base + PagesPerBlock
    BY <1>4, <2>0 DEF BlockSyntax
  <2> QED
    BY <2>1, <2>2, <2>3 DEF BlockSyntax
<1>6. Syntax(c)
  <2>1. c.epoch \in 1..MaxEpoch /\ c.bank \in Banks /\ c.slot \in BankSlot /\ c.epoch # 1
        /\ c.previous # NoDigest
    BY <1>1
  <2>2. c.retired \subseteq c.quarantine /\ c.open \cap c.quarantine = {}
    BY <1>2 DEF Syntax
  <2> QED
    BY <1>5, <2>1, <2>2 DEF Syntax
<1>7. BlockTransition(s, c, b)
  BY <1>2, <1>3 DEF BlockTransition
<1>8. ASSUME NEW e \in MapBlocks \ {b} PROVE BlockTransition(s, c, e)
  BY <1>2, <1>3 DEF BlockTransition
<1>9. {e \in MapBlocks : c.blocks[e].base # s.blocks[e].base} = {}
  BY <1>4
<1>10. Cardinality({}) = 0
  BY FS_EmptySet
<1>11. c.high_water >= s.high_water /\ ~(s.state = "ACTIVE" /\ c.state = "PROVISIONING")
  BY <1>1
<1> QED
  <2>1. Cardinality({e \in MapBlocks : c.blocks[e].base # s.blocks[e].base}) <= 1
    <3> DEFINE ch == {e \in MapBlocks : c.blocks[e].base # s.blocks[e].base}
    <3> HIDE DEF ch
    <3>1. Cardinality(ch) = 0
      BY ONLY <1>9, <1>10 DEF ch
    <3>2. Cardinality(ch) <= 1
      BY <3>1
    <3> QED
      BY ONLY <3>2 DEF ch
  <2>2. \A e \in MapBlocks : BlockTransition(s, c, e)
    BY <1>7, <1>8
  <2> QED
    BY ONLY <1>1, <1>6, <1>11, <2>1, <2>2, Stamped(s, c, c), c.pending = NoBlock,
       c.retired = s.retired, c.high_water = s.high_water DEF Transition, Stamped

(* The candidate of a publish takes the place after the root.              *)
LEMMA CandidateStamped ==
  ASSUME j.current \in Snapshots, boots \in Nat, j.current.epoch # MaxEpoch,
         j.tail_fresh => j.next_slot = j.current.slot + 1,
         NEW s \in Snapshots
  PROVE  /\ Stamped(j.current, s, Candidate(s))
         /\ Candidate(s).bank = j.current.bank =>
              j.tail_fresh /\ Candidate(s).slot = j.next_slot
<1> DEFINE r == j.current
           stay == j.tail_fresh /\ j.next_slot < BankSlots
           e == r.epoch + 1
           g == <<r.epoch + 1, boots>>
           q == r.digest
           k == IF stay THEN r.bank ELSE 1 - r.bank
           i == IF stay THEN j.next_slot ELSE 0
           c == [s EXCEPT !.epoch = e, !.digest = g, !.previous = q, !.bank = k, !.slot = i]
<1> USE GeometryAssumption, LimitAssumption, SnapshotFields
<1>1. /\ e \in 1..MaxEpoch /\ g \in (Nat \ {0}) \X Nat /\ q \in Nat \X Nat /\ k \in Banks
  BY DEF Banks
<1>2. /\ i \in BankSlot
      /\ IF k = r.bank THEN i = r.slot + 1 ELSE i = 0
      /\ k = r.bank => j.tail_fresh /\ i = j.next_slot
  <2>1. CASE stay
    <3>1. j.next_slot = r.slot + 1 /\ j.next_slot < BankSlots
      BY <2>1
    <3> QED
      BY <2>1, <3>1 DEF BankSlot
  <2>2. CASE ~stay
    BY <2>2 DEF BankSlot
  <2> QED
    BY <2>1, <2>2
<1>3. Candidate(s) = c
  BY DEF Candidate
<1> HIDE DEF e, g, q, k, i
<1>4. /\ c \in Snapshots /\ c.epoch = e /\ c.previous = q /\ c.bank = k /\ c.slot = i
      /\ Body(c) = Body(s)
  BY <1>1, <1>2 DEF Snapshots, Body
<1> HIDE DEF c
<1> QED
  BY <1>2, <1>3, <1>4 DEF Stamped, e, q

(* A well-formed snapshot extends itself.                                  *)
LEMMA ExtendsItself ==
  ASSUME NEW s \in Snapshots, Syntax(s), NEW b \in MapBlocks
  PROVE  Extends(s.blocks[b], s.blocks[b])
<1>1. BlockSyntax(s, b) /\ s.blocks[b] \in Ranges
  BY SnapshotFields DEF Syntax
<1> QED
  BY <1>1, RangeFields DEF BlockSyntax, Extends

(* The contents of a stamped snapshot.                                     *)
LEMMA StampedBody ==
  ASSUME NEW s, NEW t, NEW c, Stamped(s, t, c)
  PROVE  /\ Stamped(s, c, c) /\ c.state = t.state /\ c.high_water = t.high_water
         /\ c.retired = t.retired /\ c.quarantine = t.quarantine /\ c.open = t.open
         /\ c.pending = t.pending /\ c.blocks = t.blocks
BY DEF Stamped, Body

(* Reconciling may follow any root.                                        *)
LEMMA ReconciledFollows ==
  ASSUME NEW s \in Snapshots, Syntax(s)
  PROVE  /\ Reconciled(s) \in Snapshots
         /\ Reconciled(s).blocks = s.blocks /\ Reconciled(s).pending = NoBlock
         /\ Reconciled(s).retired = s.retired
         /\ \A c : Stamped(s, Reconciled(s), c) => Syntax(c) /\ Transition(s, c)
<1> DEFINE q == s.quarantine \cup s.open \cup ({s.pending} \ {NoBlock})
           o == {}
           t == [s EXCEPT !.quarantine = q, !.open = o, !.pending = NoBlock]
<1>1. q \subseteq MapBlocks /\ s.quarantine \subseteq q /\ s.retired \subseteq q /\ o = {}
  BY SnapshotFields DEF Syntax
<1>2. Reconciled(s) = t
  BY DEF Reconciled
<1> HIDE DEF q, o
<1>3. /\ t \in Snapshots /\ t.state = s.state /\ t.high_water = s.high_water
      /\ t.retired = s.retired /\ t.quarantine = q /\ t.open = {} /\ t.pending = NoBlock
      /\ t.blocks = s.blocks
  BY <1>1 DEF Snapshots
<1> HIDE DEF t
<1>4. ASSUME NEW c, Stamped(s, t, c) PROVE Syntax(c) /\ Transition(s, c)
  <2>1. /\ Stamped(s, c, c) /\ c.high_water = s.high_water /\ c.pending = NoBlock
        /\ s.retired \subseteq c.retired /\ s.quarantine \subseteq c.quarantine
        /\ c.retired \subseteq c.quarantine /\ c.open = {} /\ c.state = s.state
        /\ \A b \in MapBlocks : Extends(s.blocks[b], c.blocks[b])
    BY <1>1, <1>3, <1>4, StampedBody, ExtendsItself
  <2> QED
    BY <2>1, Growth
<1> QED
  BY <1>2, <1>3, <1>4

(* Activation may follow a root with no erase pending.                     *)
LEMMA ActivatedFollows ==
  ASSUME NEW s \in Snapshots, Syntax(s), s.pending = NoBlock
  PROVE  /\ [s EXCEPT !.state = "ACTIVE"] \in Snapshots
         /\ [s EXCEPT !.state = "ACTIVE"].blocks = s.blocks
         /\ [s EXCEPT !.state = "ACTIVE"].pending = NoBlock
         /\ [s EXCEPT !.state = "ACTIVE"].retired = s.retired
         /\ [s EXCEPT !.state = "ACTIVE"].state = "ACTIVE"
         /\ \A c : Stamped(s, [s EXCEPT !.state = "ACTIVE"], c) => Syntax(c) /\ Transition(s, c)
<1> DEFINE t == [s EXCEPT !.state = "ACTIVE"]
<1>1. /\ t \in Snapshots /\ t.state = "ACTIVE" /\ t.high_water = s.high_water
      /\ t.retired = s.retired /\ t.quarantine = s.quarantine /\ t.open = s.open
      /\ t.pending = NoBlock /\ t.blocks = s.blocks
  BY DEF Snapshots
<1> HIDE DEF t
<1>2. ASSUME NEW c, Stamped(s, t, c) PROVE Syntax(c) /\ Transition(s, c)
  <2>1. /\ Stamped(s, c, c) /\ c.high_water = s.high_water /\ c.pending = NoBlock
        /\ c.retired = s.retired /\ c.quarantine = s.quarantine
        /\ c.open = s.open /\ c.state = "ACTIVE" /\ c.blocks = s.blocks
    BY <1>1, <1>2, StampedBody
  <2>2. s.retired \subseteq s.quarantine /\ s.open \cap s.quarantine = {}
    BY DEF Syntax
  <2>3. \A b \in s.open : s.blocks[b].consumed < PagesPerBlock
    <3>1. \A b \in s.open : b \in MapBlocks /\ BlockSyntax(s, b)
      BY SnapshotFields DEF Syntax
    <3> QED
      BY <3>1 DEF BlockSyntax
  <2>4. \A b \in MapBlocks : Extends(s.blocks[b], c.blocks[b])
    BY <2>1, ExtendsItself
  <2> QED
    BY <2>1, <2>2, <2>3, <2>4, Growth
<1> QED
  BY <1>1, <1>2 DEF t

(* The page history of this boot may follow a root with no erase pending.  *)
LEMMA SyncedFollows ==
  ASSUME j.current \in Snapshots, Syntax(j.current), j.current.pending = NoBlock,
         j.working \in [MapBlocks -> Ranges],
         \A b \in MapBlocks : Extends(j.current.blocks[b], j.working[b])
  PROVE  /\ Synced \in Snapshots /\ Synced.blocks = j.working /\ Synced.pending = NoBlock
         /\ Synced.retired = j.current.retired
         /\ \A c : Stamped(j.current, Synced, c) => Syntax(c) /\ Transition(j.current, c)
<1> DEFINE s == j.current
           w == j.working
           o == {b \in s.open : w[b].consumed < PagesPerBlock}
           t == [s EXCEPT !.blocks = w, !.open = o]
<1>1. o \subseteq s.open /\ o \subseteq MapBlocks /\ w \in [MapBlocks -> Ranges] /\ s \in Snapshots
  BY SnapshotFields
<1>2. Synced = t
  BY DEF Synced
<1>0. \A b \in o : w[b].consumed < PagesPerBlock
  OBVIOUS
<1> HIDE DEF o, w, s
<1>3. /\ t \in Snapshots /\ t.state = s.state /\ t.high_water = s.high_water
      /\ t.retired = s.retired /\ t.quarantine = s.quarantine /\ t.open = o
      /\ t.pending = s.pending /\ t.blocks = w
  BY <1>1 DEF Snapshots
<1> HIDE DEF t
<1>4. ASSUME NEW c, Stamped(s, t, c) PROVE Syntax(c) /\ Transition(s, c)
  <2>1. /\ Stamped(s, c, c) /\ c.high_water = s.high_water /\ c.pending = NoBlock
        /\ c.retired = s.retired /\ c.quarantine = s.quarantine
        /\ c.open = o /\ c.state = s.state /\ c.blocks = w
    BY <1>3, <1>4, StampedBody DEF s
  <2>2. s.retired \subseteq s.quarantine /\ s.open \cap s.quarantine = {}
    BY DEF Syntax, s
  <2>3. \A b \in MapBlocks : Extends(s.blocks[b], w[b])
    BY DEF s, w
  <2>4. Syntax(s)
    BY DEF s
  <2> QED
    BY <1>0, <1>1, <2>1, <2>2, <2>3, <2>4, Growth
<1> QED
  BY <1>2, <1>3, <1>4 DEF s, w

(* Excluding a block may follow, with its own erase pending or none.       *)
LEMMA ExcludedFollows ==
  ASSUME j.current \in Snapshots, Syntax(j.current),
         j.working \in [MapBlocks -> Ranges],
         \A b \in MapBlocks : Extends(j.current.blocks[b], j.working[b]),
         NEW b \in MapBlocks, j.current.blocks[b].base # 0
  PROVE  /\ Excluded(b) \in Snapshots /\ Excluded(b).pending = NoBlock
         /\ Excluded(b).retired = j.current.retired \cup {b}
         /\ \A e \in MapBlocks :
              /\ Excluded(b).blocks[e].base = j.current.blocks[e].base
              /\ Excluded(b).blocks[e].seq = j.current.blocks[e].seq
              /\ Excluded(b).blocks[e].valid = j.current.blocks[e].valid
              /\ Excluded(b).blocks[e].consumed =
                   IF e = b THEN j.working[b].consumed ELSE j.current.blocks[e].consumed
         /\ \A c : Stamped(j.current, Excluded(b), c) => Syntax(c) /\ Transition(j.current, c)
<1> DEFINE s == j.current
           w == j.working
           u == s.retired \cup {b}
           q == s.quarantine \cup {b}
           o == s.open \ {b}
           x == [s.blocks EXCEPT ![b].consumed = w[b].consumed]
           t == [s EXCEPT !.retired = u, !.quarantine = q, !.open = o, !.pending = NoBlock,
                          !.blocks = x]
<1>0. s \in Snapshots /\ Syntax(s) /\ \A e \in MapBlocks : s.blocks[e] \in Ranges /\ w[e] \in Ranges
  BY SnapshotFields
<1>1. /\ u \subseteq MapBlocks /\ q \subseteq MapBlocks /\ o \subseteq MapBlocks
      /\ x \in [MapBlocks -> Ranges]
      /\ \A e \in MapBlocks : /\ x[e].base = s.blocks[e].base /\ x[e].seq = s.blocks[e].seq
                              /\ x[e].valid = s.blocks[e].valid
                              /\ x[e].consumed = IF e = b THEN w[b].consumed
                                                 ELSE s.blocks[e].consumed
  <2>1. s.blocks \in [MapBlocks -> Ranges] /\ u \subseteq MapBlocks /\ q \subseteq MapBlocks
        /\ o \subseteq MapBlocks
    BY SnapshotFields, <1>0
  <2> DEFINE f == s.blocks
             v == w[b].consumed
  <2>2. v \in 0..PagesPerBlock /\ f \in [MapBlocks -> Ranges]
    BY <1>0, <2>1 DEF Ranges
  <2>3. x = [f EXCEPT ![b].consumed = v]
    OBVIOUS
  <2> HIDE DEF f, v, x
  <2>4. /\ [f EXCEPT ![b].consumed = v] \in [MapBlocks -> Ranges]
        /\ \A e \in MapBlocks :
             /\ [f EXCEPT ![b].consumed = v][e].base = f[e].base
             /\ [f EXCEPT ![b].consumed = v][e].seq = f[e].seq
             /\ [f EXCEPT ![b].consumed = v][e].valid = f[e].valid
             /\ [f EXCEPT ![b].consumed = v][e].consumed = IF e = b THEN v ELSE f[e].consumed
    BY <2>2 DEF Ranges
  <2> QED
    BY <2>1, <2>3, <2>4 DEF f, v
<1>2. Excluded(b) = t
  BY DEF Excluded
<1>x. x = [s.blocks EXCEPT ![b].consumed = w[b].consumed] /\ u = s.retired \cup {b}
      /\ q = s.quarantine \cup {b} /\ o = s.open \ {b}
  OBVIOUS
<1>w. \A e \in MapBlocks : Extends(s.blocks[e], w[e])
  OBVIOUS
<1>b. s.blocks[b].base # 0
  OBVIOUS
<1> HIDE DEF u, q, o, x, w, s
<1>3. /\ t \in Snapshots /\ t.state = s.state /\ t.high_water = s.high_water
      /\ t.retired = u /\ t.quarantine = q /\ t.open = o
      /\ t.pending = NoBlock /\ t.blocks = x
  BY <1>0, <1>1 DEF Snapshots
<1> HIDE DEF t
<1>4. ASSUME NEW c, Stamped(s, t, c) PROVE Syntax(c) /\ Transition(s, c)
  <2>1. /\ Stamped(s, c, c) /\ c.high_water = s.high_water /\ c.pending = NoBlock
        /\ c.retired = u /\ c.quarantine = q
        /\ c.open = o /\ c.state = s.state /\ c.blocks = x
    BY <1>3, <1>4, StampedBody
  <2>2. u \subseteq q /\ o \cap q = {} /\ s.retired \subseteq u /\ s.quarantine \subseteq q /\ o \subseteq s.open
    BY <1>0, <1>x DEF Syntax
  <2>3. ASSUME NEW e \in MapBlocks PROVE Extends(s.blocks[e], x[e])
    <3>1. /\ x[e].base = s.blocks[e].base /\ x[e].seq = s.blocks[e].seq
          /\ x[e].valid = s.blocks[e].valid /\ s.blocks[e] \in Ranges
          /\ Extends(s.blocks[e], s.blocks[e]) /\ Extends(s.blocks[e], w[e]) /\ w[e] \in Ranges
      BY <1>0, <1>1, <1>w, ExtendsItself
    <3>2. CASE e # b
      <4>1. x[e] = s.blocks[e]
        <5>1. s.blocks \in [MapBlocks -> Ranges]
          BY <1>0, SnapshotFields
        <5> QED
          BY <1>x, <3>2, <5>1
      <4> QED
        BY <3>1, <4>1
    <3>3. CASE e = b
      <4>1. x[e].consumed = w[e].consumed /\ x[e].base # 0
        BY <1>1, <1>b, <3>1, <3>3
      <4> QED
        BY <3>1, <4>1 DEF Extends
    <3> QED
      BY <3>2, <3>3
  <2>4. \A e \in o : x[e].consumed < PagesPerBlock
    <3>1. \A e \in o : e \in MapBlocks /\ e # b /\ e \in s.open /\ BlockSyntax(s, e)
      BY <1>0, <1>x, SnapshotFields DEF Syntax
    <3> QED
      BY <1>1, <3>1 DEF BlockSyntax
  <2> QED
    BY <1>0, <2>1, <2>2, <2>3, <2>4, Growth
<1> QED
  BY <1>1, <1>2, <1>3, <1>4, <1>x DEF s, w

(* Reserving leases for a block may follow a root with no erase pending.   *)
LEMMA ReservedFollows ==
  ASSUME j.current \in Snapshots, Syntax(j.current), j.current.pending = NoBlock,
         NEW b \in MapBlocks, b \notin j.current.retired,
         j.current.high_water <= MaxLease - (PagesPerBlock + 1)
  PROVE  /\ Reserved(b) \in Snapshots /\ Reserved(b).pending = b
         /\ Reserved(b).retired = j.current.retired
         /\ Reserved(b).high_water = j.current.high_water + 1 + PagesPerBlock
         /\ Reserved(b).blocks = [j.current.blocks EXCEPT ![b] = Range0(j.current)]
         /\ \A c : Stamped(j.current, Reserved(b), c) => Syntax(c) /\ Transition(j.current, c)
<1> DEFINE s == j.current
           h == s.high_water + 1 + PagesPerBlock
           q == s.quarantine \cup {b}
           o == s.open \ {b}
           x == [s.blocks EXCEPT ![b] = Range0(s)]
           t == [s EXCEPT !.high_water = h, !.pending = b, !.quarantine = q, !.open = o,
                          !.blocks = x]
<1>0. s \in Snapshots /\ Syntax(s) /\ s.pending = NoBlock /\ b \notin s.retired
      /\ s.high_water <= MaxLease - (PagesPerBlock + 1)
  OBVIOUS
<1>1. /\ h \in 0..MaxLease /\ q \subseteq MapBlocks /\ o \subseteq MapBlocks
      /\ x \in [MapBlocks -> Ranges]
  BY SnapshotFields, ReservedRange, GeometryAssumption, LimitAssumption
<1>2. Reserved(b) = t
  BY DEF Reserved, Range0
<1>x. h = s.high_water + 1 + PagesPerBlock /\ q = s.quarantine \cup {b} /\ o = s.open \ {b}
      /\ x = [s.blocks EXCEPT ![b] = Range0(s)]
  OBVIOUS
<1> HIDE DEF h, q, o, x, s
<1>3. /\ t \in Snapshots /\ t.state = s.state /\ t.high_water = h
      /\ t.retired = s.retired /\ t.quarantine = q /\ t.open = o
      /\ t.pending = b /\ t.blocks = x
  BY <1>0, <1>1 DEF Snapshots
<1> HIDE DEF t
<1>4. ASSUME NEW c, Stamped(s, t, c) PROVE Syntax(c) /\ Transition(s, c)
  <2>1. /\ Stamped(s, c, c) /\ c.high_water = h /\ c.pending = b
        /\ c.retired = s.retired /\ c.quarantine = q
        /\ c.open = o /\ c.state = s.state /\ c.blocks = x
    BY <1>3, <1>4, StampedBody
  <2> QED
    BY <1>0, <1>x, <2>1, Reservation
<1> QED
  BY <1>2, <1>3, <1>4, <1>x DEF s

(* Opening the erased block may follow while its erase is pending.         *)
LEMMA ResolvedFollows ==
  ASSUME j.current \in Snapshots, Syntax(j.current),
         NEW b \in MapBlocks, j.current.pending = b, j.current.blocks[b].base # 0
  PROVE  /\ Resolved(b) \in Snapshots /\ Resolved(b).pending = NoBlock
         /\ Resolved(b).retired = j.current.retired
         /\ \A e \in MapBlocks :
              /\ Resolved(b).blocks[e].base = j.current.blocks[e].base
              /\ Resolved(b).blocks[e].seq = j.current.blocks[e].seq
              /\ Resolved(b).blocks[e].valid = j.current.blocks[e].valid
              /\ Resolved(b).blocks[e].consumed =
                   IF e = b THEN 0 ELSE j.current.blocks[e].consumed
         /\ \A c : Stamped(j.current, Resolved(b), c) => Syntax(c) /\ Transition(j.current, c)
<1> DEFINE s == j.current
           q == s.quarantine \ {b}
           o == s.open \cup {b}
           x == [s.blocks EXCEPT ![b].consumed = 0]
           t == [s EXCEPT !.pending = NoBlock, !.blocks = x, !.quarantine = q, !.open = o]
<1>0. s \in Snapshots /\ Syntax(s) /\ s.pending = b /\ s.blocks[b].base # 0
      /\ s.blocks \in [MapBlocks -> Ranges]
  BY SnapshotFields
<1>1. /\ q \subseteq MapBlocks /\ o \subseteq MapBlocks /\ x \in [MapBlocks -> Ranges]
      /\ \A e \in MapBlocks : /\ x[e].base = s.blocks[e].base /\ x[e].seq = s.blocks[e].seq
                              /\ x[e].valid = s.blocks[e].valid
                              /\ x[e].consumed = IF e = b THEN 0 ELSE s.blocks[e].consumed
  <2>1. q \subseteq MapBlocks /\ o \subseteq MapBlocks
    BY SnapshotFields
  <2> DEFINE f == s.blocks
  <2>2. 0 \in 0..PagesPerBlock /\ f \in [MapBlocks -> Ranges]
    BY <1>0, GeometryAssumption
  <2>3. x = [f EXCEPT ![b].consumed = 0]
    OBVIOUS
  <2> HIDE DEF f, x
  <2>4. /\ [f EXCEPT ![b].consumed = 0] \in [MapBlocks -> Ranges]
        /\ \A e \in MapBlocks :
             /\ [f EXCEPT ![b].consumed = 0][e].base = f[e].base
             /\ [f EXCEPT ![b].consumed = 0][e].seq = f[e].seq
             /\ [f EXCEPT ![b].consumed = 0][e].valid = f[e].valid
             /\ [f EXCEPT ![b].consumed = 0][e].consumed = IF e = b THEN 0 ELSE f[e].consumed
    BY <2>2 DEF Ranges
  <2> QED
    BY <2>1, <2>3, <2>4 DEF f
<1>2. Resolved(b) = t
  BY DEF Resolved
<1>x. q = s.quarantine \ {b} /\ o = s.open \cup {b} /\ x = [s.blocks EXCEPT ![b].consumed = 0]
  OBVIOUS
<1> HIDE DEF q, o, x, s
<1>3. /\ t \in Snapshots /\ t.state = s.state /\ t.high_water = s.high_water
      /\ t.retired = s.retired /\ t.quarantine = q /\ t.open = o
      /\ t.pending = NoBlock /\ t.blocks = x
  BY <1>0, <1>1 DEF Snapshots
<1> HIDE DEF t
<1>4. ASSUME NEW c, Stamped(s, t, c) PROVE Syntax(c) /\ Transition(s, c)
  <2>1. /\ Stamped(s, c, c) /\ c.high_water = s.high_water /\ c.pending = NoBlock
        /\ c.retired = s.retired /\ c.quarantine = q
        /\ c.open = o /\ c.state = s.state /\ c.blocks = x
    BY <1>3, <1>4, StampedBody
  <2> QED
    BY <1>0, <1>x, <2>1, Opening
<1> QED
  BY <1>1, <1>2, <1>3, <1>4 DEF s

(* The first snapshot is well formed.                                      *)
LEMMA GenesisFits ==
  ASSUME boots \in Nat
  PROVE  /\ Genesis \in Snapshots /\ Syntax(Genesis) /\ Genesis.slot = 0 /\ Genesis.bank = 0
         /\ Genesis.blocks = [b \in MapBlocks |-> NoRange] /\ Genesis.pending = NoBlock
         /\ Genesis.retired = {} /\ Genesis.high_water = 0 /\ Genesis.epoch = 1
<1> USE GeometryAssumption, LimitAssumption
<1>1. NoRange \in Ranges /\ NoRange.base = 0 /\ NoRange.valid = {} /\ NoRange.consumed = PagesPerBlock
  BY DEF NoRange, Ranges
<1>2. Genesis \in Snapshots
  <2>1. /\ 1 \in 1..MaxEpoch /\ <<1, boots>> \in (Nat \ {0}) \X Nat /\ NoDigest \in Nat \X Nat
        /\ 0 \in Banks /\ 0 \in BankSlot /\ 0 \in 0..MaxLease /\ {} \subseteq MapBlocks
        /\ [b \in MapBlocks |-> NoRange] \in [MapBlocks -> Ranges]
    BY <1>1 DEF NoDigest, Banks, BankSlot
  <2> QED
    BY <2>1 DEF Genesis, Snapshots
<1>3. /\ Genesis.slot = 0 /\ Genesis.bank = 0 /\ Genesis.blocks = [b \in MapBlocks |-> NoRange]
      /\ Genesis.pending = NoBlock /\ Genesis.retired = {} /\ Genesis.high_water = 0
      /\ Genesis.epoch = 1 /\ Genesis.previous = NoDigest /\ Genesis.state = "PROVISIONING"
      /\ Genesis.quarantine = {} /\ Genesis.open = {}
  BY DEF Genesis
<1>4. \A b \in MapBlocks : BlockSyntax(Genesis, b)
  BY <1>1, <1>3 DEF BlockSyntax
<1>5. Syntax(Genesis)
  BY <1>2, <1>3, <1>4, SnapshotFields DEF Syntax
<1> QED
  BY <1>2, <1>3, <1>5

(* What was kept stays kept when no history shrinks.                       *)
LEMMA KeepsOn ==
  ASSUME NEW K, K \subseteq MapBlocks \X Pages \X Leases, NEW s, NEW c, Keeps(K, s),
         \A x \in K : /\ c.blocks[x[1]].base = s.blocks[x[1]].base
                      /\ s.blocks[x[1]].valid \subseteq c.blocks[x[1]].valid
  PROVE  Keeps(K, c)
BY DEF Keeps

(* A transition keeps what was kept outside the block it takes.            *)
LEMMA KeepsTransition ==
  ASSUME NEW K, K \subseteq MapBlocks \X Pages \X Leases, NEW s, NEW c, Keeps(K, s),
         Transition(s, c), \A x \in K : x[1] # c.pending
  PROVE  Keeps(K, c)
<1>1. \A x \in K : x[1] \in MapBlocks
  OBVIOUS
<1>2. \A x \in K : BlockTransition(s, c, x[1])
  BY <1>1 DEF Transition
<1>3. \A x \in K : /\ c.blocks[x[1]].base = s.blocks[x[1]].base
                   /\ s.blocks[x[1]].valid \subseteq c.blocks[x[1]].valid
  BY <1>2 DEF BlockTransition
<1> QED
  BY <1>3, KeepsOn

-----------------------------------------------------------------------------
(* Steps that several actions share.                                       *)

(* The volume at rest has its types.                                       *)
LEMMA RestTypes ==
  /\ NoJournal \in Journals /\ NoAdapter \in Adapters /\ Idle \in Calls
  /\ NoJournal.booted = FALSE /\ NoJournal.tail_fresh = FALSE /\ Idle.pc = "idle"
<1> USE GeometryAssumption
<1>1. NoRange \in Ranges
  BY DEF NoRange, Ranges
<1>2. [b \in MapBlocks |-> NoRange] \in [MapBlocks -> Ranges]
  BY <1>1
<1>3. NoJournal \in Journals
  BY <1>2 DEF NoJournal, Journals
<1>4. NoAdapter \in Adapters
  BY DEF NoAdapter, Adapters
<1>5. Idle \in Calls /\ Idle.pc = "idle"
  BY DEF Idle, Calls
<1> QED
  BY <1>3, <1>4, <1>5 DEF NoJournal

(* What flash holds does not depend on RAM.                                *)
LEMMA DurableStays ==
  ASSUME TypeInv, DurableInv, phase' = phase, banks' = banks, map' = map, acked' = acked,
         used' = used, kept' \subseteq kept, phase = "ACTIVE" => kept' # {}
  PROVE  DurableInv'
<1>1. CASE NothingSealed(banks) /\ acked = NoRoot /\ kept = {} /\ used = {} /\ phase # "ACTIVE"
  BY <1>1 DEF DurableInv
<1>2. CASE Sound(Boot(banks)) /\ phase # "PREPARED"
  <2>1. Sound(Boot(banks))'
    <3>1. Keeps(kept', Boot(banks))
      BY <1>2 DEF Sound, Keeps
    <3> QED
      BY <1>2, <3>1 DEF Sound, Follows
  <2> QED
    BY <1>2, <2>1 DEF DurableInv
<1> QED
  BY <1>1, <1>2 DEF DurableInv

(* A fence leaves the volume at rest.                                      *)
LEMMA FenceStep ==
  ASSUME Fenced, DurableInv', phase' = phase, latched' \in BOOLEAN, banks' \in BankPairs,
         map' \in [MapBlocks -> [Pages -> {Blank, Garbage} \cup Leases]],
         used' \subseteq Leases, acked' \in {acked} \cup Snapshots, kept' \subseteq kept, boots' = boots, TypeInv
  PROVE  OwnedInv'
<1>1. vol' = "FENCED" /\ j' = NoJournal /\ d' = NoAdapter /\ op' = Idle
  BY DEF Fenced
<1>2. TypeInv'
  BY <1>1, RestTypes DEF TypeInv, BankPairs
<1>3. ~Publishing' /\ op'.pc = "idle" /\ j'.booted = FALSE
  BY <1>1, RestTypes DEF Publishing
<1>4. ModeInv'
  BY <1>1, <1>3 DEF ModeInv
<1> QED
  BY <1>2, <1>3, <1>4 DEF OwnedInv

(* The kinds of calls.                                                     *)
LEMMA CallKinds ==
  ASSUME op \in Calls
  PROVE  /\ op.pc \in {"idle", "advance", "lease", "mutate", "resolve", "retire",
                       "encode", "program", "verify", "erase"}
         /\ op.pc = "idle" => op = Idle
         /\ Publishing => op.cand \in Snapshots /\ op.then \in Thens
         /\ op.pc = "erase" => op.todo \in {<<0>>, <<1>>, <<1, 0>>}
         /\ op.pc \in {"encode", "program", "verify"} =>
              op \in [pc : {"encode", "program", "verify"}, cand : Snapshots, then : Thens]
<1>1. CASE op \in [pc : {"idle", "advance", "lease", "mutate", "resolve", "retire"}]
  BY <1>1 DEF Publishing, Idle
<1>2. CASE op \in [pc : {"encode", "program", "verify"}, cand : Snapshots, then : Thens]
  BY <1>2 DEF Publishing
<1>3. CASE op \in [pc : {"erase"}, todo : {<<0>>, <<1>>, <<1, 0>>}, cand : Snapshots,
                   then : Thens]
  BY <1>3 DEF Publishing
<1> QED
  BY <1>1, <1>2, <1>3 DEF Calls

(* The start of a publish, with a candidate that may follow the root.      *)
LEMMA PublishStep ==
  ASSUME OwnedInv, j.booted, NEW s \in Snapshots, NEW then \in Thens, then # "provision",
         Publish(s, then), UNCHANGED <<durable, boots, used, acked>>,
         kept' \subseteq kept, phase = "ACTIVE" \/ then = "activate" => kept' # {},
         \/ op.pc = "idle" /\ then \notin {"resolve", "retire"}
         \/ op.pc = "resolve" /\ then = "resolve" /\ j.inflight.kind = "erase"
         \/ op.pc = "retire" /\ then = "retire",
         ASSUME NEW c, Stamped(j.current, s, c),
                op' = [pc |-> "encode", cand |-> c, then |-> then],
                j' = j, d' = d, vol' = vol
         PROVE  /\ Syntax(c) /\ Transition(j.current, c)
                /\ Holds(map, c) /\ Keeps(kept', c) /\ IntentInv(c)'
  PROVE  OwnedInv'
<1> USE DEF durable
<1>0. /\ TypeInv /\ DurableInv /\ ModeInv /\ RootInv /\ HistoryInv /\ LeaseInv /\ AdapterInv
  BY DEF OwnedInv, LiveInv
<1>1. DurableInv'
  BY <1>0, DurableStays
<1>2. CASE j.current.epoch = MaxEpoch
  <2>1. Fenced
    BY <1>2 DEF Publish
  <2> QED
    BY <1>0, <1>1, <2>1, FenceStep DEF TypeInv, BankPairs
<1>3. CASE j.current.epoch # MaxEpoch
  <2>0. PICK c : c = Candidate(s)
    OBVIOUS
  <2>1. op' = [pc |-> "encode", cand |-> c, then |-> then] /\ vol' = vol /\ j' = j /\ d' = d
    BY <1>3, <2>0 DEF Publish
  <2>2. /\ Stamped(j.current, s, c)
        /\ c.bank = j.current.bank => j.tail_fresh /\ c.slot = j.next_slot
    BY <1>0, <1>3, <2>0, CandidateStamped DEF RootInv, TypeInv
  <2>3. /\ Syntax(c) /\ Transition(j.current, c) /\ Holds(map, c) /\ Keeps(kept', c)
        /\ IntentInv(c)'
    BY <2>1, <2>2
  <2>4. c \in Snapshots
    BY <2>2 DEF Stamped
  <2>5. op' \in Calls /\ op'.pc = "encode" /\ op'.cand = c /\ op'.then = then /\ Publishing'
    BY <2>1, <2>4 DEF Calls, Publishing
  <2>6. TypeInv'
    BY <1>0, <2>1, <2>5 DEF TypeInv
  <2>7. ModeInv'
    <3>1. ~(Publishing /\ op.then = "provision")
      BY <1>0 DEF ModeInv
    <3> QED
      BY <1>0, <2>1, <2>5, <3>1 DEF ModeInv
  <2>8. op.pc # "verify" /\ ~Publishing
    BY DEF Publishing
  <2>9. RootInv'
    BY <1>0, <2>1, <2>5, <2>8 DEF RootInv
  <2>10. HistoryInv'
    BY <1>0, <2>1 DEF HistoryInv, FreshInv
  <2>11. LeaseInv'
    <3>1. CASE then \notin {"resolve", "retire"}
      <4>1. ~Holding /\ ~Holding'
        BY <2>5, <2>8, <3>1 DEF Holding
      <4> QED
        BY <1>0, <2>1, <4>1 DEF LeaseInv
    <3>2. CASE then \in {"resolve", "retire"}
      <4>1. Holding
        BY <3>2 DEF Holding
      <4> DEFINE l == j.inflight
      <4>2. l.kind = "erase" => EraseInv(l)'
        BY <1>0, <2>1, <2>5, <2>8, <3>2, <4>1 DEF LeaseInv, EraseInv
      <4>3. l.kind = "program" => ProgramInv(l)'
        BY <1>0, <2>1, <2>5, <2>8, <3>2, <4>1 DEF LeaseInv, ProgramInv
      <4>4. op'.then = "resolve" => l.kind = "erase"
        BY <2>5, <3>2
      <4>5. Holding'
        BY <2>5, <3>2 DEF Holding
      <4> QED
        BY <1>0, <2>1, <4>1, <4>2, <4>3, <4>4, <4>5 DEF LeaseInv
    <3> QED
      BY <3>1, <3>2
  <2>12. AdapterInv'
    BY <1>0, <2>1, <2>5 DEF AdapterInv
  <2>13. PublishInv'
    BY <2>1, <2>2, <2>3, <2>5 DEF PublishInv
  <2>14. (Publishing /\ op.then = "activate") \/ op.pc = "advance" => kept # {} 
    BY <1>0 DEF OwnedInv
  <2>15. ((Publishing /\ op.then = "activate") \/ op.pc = "advance" => kept # {})'
    BY <2>5
  <2> QED
    BY <1>1, <2>1, <2>6, <2>7, <2>9, <2>10, <2>11, <2>12, <2>13, <2>15 DEF OwnedInv, LiveInv
<1> QED
  BY <1>2, <1>3

-----------------------------------------------------------------------------
(* The publishes.                                                          *)

(* Unless a snapshot is being verified, the journal in RAM is the root.    *)
LEMMA RootSound ==
  ASSUME OwnedInv, j.booted, op.pc # "verify"
  PROVE  /\ Sound(j.current) /\ Boot(banks) = j.current /\ phase # "PREPARED"
         /\ TypeInv /\ DurableInv /\ ModeInv /\ RootInv /\ HistoryInv /\ LeaseInv /\ AdapterInv
         /\ j.current \in Snapshots /\ Syntax(j.current) /\ banks \in BankPairs
<1>1. TypeInv /\ DurableInv /\ ModeInv /\ RootInv /\ HistoryInv /\ LeaseInv /\ AdapterInv
  BY DEF OwnedInv, LiveInv
<1>2. Boot(banks) = j.current /\ j.current \in Snapshots /\ Syntax(j.current)
  BY <1>1 DEF RootInv
<1>3. ~NothingSealed(banks)
  BY <1>2, BootsNothing
<1> QED
  BY <1>1, <1>2, <1>3 DEF DurableInv, TypeInv, BankPairs

(* A snapshot of the histories in RAM, or of parts of them, is held.       *)
LEMMA HoldsWorking ==
  ASSUME HistoryInv, NEW c,
         \A b \in MapBlocks : /\ c.blocks[b].base = j.working[b].base
                              /\ c.blocks[b].valid \subseteq j.working[b].valid
  PROVE  Holds(map, c)
BY DEF HistoryInv, Holds

(* RecoveryCommit: the reconciled snapshot of a recovered first format may *)
(* follow its root.                                                        *)
LEMMA RecoveryCommitStep ==
  ASSUME OwnedInv, RecoveryCommit
  PROVE  OwnedInv'
<1>1. /\ vol = "PROVISIONING" /\ op = Idle /\ j.booted /\ ~j.reconciled
      /\ Publish(Reconciled(j.current), "recover") /\ UNCHANGED <<durable, history>>
  BY DEF RecoveryCommit
<1>2. op.pc = "idle"
  BY <1>1, RestTypes
<1> DEFINE s == Reconciled(j.current)
<1>3. /\ s \in Snapshots /\ s.blocks = j.current.blocks
      /\ \A c : Stamped(j.current, s, c) => Syntax(c) /\ Transition(j.current, c)
  BY <1>1, <1>2, RootSound, ReconciledFollows
<1> HIDE DEF s
<1>4. ASSUME NEW c, Stamped(j.current, s, c),
             op' = [pc |-> "encode", cand |-> c, then |-> "recover"],
             j' = j, d' = d, vol' = vol
      PROVE  /\ Syntax(c) /\ Transition(j.current, c)
             /\ Holds(map, c) /\ Keeps(kept', c) /\ IntentInv(c)'
  <2>1. c.blocks = j.current.blocks
    BY <1>3, <1>4, StampedBody
  <2>2. Holds(map, c) /\ Keeps(kept', c)
    BY <1>1, <1>2, <2>1, RootSound DEF Sound, Holds, Keeps, history
  <2>3. Body(c) = Body(Reconciled(j'.current))
    BY <1>4 DEF Stamped, s
  <2>4. IntentInv(c)'
    BY <1>1, <1>4, <2>3 DEF IntentInv
  <2> QED
    BY <1>3, <1>4, <2>2, <2>4
<1>5. phase = "ACTIVE" => kept # {}
  BY DEF OwnedInv, DurableInv
<1>6. Publish(s, "recover") /\ "recover" \in Thens
  BY <1>1 DEF s, Thens
<1> QED
  BY <1>1, <1>2, <1>3, <1>4, <1>5, <1>6, PublishStep DEF history

(* Grant, the first of a boot: the reconciled snapshot may follow the      *)
(* root.                                                                   *)
LEMMA GrantPublishes ==
  ASSUME OwnedInv, Grant, ~j.reconciled
  PROVE  OwnedInv'
<1>1. /\ vol = "READ_ONLY" /\ op = Idle
      /\ Publish(Reconciled(j.current), "reconcile") /\ UNCHANGED <<durable, history>>
  BY DEF Grant
<1>2. op.pc = "idle" /\ ~Publishing
  BY <1>1, RestTypes DEF Publishing
<1>0. j.booted
  BY <1>1, <1>2 DEF OwnedInv, ModeInv
<1> DEFINE s == Reconciled(j.current)
<1>3. /\ s \in Snapshots /\ s.blocks = j.current.blocks
      /\ \A c : Stamped(j.current, s, c) => Syntax(c) /\ Transition(j.current, c)
  BY <1>0, <1>1, <1>2, RootSound, ReconciledFollows
<1> HIDE DEF s
<1>4. ASSUME NEW c, Stamped(j.current, s, c),
             op' = [pc |-> "encode", cand |-> c, then |-> "reconcile"],
             j' = j, d' = d, vol' = vol
      PROVE  /\ Syntax(c) /\ Transition(j.current, c)
             /\ Holds(map, c) /\ Keeps(kept', c) /\ IntentInv(c)'
  <2>1. c.blocks = j.current.blocks
    BY <1>3, <1>4, StampedBody
  <2>2. Holds(map, c) /\ Keeps(kept', c)
    BY <1>0, <1>1, <1>2, <2>1, RootSound DEF Sound, Holds, Keeps, history
  <2>3. Body(c) = Body(Reconciled(j'.current))
    BY <1>4 DEF Stamped, s
  <2>4. IntentInv(c)'
    BY <1>1, <1>4, <2>3 DEF IntentInv
  <2> QED
    BY <1>3, <1>4, <2>2, <2>4
<1>5. phase = "ACTIVE" => kept # {}
  BY DEF OwnedInv, DurableInv
<1>6. Publish(s, "reconcile") /\ "reconcile" \in Thens
  BY <1>1 DEF s, Thens
<1> QED
  BY <1>0, <1>1, <1>2, <1>3, <1>4, <1>5, <1>6, PublishStep DEF history

(* With a writable map and no lease in flight, no erase is pending.        *)
LEMMA NothingPending ==
  ASSUME OwnedInv, op.pc = "idle", d.writable \/ d.ready
  PROVE  /\ j.booted /\ (j.reconciled => j.current.pending = NoBlock) /\ j.inflight = NoLease
         /\ (d.writable => j.reconciled)
<1>1. ~Publishing /\ ~Holding
  BY DEF Publishing, Holding
<1>2. j.booted
  BY <1>1 DEF OwnedInv, ModeInv, NoAdapter
<1>3. j.inflight = NoLease /\ NoLease.kind # "erase"
  BY <1>1, <1>2 DEF OwnedInv, LiveInv, LeaseInv, NoLease
<1> QED
  BY <1>2, <1>3 DEF OwnedInv, LiveInv, AdapterInv

(* Activate: only the state changes, so the snapshot may follow the root;  *)
(* something is kept already.                                              *)
LEMMA ActivateStep ==
  ASSUME OwnedInv, Activate
  PROVE  OwnedInv'
<1> DEFINE s == [j.current EXCEPT !.state = "ACTIVE"]
<1>1. /\ vol = "PROVISIONING" /\ op = Idle /\ d.ready /\ kept # {}
      /\ Publish(s, "activate") /\ UNCHANGED <<durable, history>>
  BY DEF Activate
<1>2. op.pc = "idle"
  BY <1>1, RestTypes
<1>0. j.booted
  BY <1>1, <1>2, NothingPending
<1>w. d.writable /\ j.reconciled /\ j.current.pending = NoBlock
  BY <1>0, <1>1, <1>2, NothingPending DEF OwnedInv, LiveInv, AdapterInv
<1>3. /\ s \in Snapshots /\ s.blocks = j.current.blocks
      /\ \A c : Stamped(j.current, s, c) => Syntax(c) /\ Transition(j.current, c)
  BY <1>0, <1>2, <1>w, RootSound, ActivatedFollows
<1>4. ASSUME NEW c, Stamped(j.current, s, c),
             op' = [pc |-> "encode", cand |-> c, then |-> "activate"],
             j' = j, d' = d, vol' = vol
      PROVE  /\ Syntax(c) /\ Transition(j.current, c)
             /\ Holds(map, c) /\ Keeps(kept', c) /\ IntentInv(c)'
  <2>3. Body(c) = Body([j'.current EXCEPT !.state = "ACTIVE"])
    BY <1>4 DEF Stamped
  <2> HIDE DEF s
  <2>1. c.blocks = j.current.blocks
    BY <1>3, <1>4, StampedBody
  <2>2. Holds(map, c) /\ Keeps(kept', c)
    BY <1>0, <1>1, <1>2, <2>1, RootSound DEF Sound, Holds, Keeps, history
  <2>4. IntentInv(c)'
    BY <1>1, <1>4, <1>w, <2>3 DEF IntentInv
  <2> QED
    BY <1>3, <1>4, <2>2, <2>4
<1> HIDE DEF s
<1>6. "activate" \in Thens
  BY DEF Thens
<1> QED
  BY <1>0, <1>1, <1>2, <1>3, <1>4, <1>6, PublishStep DEF history

(* A sync, on its own or before a suspend, publishes the histories in RAM. *)
LEMMA SyncPublishes ==
  ASSUME OwnedInv, op.pc = "idle", d.writable, NEW then \in {"sync", "suspend"},
         Publish(Synced, then), UNCHANGED <<durable, history>>,
         then = "suspend" => vol = "WRITABLE"
  PROVE  OwnedInv'
<1>0. j.booted /\ j.reconciled /\ j.current.pending = NoBlock
  BY NothingPending
<1>1. TypeInv /\ HistoryInv /\ Sound(j.current) /\ j.current \in Snapshots /\ Syntax(j.current)
  BY <1>0, RootSound
<1>2. /\ Synced \in Snapshots /\ Synced.blocks = j.working
      /\ \A c : Stamped(j.current, Synced, c) => Syntax(c) /\ Transition(j.current, c)
      /\ Synced.pending = NoBlock
  <2>1. j.working \in [MapBlocks -> Ranges]
    BY <1>1 DEF TypeInv, Journals
  <2> QED
    BY <1>0, <1>1, <2>1, SyncedFollows DEF HistoryInv
<1>4. ASSUME NEW c, Stamped(j.current, Synced, c),
             op' = [pc |-> "encode", cand |-> c, then |-> then],
             j' = j, d' = d, vol' = vol
      PROVE  /\ Syntax(c) /\ Transition(j.current, c)
             /\ Holds(map, c) /\ Keeps(kept', c) /\ IntentInv(c)'
  <2>1. c.blocks = j.working /\ c.pending = NoBlock
    BY <1>2, <1>4, StampedBody
  <2>2. Holds(map, c)
    BY <1>1, <2>1, HoldsWorking
  <2>3. Keeps(kept', c)
    <3>1. kept' = kept /\ kept \subseteq MapBlocks \X Pages \X Leases /\ Keeps(kept, j.current)
      BY <1>1 DEF TypeInv, Sound, history
    <3>2. \A x \in kept : x[1] # c.pending
      BY <2>1, <3>1, BlockNumbers
    <3> QED
      BY <1>2, <1>4, <3>1, <3>2, KeepsTransition
  <2>4. Body(c) = Body(Synced) /\ Synced' = Synced
    BY <1>4 DEF Stamped, Synced
  <2>5. IntentInv(c)'
    <3>1. op'.then = then
      BY <1>4
    <3>2. Body(c) = Body(Synced')
      BY <2>4
    <3> QED
      BY <1>0, <1>4, <3>1, <3>2 DEF IntentInv
  <2> QED
    BY <1>2, <1>4, <2>2, <2>3, <2>5
<1>5. phase = "ACTIVE" => kept # {}
  BY DEF OwnedInv, DurableInv
<1>6. then \in Thens /\ then # "provision" /\ then \notin {"resolve", "retire", "activate"}
  BY DEF Thens
<1> QED
  BY <1>0, <1>2, <1>4, <1>5, <1>6, PublishStep DEF history

(* No block is recycled that holds the only checkpoint of an active volume.*)
LEMMA RecycledBlock ==
  ASSUME OwnedInv, MayMutate, NEW b \in MapBlocks, Recyclable(b)
  PROVE  /\ op.pc = "idle" /\ j.booted /\ b \notin j.current.retired
         /\ phase = "ACTIVE" => {x \in kept : x[1] # b} # {}
<1>1. op.pc = "idle" /\ d.writable
  BY RestTypes DEF MayMutate
<1>2. j.booted
  BY <1>1, NothingPending
<1>3. AdapterInv /\ d \in Adapters
  BY <1>2 DEF OwnedInv, LiveInv, TypeInv
<1>4. CASE d.format # {}
  <2>1. b = Min(d.format) /\ vol = "PROVISIONING"
    BY <1>3, <1>4 DEF Recyclable, AdapterInv
  <2>2. phase # "ACTIVE"
    BY <2>1 DEF OwnedInv, ModeInv
  <2>3. Min(d.format) \in d.format
    <3>1. d.format \subseteq Nat
      BY <1>3, GeometryAssumption DEF Adapters
    <3>2. \E n \in d.format : \A m \in d.format : n <= m
      BY <1>4, <3>1, LeastOf
    <3> QED
      BY <3>2 DEF Min
  <2> QED
    BY <1>1, <1>2, <1>3, <2>1, <2>2, <2>3 DEF AdapterInv
<1>5. CASE d.format = {}
  BY <1>1, <1>2, <1>3, <1>5 DEF Recyclable, AdapterInv
<1> QED
  BY <1>4, <1>5

(* AcquireErase: the snapshot that reserves a range of leases may follow   *)
(* the root, and nothing kept is in the block.                             *)
LEMMA AcquireEraseStep ==
  ASSUME OwnedInv, NEW b \in MapBlocks, AcquireErase(b)
  PROVE  OwnedInv'
<1>1. /\ MayMutate /\ Recyclable(b) /\ kept' = {x \in kept : x[1] # b}
      /\ UNCHANGED <<durable, boots, used, acked>>
  BY DEF AcquireErase
<1>2. /\ op.pc = "idle" /\ j.booted /\ b \notin j.current.retired
      /\ phase = "ACTIVE" => kept' # {}
  BY <1>1, RecycledBlock
<1>3. kept' \subseteq kept
  BY <1>1
<1>4. TypeInv /\ DurableInv /\ HistoryInv /\ Sound(j.current) /\ j.current \in Snapshots
      /\ Syntax(j.current)
  BY <1>2, RootSound
<1>5. j.reconciled /\ d.writable /\ j.current.pending = NoBlock
  BY <1>1, <1>2, NothingPending DEF MayMutate
<1>6. CASE j.current.high_water > MaxLease - (PagesPerBlock + 1)
  <2>1. Fenced
    BY <1>6 DEF AcquireErase
  <2>2. DurableInv'
    BY <1>1, <1>2, <1>3, <1>4, DurableStays DEF durable
  <2> QED
    BY <1>1, <1>3, <1>4, <2>1, <2>2, FenceStep DEF TypeInv, BankPairs, durable
<1>7. CASE ~(j.current.high_water > MaxLease - (PagesPerBlock + 1))
  <2>1. Publish(Reserved(b), "acquire")
    BY <1>7 DEF AcquireErase
  <2>2. j.current.high_water <= MaxLease - (PagesPerBlock + 1)
    BY <1>4, <1>7, SnapshotFields, GeometryAssumption, LimitAssumption
  <2>3. /\ Reserved(b) \in Snapshots /\ Reserved(b).pending = b
        /\ Reserved(b).blocks = [j.current.blocks EXCEPT ![b] = Range0(j.current)]
        /\ \A c : Stamped(j.current, Reserved(b), c) => Syntax(c) /\ Transition(j.current, c)
    BY <1>2, <1>4, <1>5, <2>2, ReservedFollows
  <2>4. ASSUME NEW c, Stamped(j.current, Reserved(b), c),
               op' = [pc |-> "encode", cand |-> c, then |-> "acquire"],
               j' = j, d' = d, vol' = vol
        PROVE  /\ Syntax(c) /\ Transition(j.current, c)
               /\ Holds(map, c) /\ Keeps(kept', c) /\ IntentInv(c)'
    <3>1. c.blocks = [j.current.blocks EXCEPT ![b] = Range0(j.current)] /\ c.pending = b
      BY <2>3, <2>4, StampedBody
    <3>2. Holds(map, c)
      <4>1. c.blocks[b].valid = {} /\ \A e \in MapBlocks \ {b} : c.blocks[e] = j.current.blocks[e]
        BY <1>4, <3>1, ReservedRange, SnapshotFields
      <4> QED
        BY <1>4, <4>1 DEF Sound, Holds
    <3>3. Keeps(kept', c)
      <4>1. kept' \subseteq MapBlocks \X Pages \X Leases /\ Keeps(kept', j.current)
        BY <1>3, <1>4 DEF TypeInv, Sound, Keeps
      <4>2. \A x \in kept' : x[1] # c.pending
        BY <1>1, <3>1
      <4> QED
        BY <2>3, <2>4, <4>1, <4>2, KeepsTransition
    <3>4. Reserved(b)' = Reserved(b)
      BY <2>4 DEF Reserved
    <3>5. Body(c) = Body(Reserved(b))
      BY <2>4 DEF Stamped
    <3>6. c.epoch = j.current.epoch + 1
      BY <2>4 DEF Stamped
    <3>7. IntentInv(c)'
      <4>1. op'.then = "acquire"
        BY <2>4
      <4>2. c.pending \in MapBlocks \ j'.current.retired /\ \A x \in kept' : x[1] # c.pending
        BY <1>1, <1>2, <2>4, <3>1
      <4>3. Body(c) = Body(Reserved(c.pending)')
        BY <3>1, <3>4, <3>5
      <4> QED
        BY <1>5, <2>4, <3>6, <4>1, <4>2, <4>3 DEF IntentInv
    <3> QED
      BY <2>3, <2>4, <3>2, <3>3, <3>7
  <2>5. "acquire" \in Thens
    BY DEF Thens
  <2> QED
    BY <1>1, <1>2, <1>3, <2>1, <2>3, <2>4, <2>5, PublishStep
<1> QED
  BY <1>6, <1>7

(* While a lease is in flight the volume is booted and the block is known. *)
LEMMA InFlight ==
  ASSUME OwnedInv, Holding, op.pc # "verify" \/ op.then # "provision"
  PROVE  /\ j.booted /\ j.inflight \in LeaseRecords /\ j.reconciled /\ d.writable
         /\ j.inflight.slot \in MapBlocks /\ j.inflight.slot \notin j.current.retired
         /\ j.inflight.base # 0 /\ j.inflight.base = j.working[j.inflight.slot].base
         /\ j.inflight.base = j.current.blocks[j.inflight.slot].base
         /\ j.inflight.sequence = j.current.epoch
         /\ j.current.pending = IF j.inflight.kind = "erase" THEN j.inflight.slot ELSE NoBlock
<1>1. op.pc # "idle" /\ ~(Publishing /\ op.then = "provision")
  BY DEF Holding, Publishing
<1>2. j.booted
  BY <1>1, RestTypes DEF OwnedInv, ModeInv, ProvisionInv, Publishing, Holding
<1>3. LeaseInv /\ AdapterInv /\ HistoryInv
  BY <1>2 DEF OwnedInv, LiveInv
<1>4. j.inflight \in LeaseRecords /\ j.inflight.slot \in MapBlocks
  BY <1>3 DEF LeaseInv, LeaseRecords
<1> QED
  BY <1>2, <1>3, <1>4 DEF LeaseInv, AdapterInv, HistoryInv, Extends

(* A snapshot with the valid pages of the root is held and keeps.          *)
LEMMA SamePages ==
  ASSUME TypeInv, Sound(j.current), NEW c, Transition(j.current, c), c.pending = NoBlock,
         \A b \in MapBlocks : /\ c.blocks[b].base = j.current.blocks[b].base
                              /\ c.blocks[b].valid = j.current.blocks[b].valid
  PROVE  Holds(map, c) /\ Keeps(kept, c)
<1>1. Holds(map, c)
  BY DEF Sound, Holds
<1>2. kept \subseteq MapBlocks \X Pages \X Leases /\ Keeps(kept, j.current)
  BY DEF TypeInv, Sound
<1>3. \A x \in kept : x[1] # c.pending
  BY <1>2, BlockNumbers
<1> QED
  BY <1>1, <1>2, <1>3, KeepsTransition

(* ResolveErase: the snapshot that opens the erased block may follow the   *)
(* root.                                                                   *)
LEMMA ResolveEraseStep ==
  ASSUME OwnedInv, ResolveErase
  PROVE  OwnedInv'
<1> DEFINE b == j.inflight.slot
<1>1. /\ op.pc = "resolve" /\ j.inflight.kind = "erase"
      /\ Publish(Resolved(b), "resolve") /\ UNCHANGED <<durable, history>>
  BY DEF ResolveErase, Resolved
<1>2. Holding
  BY <1>1 DEF Holding
<1>3. /\ j.booted /\ b \in MapBlocks /\ j.current.pending = b /\ j.current.blocks[b].base # 0
      /\ j.reconciled /\ d.writable
  BY <1>1, <1>2, InFlight
<1>4. TypeInv /\ Sound(j.current) /\ j.current \in Snapshots /\ Syntax(j.current)
  BY <1>1, <1>3, RootSound
<1>5. /\ Resolved(b) \in Snapshots /\ Resolved(b).pending = NoBlock
      /\ \A e \in MapBlocks : /\ Resolved(b).blocks[e].base = j.current.blocks[e].base
                              /\ Resolved(b).blocks[e].valid = j.current.blocks[e].valid
      /\ \A c : Stamped(j.current, Resolved(b), c) => Syntax(c) /\ Transition(j.current, c)
  BY <1>3, <1>4, ResolvedFollows
<1>6. ASSUME NEW c, Stamped(j.current, Resolved(b), c),
             op' = [pc |-> "encode", cand |-> c, then |-> "resolve"],
             j' = j, d' = d, vol' = vol
      PROVE  /\ Syntax(c) /\ Transition(j.current, c)
             /\ Holds(map, c) /\ Keeps(kept', c) /\ IntentInv(c)'
  <2>1. c.blocks = Resolved(b).blocks /\ c.pending = NoBlock
    BY <1>5, <1>6, StampedBody
  <2>2. Holds(map, c) /\ Keeps(kept, c)
    BY <1>4, <1>5, <1>6, <2>1, SamePages
  <2>3. kept' = kept
    BY <1>1 DEF history
  <2>4. Resolved(b)' = Resolved(b)
    BY <1>6 DEF Resolved
  <2>5. IntentInv(c)'
    <3>1. op'.then = "resolve" /\ Body(c) = Body(Resolved(b))
      BY <1>6 DEF Stamped
    <3>2. Body(c) = Body(Resolved(j.inflight.slot)')
      BY <2>4, <3>1
    <3> QED
      BY <1>3, <1>6, <3>1, <3>2 DEF IntentInv
  <2> QED
    BY <1>5, <1>6, <2>2, <2>3, <2>5
<1>7. phase = "ACTIVE" => kept # {}
  BY DEF OwnedInv, DurableInv
<1>8. "resolve" \in Thens
  BY DEF Thens
<1> HIDE DEF b
<1> QED
  BY <1>1, <1>3, <1>5, <1>6, <1>7, <1>8, PublishStep DEF history

(* Retire: the snapshot that excludes the failed block may follow the      *)
(* root.                                                                   *)
LEMMA RetireStep ==
  ASSUME OwnedInv, Retire
  PROVE  OwnedInv'
<1> DEFINE b == j.inflight.slot
<1>1. /\ op.pc = "retire" /\ Publish(Excluded(b), "retire") /\ UNCHANGED <<durable, history>>
  BY DEF Retire, Excluded
<1>2. Holding
  BY <1>1 DEF Holding
<1>3. /\ j.booted /\ b \in MapBlocks /\ j.current.blocks[b].base # 0
      /\ j.reconciled /\ d.writable
  BY <1>1, <1>2, InFlight
<1>4. TypeInv /\ Sound(j.current) /\ j.current \in Snapshots /\ Syntax(j.current) /\ HistoryInv
  BY <1>1, <1>3, RootSound
<1>5. /\ Excluded(b) \in Snapshots /\ Excluded(b).pending = NoBlock
      /\ \A e \in MapBlocks : /\ Excluded(b).blocks[e].base = j.current.blocks[e].base
                              /\ Excluded(b).blocks[e].valid = j.current.blocks[e].valid
      /\ \A c : Stamped(j.current, Excluded(b), c) => Syntax(c) /\ Transition(j.current, c)
  <2>1. j.working \in [MapBlocks -> Ranges]
    BY <1>4 DEF TypeInv, Journals
  <2> QED
    BY <1>3, <1>4, <2>1, ExcludedFollows DEF HistoryInv
<1>6. ASSUME NEW c, Stamped(j.current, Excluded(b), c),
             op' = [pc |-> "encode", cand |-> c, then |-> "retire"],
             j' = j, d' = d, vol' = vol
      PROVE  /\ Syntax(c) /\ Transition(j.current, c)
             /\ Holds(map, c) /\ Keeps(kept', c) /\ IntentInv(c)'
  <2>1. c.blocks = Excluded(b).blocks /\ c.pending = NoBlock
    BY <1>5, <1>6, StampedBody
  <2>2. Holds(map, c) /\ Keeps(kept, c)
    BY <1>4, <1>5, <1>6, <2>1, SamePages
  <2>3. kept' = kept
    BY <1>1 DEF history
  <2>4. Excluded(b)' = Excluded(b)
    BY <1>6 DEF Excluded
  <2>5. IntentInv(c)'
    <3>1. op'.then = "retire" /\ Body(c) = Body(Excluded(b))
      BY <1>6 DEF Stamped
    <3>2. Body(c) = Body(Excluded(j.inflight.slot)')
      BY <2>4, <3>1
    <3> QED
      BY <1>3, <1>6, <3>1, <3>2 DEF IntentInv
  <2> QED
    BY <1>5, <1>6, <2>2, <2>3, <2>5
<1>7. phase = "ACTIVE" => kept # {}
  BY DEF OwnedInv, DurableInv
<1>8. "retire" \in Thens
  BY DEF Thens
<1> HIDE DEF b
<1> QED
  BY <1>1, <1>3, <1>5, <1>6, <1>7, <1>8, PublishStep DEF history

-----------------------------------------------------------------------------
(* The accesses to the control banks.                                      *)

(* Flash is as sound as before when the banks still boot to the same root. *)
LEMMA BanksDulled ==
  ASSUME TypeInv, DurableInv, banks' \in BankPairs, phase' = phase, map' = map, acked' = acked,
         used' = used, kept' = kept,
         \A k \in Banks, i \in BankSlot : banks'[k][i] \in {banks[k][i], Erased, Torn},
         \A r : RootIs(banks, r) =>
           \A i \in BankSlot : i <= r.slot => banks'[r.bank][i] = banks[r.bank][i]
  PROVE  DurableInv' /\ Boot(banks') = Boot(banks)
<1>0. banks \in BankPairs
  BY DEF TypeInv, BankPairs
<1>1. CASE NothingSealed(banks) /\ acked = NoRoot /\ kept = {} /\ used = {} /\ phase # "ACTIVE"
  <2>1. NothingSealed(banks')
    BY <1>0, <1>1, PageKinds DEF NothingSealed
  <2>2. Boot(banks') = Boot(banks)
    BY <1>1, <2>1, BootsNothing
  <2> QED
    BY <1>1, <2>1, <2>2 DEF DurableInv
<1>2. CASE Sound(Boot(banks)) /\ phase # "PREPARED"
  <2>1. RootIs(banks', Boot(banks))
    BY <1>0, <1>2, Dulled DEF Sound
  <2>2. Boot(banks') = Boot(banks)
    BY <2>1, BootsRoot
  <2>3. Sound(Boot(banks))'
    BY <1>2, <2>1, <2>2 DEF Sound, Follows
  <2> QED
    BY <1>2, <2>2, <2>3 DEF DurableInv
<1> QED
  BY <1>1, <1>2 DEF DurableInv

(* What one step of a publish leaves as it was.                            *)
LEMMA PublishFrame ==
  ASSUME OwnedInv, j.booted, Publishing, op.pc # "verify", Publishing',
         op'.cand = op.cand, op'.then = op.then,
         j'.booted = j.booted, j'.reconciled = j.reconciled, j'.fresh = j.fresh,
         j'.inflight = j.inflight, j'.current = j.current, j'.working = j.working,
         d' = d, vol' = vol, UNCHANGED <<phase, map, history>>
  PROVE  /\ ModeInv' /\ HistoryInv' /\ LeaseInv' /\ AdapterInv' /\ IntentInv(op.cand)'
         /\ ((Publishing /\ op.then = "activate") \/ op.pc = "advance" => kept # {})'
<1> USE DEF history
<1>0. ModeInv /\ HistoryInv /\ LeaseInv /\ AdapterInv /\ IntentInv(op.cand) /\ op.then # "provision"
  BY DEF OwnedInv, LiveInv, ModeInv, PublishInv
<1>1. ModeInv'
  BY <1>0 DEF ModeInv
<1>2. HistoryInv'
  BY <1>0 DEF HistoryInv, FreshInv
<1>3. Holding' <=> Holding
  BY DEF Holding, Publishing
<1>4. LeaseInv'
  <2>0. PICK l : l = j.inflight
    OBVIOUS
  <2>1. l.kind = "erase" /\ EraseInv(l) => EraseInv(l)'
    BY DEF EraseInv, Publishing
  <2>2. l.kind = "program" /\ ProgramInv(l) => ProgramInv(l)'
    BY DEF ProgramInv, Publishing
  <2>3. j'.inflight = l /\ j.inflight = l
    BY <2>0
  <2> QED
    BY <1>0, <1>3, <2>1, <2>2, <2>3 DEF LeaseInv
<1>5. AdapterInv'
  BY <1>0 DEF AdapterInv, Publishing
<1>6. IntentInv(op.cand)'
  <2>1. Synced' = Synced /\ \A b : Reserved(b)' = Reserved(b)
    BY DEF Synced, Reserved
  <2>2. \A b : Resolved(b)' = Resolved(b) /\ Excluded(b)' = Excluded(b)
    BY DEF Resolved, Excluded
  <2> QED
    BY <1>0, <2>1, <2>2 DEF IntentInv
<1>7. ((Publishing /\ op.then = "activate") \/ op.pc = "advance" => kept # {})'
  BY DEF OwnedInv, Publishing
<1> QED
  BY <1>1, <1>2, <1>4, <1>5, <1>6, <1>7

(* Encode: the check never refuses, and the bank to erase is not the one   *)
(* that holds the root.                                                    *)
LEMMA EncodeStep ==
  ASSUME OwnedInv, Encode
  PROVE  OwnedInv'
<1> DEFINE c == op.cand
<1>1. op.pc = "encode" /\ Publishing /\ UNCHANGED <<durable, history>>
  BY DEF Encode, Publishing
<1>2. j.booted
  BY <1>1, RestTypes DEF OwnedInv, ModeInv, ProvisionInv
<1>3. /\ TypeInv /\ DurableInv /\ RootInv /\ PublishInv /\ op \in Calls
      /\ c \in Snapshots /\ op.then \in Thens
  BY <1>1, <1>2, CallKinds DEF OwnedInv, LiveInv, TypeInv
<1>4. Syntax(c) /\ Transition(j.current, c)
  BY <1>3 DEF PublishInv
<1>5. /\ op' = IF c.bank = j.current.bank THEN [op EXCEPT !.pc = "program"]
               ELSE [pc |-> "erase", todo |-> <<c.bank>>, cand |-> c, then |-> op.then]
      /\ UNCHANGED <<vol, j, d>>
  BY <1>4 DEF Encode
<1>6. /\ op' \in Calls /\ op'.cand = c /\ op'.then = op.then /\ Publishing'
      /\ op'.pc = IF c.bank = j.current.bank THEN "program" ELSE "erase"
      /\ op'.pc = "erase" => op'.todo = <<c.bank>>
  <2>1. CASE c.bank = j.current.bank
    <3>1. op \in [pc : {"encode", "program", "verify"}, cand : Snapshots, then : Thens]
      BY <1>1, <1>3, CallKinds
    <3> QED
      BY <1>5, <2>1, <3>1 DEF Calls, Publishing
  <2>2. CASE c.bank # j.current.bank
    <3>1. <<c.bank>> \in {<<0>>, <<1>>, <<1, 0>>}
      BY <1>3, SnapshotFields DEF Banks
    <3>2. op' = [pc |-> "erase", todo |-> <<c.bank>>, cand |-> c, then |-> op.then]
      BY <1>5, <2>2
    <3> HIDE DEF c
    <3> QED
      BY <1>3, <2>2, <3>1, <3>2 DEF Calls, Publishing
  <2> QED
    BY <2>1, <2>2
<1> HIDE DEF c
<1>7. /\ ModeInv' /\ HistoryInv' /\ LeaseInv' /\ AdapterInv' /\ IntentInv(op.cand)'
      /\ ((Publishing /\ op.then = "activate") \/ op.pc = "advance" => kept # {})'
  BY <1>1, <1>2, <1>5, <1>6, PublishFrame DEF c, durable
<1>8. TypeInv'
  BY <1>1, <1>3, <1>5, <1>6 DEF TypeInv, durable, history
<1>9. DurableInv'
  BY <1>1, <1>3, DurableStays DEF durable, history, DurableInv
<1>10. RootInv'
  BY <1>1, <1>3, <1>5, <1>6 DEF RootInv, durable, history
<1>11. PublishInv'
  <2>1. /\ Syntax(c) /\ Transition(j.current, c) /\ Holds(map, c) /\ Keeps(kept, c)
        /\ c.bank = j.current.bank => j.tail_fresh /\ c.slot = j.next_slot
    BY <1>1, <1>3 DEF PublishInv, c
  <2>2. c.bank = j.current.bank => \A i \in BankSlot : i >= c.slot => banks[c.bank][i] = Erased
    BY <1>3, <2>1 DEF RootInv
  <2> QED
    BY <1>1, <1>5, <1>6, <1>7, <2>1, <2>2 DEF PublishInv, durable, history, c
<1> QED
  BY <1>2, <1>5, <1>7, <1>8, <1>9, <1>10, <1>11 DEF OwnedInv, LiveInv

(* The bank that is erased is not the root's.                              *)
LEMMA ErasedBank ==
  ASSUME OwnedInv, op.pc = "erase"
  PROVE  /\ op.todo \in {<<0>>, <<1>>, <<1, 0>>} /\ op.todo[1] \in Banks
         /\ op.cand \in Snapshots /\ op.then \in Thens /\ Publishing
         /\ j.booted => /\ op.todo = <<op.cand.bank>> /\ op.cand.bank # j.current.bank
                        /\ RootInv /\ PublishInv /\ Boot(banks) = j.current
         /\ ~j.booted => /\ ProvisionInv /\ NothingSealed(banks) /\ j = NoJournal /\ d = NoAdapter
                         /\ op.todo \in {<<0>>, <<1, 0>>}
         /\ \A r : RootIs(banks, r) => r.bank # op.todo[1]
<1>1. Publishing /\ op \in Calls /\ op.pc # "idle" /\ banks \in BankPairs
  BY DEF Publishing, OwnedInv, TypeInv, BankPairs
<1>2. op.todo \in {<<0>>, <<1>>, <<1, 0>>} /\ op.cand \in Snapshots /\ op.then \in Thens
  BY <1>1, CallKinds
<1>3. op.todo[1] \in Banks
  BY <1>2 DEF Banks
<1>4. ASSUME j.booted
      PROVE  /\ op.todo = <<op.cand.bank>> /\ op.cand.bank # j.current.bank
             /\ RootInv /\ PublishInv /\ Boot(banks) = j.current
  BY <1>1, <1>4 DEF OwnedInv, LiveInv, PublishInv, RootInv
<1>5. ASSUME ~j.booted
      PROVE  /\ ProvisionInv /\ NothingSealed(banks) /\ j = NoJournal /\ d = NoAdapter
             /\ op.todo \in {<<0>>, <<1, 0>>}
  BY <1>1, <1>5, RestTypes DEF OwnedInv, ModeInv, ProvisionInv
<1>6. ASSUME NEW r, RootIs(banks, r) PROVE r.bank # op.todo[1]
  <2>1. CASE j.booted
    <3>1. r = j.current
      BY <1>1, <1>4, <1>6, <2>1, BootsRoot
    <3> QED
      BY <1>4, <2>1, <3>1
  <2>2. CASE ~j.booted
    <3>1. r \in Snapshots /\ banks[r.bank][r.slot] = r
      BY <1>6 DEF RootIs
    <3>2. IsSnapshot(banks[r.bank][r.slot])
      BY <3>1, SnapshotFields
    <3> QED
      BY <1>5, <2>2, <3>1, <3>2, SnapshotFields DEF NothingSealed
  <2> QED
    BY <2>1, <2>2
<1> QED
  BY <1>1, <1>2, <1>3, <1>4, <1>5, <1>6

(* EraseBankFails: whatever is left of the bank, a boot finds the same     *)
(* root.                                                                   *)
LEMMA EraseBankFailsStep ==
  ASSUME OwnedInv, EraseBankFails
  PROVE  OwnedInv'
<1>1. op.pc = "erase" /\ Fenced /\ UNCHANGED <<phase, map, history>> /\ latched' \in {latched, TRUE}
  BY DEF EraseBankFails
<1>2. PICK torn \in SUBSET BankSlot :
        banks' = [banks EXCEPT ![op.todo[1]] =
                    [i \in BankSlot |-> IF i \in torn THEN Torn ELSE banks[op.todo[1]][i]]]
  BY DEF EraseBankFails
<1> DEFINE e == op.todo[1]
<1>3. e \in Banks /\ \A r : RootIs(banks, r) => r.bank # e
  BY <1>1, ErasedBank
<1>4. TypeInv /\ DurableInv /\ banks \in BankPairs
  BY DEF OwnedInv, TypeInv, BankPairs
<1> HIDE DEF e
<1>5. /\ \A i \in BankSlot : banks'[e][i] = IF i \in torn THEN Torn ELSE banks[e][i]
      /\ \A k \in Banks \ {e} : banks'[k] = banks[k]
      /\ banks' \in BankPairs
  BY <1>2, <1>3, <1>4 DEF e, BankPairs
<1>6. \A k \in Banks, i \in BankSlot : banks'[k][i] \in {banks[k][i], Erased, Torn}
  BY <1>5
<1>7. \A r : RootIs(banks, r) => \A i \in BankSlot : i <= r.slot => banks'[r.bank][i] = banks[r.bank][i]
  BY <1>3, <1>5, SnapshotFields DEF RootIs
<1>8. DurableInv'
  BY <1>1, <1>4, <1>5, <1>6, <1>7, BanksDulled DEF history
<1> QED
  BY <1>1, <1>4, <1>5, <1>8, FenceStep DEF TypeInv, history

(* EraseBank: the bank erased holds no root, and the next step finds it    *)
(* erased.                                                                 *)
LEMMA EraseBankStep ==
  ASSUME OwnedInv, EraseBank
  PROVE  OwnedInv'
<1>1. /\ op.pc = "erase" /\ UNCHANGED <<phase, latched, map, vol, j, d, history>>
      /\ banks' = [banks EXCEPT ![op.todo[1]] = [i \in BankSlot |-> Erased]]
      /\ op' = IF Len(op.todo) > 1 THEN [op EXCEPT !.todo = Tail(@)]
               ELSE [pc |-> "program", cand |-> op.cand, then |-> op.then]
  BY DEF EraseBank
<1>2. PICK e, c, th : e = op.todo[1] /\ c = op.cand /\ th = op.then
  OBVIOUS
<1>3. /\ e \in Banks /\ c \in Snapshots /\ th \in Thens /\ Publishing
      /\ \A r : RootIs(banks, r) => r.bank # e
      /\ op.todo \in {<<0>>, <<1>>, <<1, 0>>}
  BY <1>1, <1>2, ErasedBank
<1>4. TypeInv /\ DurableInv /\ ModeInv /\ banks \in BankPairs /\ op \in Calls
  BY DEF OwnedInv, TypeInv, BankPairs
<1>5. /\ \A i \in BankSlot : banks'[e][i] = Erased
      /\ \A k \in Banks \ {e} : banks'[k] = banks[k]
      /\ banks' \in BankPairs
  BY <1>1, <1>2, <1>3, <1>4 DEF BankPairs
<1>6. \A k \in Banks, i \in BankSlot : banks'[k][i] \in {banks[k][i], Erased, Torn}
  BY <1>5
<1>7. \A r : RootIs(banks, r) => \A i \in BankSlot : i <= r.slot => banks'[r.bank][i] = banks[r.bank][i]
  BY <1>3, <1>5, SnapshotFields DEF RootIs
<1>8. DurableInv' /\ Boot(banks') = Boot(banks)
  BY <1>1, <1>4, <1>5, <1>6, <1>7, BanksDulled DEF history
<1>9. CASE op.todo = <<1, 0>>
  <2>1. op' = [op EXCEPT !.todo = <<0>>]
    <3>1. Len(<<1, 0>>) > 1 /\ Tail(<<1, 0>>) = <<0>>
      OBVIOUS
    <3> QED
      BY <1>1, <1>9, <3>1
  <2>2. op \in [pc : {"erase"}, todo : {<<0>>, <<1>>, <<1, 0>>}, cand : Snapshots, then : Thens]
    BY <1>1, <1>4 DEF Calls
  <2>3. op' \in Calls /\ op'.pc = "erase" /\ op'.todo = <<0>> /\ op'.cand = c /\ op'.then = th
    BY <1>2, <2>1, <2>2 DEF Calls
  <2>4. ~j.booted /\ e = 1
    <3>1. <<1, 0>> # <<c.bank>>
      OBVIOUS
    <3> QED
      BY <1>1, <1>2, <1>9, <3>1, ErasedBank
  <2>5. ProvisionInv /\ NothingSealed(banks) /\ j = NoJournal /\ d = NoAdapter
    BY <1>1, <2>4, ErasedBank
  <2>6. NothingSealed(banks')
    BY <1>4, <1>6, <2>5, PageKinds DEF NothingSealed
  <2>7. Publishing'
    BY <2>3 DEF Publishing
  <2>8. ProvisionInv'
    BY <1>1, <1>2, <1>5, <2>3, <2>4, <2>5, <2>6 DEF ProvisionInv, Genesis, history
  <2>9. ModeInv'
    BY <1>1, <1>2, <1>3, <1>4, <2>3, <2>4, <2>5, <2>7, <2>8 DEF ModeInv
  <2>10. TypeInv'
    BY <1>1, <1>4, <1>5, <2>3 DEF TypeInv, BankPairs, history
  <2>11. ~j'.booted
    BY <1>1, <2>4
  <2>12. op'.then = "provision"
    BY <1>2, <2>3, <2>5 DEF ProvisionInv
  <2> QED
    BY <1>8, <2>3, <2>9, <2>10, <2>11, <2>12 DEF OwnedInv
<1>10. CASE op.todo # <<1, 0>>
  <2>1. op' = [pc |-> "program", cand |-> c, then |-> th] /\ op.todo = <<e>>
    <3>1. op.todo = <<0>> \/ op.todo = <<1>>
      BY <1>3, <1>10
    <3>2. Len(op.todo) = 1
      BY <3>1
    <3> QED
      BY <1>1, <1>2, <3>1, <3>2
  <2>2. op' \in Calls /\ op'.pc = "program" /\ op'.cand = c /\ op'.then = th /\ Publishing'
    BY <1>3, <2>1 DEF Calls, Publishing
  <2>3. TypeInv'
    BY <1>1, <1>4, <1>5, <2>2 DEF TypeInv, BankPairs, history
  <2>4. CASE ~j.booted
    <3>1. ProvisionInv /\ NothingSealed(banks) /\ j = NoJournal /\ d = NoAdapter /\ e = 0
      BY <1>1, <1>2, <2>1, <2>4, ErasedBank
    <3>2. NothingSealed(banks')
      BY <1>4, <1>6, <3>1, PageKinds DEF NothingSealed
    <3>3. \A k \in Banks, i \in BankSlot : banks'[k][i] = Erased
      <4>1. \A i \in BankSlot : banks[1][i] = Erased
        BY <1>1, <2>1, <3>1 DEF ProvisionInv
      <4> QED
        BY <1>5, <3>1, <4>1 DEF Banks
    <3>4. ProvisionInv'
      BY <1>1, <1>2, <2>2, <3>1, <3>2, <3>3 DEF ProvisionInv, Genesis, history
    <3>5. ModeInv'
      BY <1>1, <1>2, <1>3, <1>4, <2>2, <2>4, <3>1, <3>4 DEF ModeInv
    <3>6. ~j'.booted /\ op'.then = "provision"
      BY <1>1, <1>2, <2>2, <2>4, <3>1 DEF ProvisionInv
    <3> QED
      BY <1>8, <2>2, <2>3, <3>5, <3>6 DEF OwnedInv
  <2>5. CASE j.booted
    <3>1. RootInv /\ PublishInv /\ Boot(banks) = j.current /\ c.bank # j.current.bank /\ e = c.bank
      BY <1>1, <1>2, <2>5, ErasedBank
    <3>2. /\ ModeInv' /\ HistoryInv' /\ LeaseInv' /\ AdapterInv' /\ IntentInv(op.cand)'
          /\ ((Publishing /\ op.then = "activate") \/ op.pc = "advance" => kept # {})'
      BY <1>1, <1>2, <1>3, <2>2, <2>5, PublishFrame
    <3>3. RootInv'
      <4>1. j.current.bank \in Banks \ {e}
        BY <3>1, SnapshotFields DEF RootInv
      <4> QED
        BY <1>1, <1>5, <1>8, <2>2, <3>1, <4>1 DEF RootInv, history
    <3>4. PublishInv'
      BY <1>1, <1>2, <1>5, <2>2, <3>1, <3>2 DEF PublishInv, history
    <3> QED
      BY <1>8, <2>3, <3>2, <3>3, <3>4 DEF OwnedInv, LiveInv
  <2> QED
    BY <2>4, <2>5
<1> QED
  BY <1>9, <1>10

(* The snapshot about to be programmed, its place, and what it follows.    *)
LEMMA ProgramPlace ==
  ASSUME OwnedInv, op.pc = "program"
  PROVE  /\ TypeInv /\ DurableInv /\ ModeInv /\ banks \in BankPairs /\ Publishing
         /\ op.cand \in Snapshots /\ op.then \in Thens
         /\ op.cand.bank \in Banks /\ op.cand.slot \in BankSlot
         /\ \A i \in BankSlot : i >= op.cand.slot => banks[op.cand.bank][i] = Erased
         /\ j.booted => /\ RootInv /\ PublishInv /\ Sound(j.current) /\ Boot(banks) = j.current
                        /\ phase # "PREPARED"
                        /\ op.cand.bank # j.current.bank =>
                             \A i \in BankSlot : ~IsSnapshot(banks[op.cand.bank][i])
         /\ ~j.booted => /\ ProvisionInv /\ NothingSealed(banks) /\ j = NoJournal
                         /\ d = NoAdapter /\ op.cand = Genesis /\ phase = "PROVISIONING"
<1>1. TypeInv /\ DurableInv /\ ModeInv /\ banks \in BankPairs /\ Publishing /\ op.pc # "idle"
  BY DEF OwnedInv, TypeInv, BankPairs, Publishing
<1>2. /\ op.cand \in Snapshots /\ op.then \in Thens
      /\ op.cand.bank \in Banks /\ op.cand.slot \in BankSlot
  BY <1>1, CallKinds, SnapshotFields DEF TypeInv
<1>3. ASSUME j.booted
      PROVE  /\ RootInv /\ PublishInv /\ Sound(j.current) /\ Boot(banks) = j.current
             /\ phase # "PREPARED"
             /\ \A i \in BankSlot : i >= op.cand.slot => banks[op.cand.bank][i] = Erased
             /\ op.cand.bank # j.current.bank =>
                  \A i \in BankSlot : ~IsSnapshot(banks[op.cand.bank][i])
  <2>1. RootInv /\ PublishInv /\ Sound(j.current) /\ Boot(banks) = j.current /\ phase # "PREPARED"
    BY <1>1, <1>3, RootSound DEF OwnedInv
  <2>2. \A i \in BankSlot : i >= op.cand.slot => banks[op.cand.bank][i] = Erased
    BY <2>1 DEF PublishInv
  <2>3. op.cand.bank # j.current.bank => op.cand.slot = 0
    BY <2>1 DEF PublishInv, Transition
  <2>4. \A i \in BankSlot : i >= 0
    BY GeometryAssumption DEF BankSlot
  <2> QED
    BY <2>1, <2>2, <2>3, <2>4, PageKinds, <1>1, <1>2
<1>4. ASSUME ~j.booted
      PROVE  /\ ProvisionInv /\ NothingSealed(banks) /\ j = NoJournal /\ d = NoAdapter
             /\ op.cand = Genesis /\ phase = "PROVISIONING"
             /\ \A i \in BankSlot : i >= op.cand.slot => banks[op.cand.bank][i] = Erased
  BY <1>1, <1>2, <1>4, RestTypes DEF ModeInv, ProvisionInv
<1> QED
  BY <1>1, <1>2, <1>3, <1>4

(* Once it is programmed it is the root.                                   *)
LEMMA Programmed ==
  ASSUME OwnedInv, op.pc = "program", UNCHANGED <<phase, map, history>>,
         banks' = [banks EXCEPT ![op.cand.bank][op.cand.slot] = op.cand]
  PROVE  /\ banks' \in BankPairs /\ DurableInv' /\ Boot(banks') = op.cand
         /\ \A i \in BankSlot : i > op.cand.slot => banks'[op.cand.bank][i] = Erased
<1>0. PICK c : c = op.cand
  OBVIOUS
<1>1. /\ TypeInv /\ DurableInv /\ banks \in BankPairs /\ c \in Snapshots
      /\ c.bank \in Banks /\ c.slot \in BankSlot /\ banks' = [banks EXCEPT ![c.bank][c.slot] = c]
      /\ \A i \in BankSlot : i >= c.slot => banks[c.bank][i] = Erased
  BY <1>0, ProgramPlace
<1>2. /\ banks' \in BankPairs
      /\ \A i \in BankSlot : i # c.slot => banks'[c.bank][i] = banks[c.bank][i]
  <2>1. \A S : \A k \in Banks, n \in BankSlot : c \in S /\ banks \in [Banks -> [BankSlot -> S]] =>
          /\ [banks EXCEPT ![k][n] = c] \in [Banks -> [BankSlot -> S]]
          /\ \A i \in BankSlot : i # n => [banks EXCEPT ![k][n] = c][k][i] = banks[k][i]
    OBVIOUS
  <2>2. c \in {Erased, Torn} \cup Snapshots
    BY <1>1
  <2>3. \A k \in Banks, n \in BankSlot :
          /\ [banks EXCEPT ![k][n] = c] \in BankPairs
          /\ \A i \in BankSlot : i # n => [banks EXCEPT ![k][n] = c][k][i] = banks[k][i]
    BY <1>1, <2>1, <2>2 DEF BankPairs
  <2>4. c.bank \in Banks /\ c.slot \in BankSlot /\ banks' = [banks EXCEPT ![c.bank][c.slot] = c]
    BY <1>1
  <2> QED
    BY ONLY <2>3, <2>4, Zenon
<1>3. \A i \in BankSlot : i > c.slot => banks'[c.bank][i] = Erased
  <2>1. \A i \in BankSlot : i > c.slot => i >= c.slot /\ i # c.slot
    BY <1>1, GeometryAssumption DEF BankSlot
  <2> QED
    BY <1>1, <1>2, <2>1
<1>4. CASE j.booted
  <2>1. /\ RootInv /\ PublishInv /\ Sound(j.current) /\ phase # "PREPARED"
        /\ c.bank # j.current.bank => \A i \in BankSlot : ~IsSnapshot(banks[c.bank][i])
        /\ Boot(banks) = j.current
    BY <1>0, <1>4, ProgramPlace
  <2>2. /\ Syntax(c) /\ Transition(j.current, c) /\ Holds(map, c) /\ Keeps(kept, c)
        /\ acked = j.current /\ RootIs(banks, j.current) /\ j.current \in Snapshots
        /\ \A u \in used : u <= j.current.high_water
    BY <1>0, <2>1 DEF PublishInv, RootInv, Sound
  <2>3. RootIs(banks', c)
    BY <1>1, <2>1, <2>2, Appended
  <2>4. Boot(banks') = c
    BY <1>2, <2>3, BootsRoot
  <2>5. \A u \in used : u <= c.high_water
    <3>1. c.high_water >= j.current.high_water /\ c.high_water \in Nat /\ j.current.high_water \in Nat
      BY <1>1, <2>2, SnapshotFields DEF Transition
    <3>2. used \subseteq Nat
      BY <1>1 DEF TypeInv, Leases
    <3> QED
      BY <2>2, <3>1, <3>2
  <2>6. Sound(c)'
    BY <2>2, <2>3, <2>5 DEF Sound, Follows, history
  <2>7. phase = "ACTIVE" => c.state = "ACTIVE" /\ kept # {}
    BY <1>1, <2>1, <2>2, SnapshotFields DEF DurableInv, Transition
  <2>8. DurableInv'
    BY <2>1, <2>4, <2>6, <2>7 DEF DurableInv, history
  <2> QED
    BY <1>0, <1>2, <1>3, <2>4, <2>8
<1>5. CASE ~j.booted
  <2>1. /\ NothingSealed(banks) /\ c = Genesis /\ phase = "PROVISIONING"
        /\ acked = NoRoot /\ kept = {} /\ used = {}
    BY <1>0, <1>5, ProgramPlace DEF ProvisionInv
  <2>2. /\ c.slot = 0 /\ Syntax(c) /\ c.blocks = [b \in MapBlocks |-> NoRange]
    BY <1>1, <2>1, GenesisFits DEF TypeInv
  <2>3. RootIs(banks', c)
    BY <1>1, <2>1, <2>2, FirstRoot
  <2>4. Boot(banks') = c
    BY <1>2, <2>3, BootsRoot
  <2>5. Holds(map, c) /\ Keeps(kept, c)
    BY <2>1, <2>2 DEF Holds, Keeps, NoRange
  <2>6. Sound(c)'
    BY <2>1, <2>2, <2>3, <2>5 DEF Sound, Follows, history
  <2>7. DurableInv'
    BY <2>1, <2>4, <2>6 DEF DurableInv, history
  <2> QED
    BY <1>0, <1>2, <1>3, <2>4, <2>7
<1> QED
  BY <1>4, <1>5

(* ProgramBank: a boot now finds the candidate, though nobody has been     *)
(* told.                                                                   *)
LEMMA ProgramBankStep ==
  ASSUME OwnedInv, ProgramBank
  PROVE  OwnedInv'
<1>1. /\ op.pc = "program" /\ UNCHANGED <<phase, latched, map, vol, d, history>>
      /\ banks' = [banks EXCEPT ![op.cand.bank][op.cand.slot] = op.cand]
      /\ j' = [j EXCEPT !.tail_fresh = FALSE] /\ op' = [op EXCEPT !.pc = "verify"]
  BY DEF ProgramBank
<1>0. PICK c, th : c = op.cand /\ th = op.then
  OBVIOUS
<1>2. /\ banks' \in BankPairs /\ DurableInv' /\ Boot(banks') = c
      /\ \A i \in BankSlot : i > c.slot => banks'[c.bank][i] = Erased
  BY <1>0, <1>1, Programmed
<1>3. /\ TypeInv /\ ModeInv /\ Publishing /\ c \in Snapshots /\ th \in Thens
  BY <1>0, <1>1, ProgramPlace
<1>4. /\ op' \in Calls /\ op'.pc = "verify" /\ op'.cand = c /\ op'.then = th /\ Publishing'
  <2>1. op \in [pc : {"encode", "program", "verify"}, cand : Snapshots, then : Thens]
    BY <1>1, <1>3, CallKinds DEF TypeInv
  <2> QED
    BY <1>0, <1>1, <2>1 DEF Calls, Publishing
<1>5. /\ j' \in Journals /\ j'.booted = j.booted /\ j'.reconciled = j.reconciled
      /\ j'.fresh = j.fresh /\ j'.inflight = j.inflight /\ j'.current = j.current
      /\ j'.working = j.working /\ j'.next_slot = j.next_slot /\ ~j'.tail_fresh
  <2>1. j \in Journals
    BY <1>3 DEF TypeInv
  <2> QED
    BY <1>1, <2>1 DEF Journals
<1>6. TypeInv'
  BY <1>1, <1>2, <1>3, <1>4, <1>5 DEF TypeInv, BankPairs, history
<1>7. CASE j.booted
  <2>1. RootInv /\ PublishInv /\ c.bank \in Banks
    BY <1>0, <1>1, <1>7, ProgramPlace
  <2>2. /\ ModeInv' /\ HistoryInv' /\ LeaseInv' /\ AdapterInv' /\ IntentInv(op.cand)'
        /\ ((Publishing /\ op.then = "activate") \/ op.pc = "advance" => kept # {})'
    BY <1>0, <1>1, <1>3, <1>4, <1>5, <1>7, PublishFrame
  <2>3. RootInv'
    BY <1>1, <1>4, <1>5, <2>1 DEF RootInv, history
  <2>4. PublishInv'
    BY <1>0, <1>1, <1>2, <1>4, <1>5, <2>1, <2>2 DEF PublishInv, history
  <2> QED
    BY <1>2, <1>6, <2>2, <2>3, <2>4 DEF OwnedInv, LiveInv
<1>8. CASE ~j.booted
  <2>1. ProvisionInv /\ j = NoJournal /\ d = NoAdapter /\ c = Genesis
    BY <1>0, <1>1, <1>8, ProgramPlace
  <2>2. c.slot = 0 /\ c.bank = 0
    BY <1>3, <2>1, GenesisFits DEF TypeInv
  <2>3. j' = NoJournal
    BY <1>1, <2>1 DEF NoJournal
  <2>4. ProvisionInv'
    BY <1>0, <1>1, <1>2, <1>4, <2>1, <2>2 DEF ProvisionInv, Genesis, history
  <2>5. ModeInv'
    BY <1>0, <1>1, <1>3, <1>4, <1>8, <2>1, <2>3, <2>4 DEF ModeInv
  <2>6. op'.then = "provision" /\ ~j'.booted
    BY <1>0, <1>4, <1>5, <1>8, <2>1 DEF ProvisionInv
  <2> QED
    BY <1>2, <1>4, <1>6, <2>5, <2>6 DEF OwnedInv
<1> QED
  BY <1>7, <1>8

(* ProgramBankFails: a boot finds the root or the candidate, and both keep *)
(* what was promised.                                                      *)
LEMMA ProgramBankFailsStep ==
  ASSUME OwnedInv, ProgramBankFails
  PROVE  OwnedInv'
<1>1. op.pc = "program" /\ Fenced /\ UNCHANGED <<phase, map, history>> /\ latched' \in {latched, TRUE}
  BY DEF ProgramBankFails
<1>2. PICK left \in {Torn, op.cand} : banks' = [banks EXCEPT ![op.cand.bank][op.cand.slot] = left]
  BY DEF ProgramBankFails
<1>3. TypeInv /\ DurableInv
  BY DEF OwnedInv
<1>4. DurableInv' /\ banks' \in BankPairs
  <2>1. CASE left = op.cand
    BY <1>1, <1>2, <2>1, Programmed
  <2>2. CASE left = Torn
    <3> DEFINE k == op.cand.bank
               n == op.cand.slot
    <3>1. /\ k \in Banks /\ n \in BankSlot /\ banks \in BankPairs /\ banks[k][n] = Erased
      <4>1. op.cand.slot >= op.cand.slot
        BY <1>1, ProgramPlace, SnapshotFields
      <4> QED
        BY <1>1, <4>1, ProgramPlace
    <3> HIDE DEF k, n
    <3>2. banks' = [banks EXCEPT ![k][n] = Torn]
      BY <1>2, <2>2 DEF k, n
    <3>3. /\ banks' \in BankPairs
          /\ \A m \in Banks, i \in BankSlot : banks'[m][i] \in {banks[m][i], Erased, Torn}
          /\ \A m \in Banks, i \in BankSlot : <<m, i>> # <<k, n>> => banks'[m][i] = banks[m][i]
      BY <3>1, <3>2 DEF BankPairs
    <3>4. ASSUME NEW r, RootIs(banks, r), NEW i \in BankSlot, i <= r.slot
          PROVE  banks'[r.bank][i] = banks[r.bank][i]
      <4>1. r.bank \in Banks /\ banks[r.bank][i] \in Snapshots
        BY <3>4, SnapshotFields DEF RootIs
      <4>2. IsSnapshot(banks[r.bank][i]) /\ ~IsSnapshot(Erased)
        BY <3>1, <4>1, PageKinds
      <4> QED
        BY <3>1, <3>3, <4>1, <4>2
    <3> QED
      BY <1>1, <1>3, <3>3, <3>4, BanksDulled DEF history
  <2> QED
    BY <2>1, <2>2
<1> QED
  BY <1>1, <1>3, <1>4, FenceStep DEF TypeInv, history

-----------------------------------------------------------------------------
(* The ends of the publishes.                                              *)

(* What holds when a snapshot has been read back.                          *)
LEMMA VerifiedFacts ==
  ASSUME OwnedInv, op.pc = "verify", op.then # "provision"
  PROVE  /\ TypeInv /\ DurableInv /\ ModeInv /\ RootInv /\ HistoryInv /\ LeaseInv /\ AdapterInv
         /\ PublishInv /\ IntentInv(op.cand) /\ j.booted /\ Publishing
         /\ op.cand \in Snapshots /\ Sound(op.cand) /\ Boot(banks) = op.cand
         /\ phase # "PREPARED" /\ Syntax(op.cand) /\ Transition(j.current, op.cand)
         /\ j.current \in Snapshots /\ Syntax(j.current)
         /\ op.then \notin {"resolve", "retire"} => j.inflight = NoLease
<1>1. Publishing /\ op.pc # "idle"
  BY DEF Publishing
<1>2. j.booted
  BY <1>1, RestTypes DEF OwnedInv, ModeInv, ProvisionInv
<1>3. TypeInv /\ DurableInv /\ ModeInv /\ RootInv /\ HistoryInv /\ LeaseInv /\ AdapterInv /\ PublishInv
  BY <1>1, <1>2 DEF OwnedInv, LiveInv
<1>4. op.cand \in Snapshots
  BY <1>1, <1>3, CallKinds DEF TypeInv
<1>5. Boot(banks) = op.cand /\ IntentInv(op.cand) /\ Syntax(op.cand) /\ Transition(j.current, op.cand)
  BY <1>3 DEF PublishInv
<1>6. ~NothingSealed(banks)
  BY <1>4, <1>5, BootsNothing
<1>7. Sound(op.cand) /\ phase # "PREPARED"
  BY <1>3, <1>5, <1>6 DEF DurableInv
<1>8. op.then \notin {"resolve", "retire"} => j.inflight = NoLease
  BY <1>3 DEF LeaseInv, Holding
<1> QED
  BY <1>1, <1>2, <1>3, <1>4, <1>5, <1>7, <1>8 DEF RootInv

(* The snapshot read back is acknowledged as the root it is.               *)
LEMMA DoneDurable ==
  ASSUME DurableInv, op.cand \in Snapshots, Boot(banks) = op.cand,
         acked' = op.cand, UNCHANGED <<durable, used>>, Keeps(kept', op.cand),
         phase = "ACTIVE" => kept' # {}
  PROVE  DurableInv'
<1>1. ~NothingSealed(banks)
  BY BootsNothing
<1>2. Sound(Boot(banks)) /\ phase # "PREPARED"
  BY <1>1 DEF DurableInv
<1>3. Sound(Boot(banks))'
  BY <1>2 DEF Sound, Follows, durable
<1> QED
  BY <1>2, <1>3 DEF DurableInv, durable

(* The snapshot read back is the root, with an erased tail behind it.      *)
LEMMA DoneRoot ==
  ASSUME op.cand \in Snapshots, Sound(op.cand), Boot(banks) = op.cand,
         \A i \in BankSlot : i > op.cand.slot => banks[op.cand.bank][i] = Erased,
         acked' = op.cand, UNCHANGED <<durable, used>>,
         j'.current = op.cand, j'.next_slot = op.cand.slot + 1
  PROVE  RootInv'
<1>1. \A i \in BankSlot : i >= op.cand.slot + 1 => i > op.cand.slot
  BY SnapshotFields, GeometryAssumption DEF BankSlot
<1> QED
  BY <1>1 DEF RootInv, Sound, durable

(* The journal's RAM once the snapshot is the current one.                 *)
LEMMA PublishedFields ==
  ASSUME j \in Journals, op.cand \in Snapshots
  PROVE  /\ Published \in Journals /\ Published.booted = j.booted
         /\ Published.reconciled = j.reconciled /\ Published.tail_fresh = TRUE
         /\ Published.next_slot = op.cand.slot + 1 /\ Published.fresh = j.fresh
         /\ Published.inflight = j.inflight /\ Published.current = op.cand
         /\ Published.working = j.working
<1> DEFINE c == op.cand
           n == op.cand.slot + 1
           P == [j EXCEPT !.current = c, !.tail_fresh = TRUE, !.next_slot = n]
<1>1. n \in Nat /\ c \in Snapshots
  BY SnapshotFields
<1>2. Published = P
  BY DEF Published
<1> HIDE DEF c, n
<1>3. /\ P \in Journals /\ P.booted = j.booted
      /\ P.reconciled = j.reconciled /\ P.tail_fresh = TRUE
      /\ P.next_slot = n /\ P.fresh = j.fresh
      /\ P.inflight = j.inflight /\ P.current = c /\ P.working = j.working
  BY <1>1 DEF Journals
<1> QED
  BY <1>2, <1>3 DEF c, n

(* The adapter's RAM once it has a capability.                             *)
LEMMA GrantedFields ==
  ASSUME NEW a \in Adapters, NEW r \in Snapshots
  PROVE  /\ Granted(a, r) \in Adapters /\ Granted(a, r).sequence = r.epoch
         /\ Granted(a, r).high_water = r.high_water /\ Granted(a, r).retired = r.retired
         /\ Granted(a, r).writable = TRUE /\ Granted(a, r).ready = a.ready
         /\ Granted(a, r).format = a.format /\ Granted(a, r).base = a.base
         /\ Granted(a, r).consumed = a.consumed
<1> DEFINE e == r.epoch
           h == r.high_water
           u == r.retired
           G == [a EXCEPT !.sequence = e, !.high_water = h, !.retired = u, !.writable = TRUE]
<1>1. e \in Nat /\ h \in Nat /\ u \subseteq MapBlocks
  BY SnapshotFields
<1>2. Granted(a, r) = G
  BY DEF Granted
<1> HIDE DEF e, h, u
<1>3. /\ G \in Adapters /\ G.sequence = e /\ G.high_water = h /\ G.retired = u
      /\ G.writable = TRUE /\ G.ready = a.ready
      /\ G.format = a.format /\ G.base = a.base /\ G.consumed = a.consumed
  BY <1>1 DEF Adapters
<1> QED
  BY <1>2, <1>3 DEF e, h, u

(* The adapter at the start of a format.                                   *)
LEMMA FormattingFields ==
  ASSUME NEW r \in Snapshots
  PROVE  /\ Formatting(r) \in Adapters /\ Formatting(r).sequence = r.epoch
         /\ Formatting(r).high_water = r.high_water /\ Formatting(r).retired = r.retired
         /\ Formatting(r).writable = TRUE /\ Formatting(r).ready = FALSE
         /\ Formatting(r).format = MapBlocks \ r.retired
<1> DEFINE G == Granted(NoAdapter, r)
           f == MapBlocks \ r.retired
<1>1. /\ G \in Adapters /\ G.sequence = r.epoch /\ G.high_water = r.high_water
      /\ G.retired = r.retired /\ G.writable = TRUE /\ G.ready = NoAdapter.ready
  BY RestTypes, GrantedFields
<1>2. NoAdapter.ready = FALSE
  BY DEF NoAdapter
<1>3. f \in SUBSET MapBlocks
  OBVIOUS
<1>4. Formatting(r) = [G EXCEPT !.format = f]
  BY DEF Formatting
<1> HIDE DEF G, f
<1>5. /\ [G EXCEPT !.format = f] \in Adapters /\ [G EXCEPT !.format = f].sequence = G.sequence
      /\ [G EXCEPT !.format = f].high_water = G.high_water
      /\ [G EXCEPT !.format = f].retired = G.retired
      /\ [G EXCEPT !.format = f].writable = G.writable /\ [G EXCEPT !.format = f].ready = G.ready
      /\ [G EXCEPT !.format = f].format = f
  BY <1>1, <1>3 DEF Adapters
<1> QED
  BY <1>1, <1>2, <1>4, <1>5 DEF f

(* With the histories of the root in RAM and no fresh block, all agrees.   *)
LEMMA CleanHistory ==
  ASSUME NEW c \in Snapshots, Syntax(c), Holds(map', c),
         j'.current = c, j'.working = c.blocks, j'.fresh = {}
  PROVE  HistoryInv'
<1>1. \A b \in MapBlocks : Extends(c.blocks[b], c.blocks[b])
  BY ExtendsItself
<1> QED
  BY <1>1 DEF HistoryInv, Holds

(* The call that ends a publish returns to the caller.                     *)
LEMMA DoneTypes ==
  ASSUME TypeInv, op.cand \in Snapshots, acked' = op.cand, UNCHANGED <<durable, boots, used>>,
         vol' \in {vol, "WRITABLE", "SUSPENDED"}, j' \in Journals, d' \in Adapters,
         kept' \subseteq MapBlocks \X Pages \X Leases,
         NEW pc \in {"idle", "advance", "lease"}, op' = [pc |-> pc]
  PROVE  TypeInv' /\ ~Publishing' /\ op'.pc = pc
<1>1. op' \in Calls /\ op'.pc = pc /\ ~Publishing'
  BY DEF Calls, Publishing
<1> QED
  BY <1>1 DEF TypeInv, durable

(* Once the ranges are reconciled no lease is in flight.                   *)
LEMMA CleanLease ==
  ASSUME ~Publishing', op'.pc \in {"idle", "advance"}, j'.inflight = NoLease
  PROVE  LeaseInv'
BY DEF LeaseInv, Holding

(* GrantDone: after a reconciliation no block is fresh, so RAM is the      *)
(* root.                                                                   *)
LEMMA GrantDoneStep ==
  ASSUME OwnedInv, GrantDone
  PROVE  OwnedInv'
<1>1. /\ op.pc = "verify" /\ op.then = "reconcile" /\ acked' = op.cand
      /\ UNCHANGED <<durable, boots, used, kept>>
      /\ j' = [Published EXCEPT !.reconciled = TRUE, !.working = op.cand.blocks]
      /\ d' = Granted(d, op.cand) /\ vol' = "WRITABLE" /\ op' = Idle
  BY DEF GrantDone, Verified
<1>2. PICK c : c = op.cand
  OBVIOUS
<1>3. /\ TypeInv /\ DurableInv /\ ModeInv /\ AdapterInv /\ PublishInv /\ IntentInv(c) /\ j.booted
      /\ c \in Snapshots /\ Sound(c) /\ Boot(banks) = c /\ Syntax(c) /\ j.inflight = NoLease
      /\ j.current \in Snapshots /\ Syntax(j.current)
  BY <1>1, <1>2, VerifiedFacts
<1>4. /\ Published \in Journals /\ Published.booted = j.booted
      /\ Published.next_slot = c.slot + 1 /\ Published.fresh = j.fresh
      /\ Published.inflight = j.inflight /\ Published.current = c
  BY <1>2, <1>3, PublishedFields DEF TypeInv
<1>5. /\ j' \in Journals /\ j'.booted /\ j'.next_slot = c.slot + 1 /\ j'.fresh = j.fresh
      /\ j'.inflight = NoLease /\ j'.current = c /\ j'.reconciled /\ j'.working = c.blocks
  <2>1. c.blocks \in [MapBlocks -> Ranges]
    BY <1>3, SnapshotFields
  <2> QED
    BY <1>1, <1>2, <1>3, <1>4, <2>1 DEF Journals
<1>6. /\ d' \in Adapters /\ d'.sequence = c.epoch /\ d'.high_water = c.high_water
      /\ d'.retired = c.retired /\ d'.writable /\ d'.format = d.format
  <2>1. d' = Granted(d, c) /\ d \in Adapters /\ c \in Snapshots
    BY <1>1, <1>2, <1>3 DEF TypeInv
  <2> QED
    BY ONLY <2>1, GrantedFields
<1>7. ~j.reconciled /\ vol = "READ_ONLY" /\ c.pending = NoBlock
  <2>1. ~j.reconciled /\ vol = "READ_ONLY" /\ Body(c) = Body(Reconciled(j.current))
    BY <1>1, <1>3 DEF IntentInv
  <2>2. c.pending = Reconciled(j.current).pending
    BY <2>1 DEF Body
  <2> QED
    BY <1>3, <2>1, <2>2, ReconciledFollows
<1>8. j.fresh = {} /\ d.format = {}
  BY <1>3, <1>7 DEF AdapterInv
<1>9. TypeInv' /\ ~Publishing' /\ op'.pc = "idle"
  BY <1>1, <1>2, <1>3, <1>5, <1>6, DoneTypes DEF TypeInv, Idle
<1>10. DurableInv'
  BY <1>1, <1>2, <1>3, DoneDurable DEF Sound, DurableInv
<1>11. RootInv'
  BY <1>1, <1>2, <1>3, <1>5, DoneRoot DEF PublishInv
<1>12. HistoryInv'
  <2>1. Holds(map', c)
    BY <1>1, <1>3 DEF Sound, durable
  <2> QED
    BY <1>3, <1>5, <1>8, <2>1, CleanHistory
<1>13. LeaseInv'
  BY <1>5, <1>9, CleanLease
<1>14. AdapterInv'
  <2>1. NoLease.kind # "erase"
    BY DEF NoLease
  <2>2. c.epoch \in Nat /\ c.high_water \in Nat
    BY <1>3, SnapshotFields
  <2> QED
    BY <1>1, <1>5, <1>6, <1>7, <1>8, <1>9, <2>1, <2>2 DEF AdapterInv
<1>15. ModeInv'
  BY <1>1, <1>3, <1>5, <1>9 DEF ModeInv, durable
<1> QED
  BY <1>9, <1>10, <1>11, <1>12, <1>13, <1>14, <1>15 DEF OwnedInv, LiveInv

(* RecoveryDone: the same, and the format begins again.                    *)
LEMMA RecoveryDoneStep ==
  ASSUME OwnedInv, RecoveryDone
  PROVE  OwnedInv'
<1>1. /\ op.pc = "verify" /\ op.then = "recover" /\ acked' = op.cand
      /\ UNCHANGED <<durable, boots, used, kept, vol>>
      /\ j' = [Published EXCEPT !.reconciled = TRUE, !.working = op.cand.blocks]
      /\ d' = Formatting(op.cand) /\ op' = Idle
  BY DEF RecoveryDone, Verified
<1>2. PICK c : c = op.cand
  OBVIOUS
<1>3. /\ TypeInv /\ DurableInv /\ ModeInv /\ AdapterInv /\ PublishInv /\ IntentInv(c) /\ j.booted
      /\ c \in Snapshots /\ Sound(c) /\ Boot(banks) = c /\ Syntax(c) /\ j.inflight = NoLease
      /\ j.current \in Snapshots /\ Syntax(j.current)
  BY <1>1, <1>2, VerifiedFacts
<1>4. /\ Published \in Journals /\ Published.booted = j.booted
      /\ Published.next_slot = c.slot + 1 /\ Published.fresh = j.fresh
      /\ Published.inflight = j.inflight /\ Published.current = c
  BY <1>2, <1>3, PublishedFields DEF TypeInv
<1>5. /\ j' \in Journals /\ j'.booted /\ j'.next_slot = c.slot + 1 /\ j'.fresh = j.fresh
      /\ j'.inflight = NoLease /\ j'.current = c /\ j'.reconciled /\ j'.working = c.blocks
  <2>1. c.blocks \in [MapBlocks -> Ranges]
    BY <1>3, SnapshotFields
  <2> QED
    BY <1>1, <1>2, <1>3, <1>4, <2>1 DEF Journals
<1>6. /\ d' \in Adapters /\ d'.sequence = c.epoch /\ d'.high_water = c.high_water
      /\ d'.retired = c.retired /\ d'.writable /\ ~d'.ready /\ d'.format = MapBlocks \ c.retired
  <2>1. d' = Formatting(c) /\ c \in Snapshots
    BY <1>1, <1>2, <1>3
  <2> QED
    BY ONLY <2>1, FormattingFields
<1>7. ~j.reconciled /\ vol = "PROVISIONING" /\ c.pending = NoBlock
  <2>1. ~j.reconciled /\ vol = "PROVISIONING" /\ Body(c) = Body(Reconciled(j.current))
    BY <1>1, <1>3 DEF IntentInv
  <2>2. c.pending = Reconciled(j.current).pending
    BY <2>1 DEF Body
  <2> QED
    BY <1>3, <2>1, <2>2, ReconciledFollows
<1>8. j.fresh = {}
  BY <1>3, <1>7 DEF AdapterInv
<1>9. TypeInv' /\ ~Publishing' /\ op'.pc = "idle"
  BY <1>1, <1>2, <1>3, <1>5, <1>6, DoneTypes DEF TypeInv, Idle
<1>10. DurableInv'
  BY <1>1, <1>2, <1>3, DoneDurable DEF Sound, DurableInv
<1>11. RootInv'
  BY <1>1, <1>2, <1>3, <1>5, DoneRoot DEF PublishInv
<1>12. HistoryInv'
  <2>1. Holds(map', c)
    BY <1>1, <1>3 DEF Sound, durable
  <2> QED
    BY <1>3, <1>5, <1>8, <2>1, CleanHistory
<1>13. LeaseInv'
  BY <1>5, <1>9, CleanLease
<1>14. AdapterInv'
  <2>1. NoLease.kind # "erase"
    BY DEF NoLease
  <2>2. c.epoch \in Nat /\ c.high_water \in Nat
    BY <1>3, SnapshotFields
  <2> QED
    BY <1>1, <1>5, <1>6, <1>7, <1>9, <2>1, <2>2 DEF AdapterInv
<1>15. ModeInv'
  BY <1>1, <1>3, <1>5, <1>7, <1>9 DEF ModeInv, durable
<1> QED
  BY <1>9, <1>10, <1>11, <1>12, <1>13, <1>14, <1>15 DEF OwnedInv, LiveInv

(* ProvisionDone: the first root, with no history at all.                  *)
LEMMA ProvisionDoneStep ==
  ASSUME OwnedInv, ProvisionDone
  PROVE  OwnedInv'
<1>1. /\ op.pc = "verify" /\ op.then = "provision" /\ acked' = op.cand
      /\ UNCHANGED <<durable, boots, used, kept, vol>>
      /\ j' = [Published EXCEPT !.booted = TRUE, !.reconciled = TRUE,
                                !.working = op.cand.blocks]
      /\ d' = Formatting(op.cand) /\ op' = Idle
  BY DEF ProvisionDone, Verified
<1>2. PICK c : c = op.cand
  OBVIOUS
<1>p. Publishing /\ op.pc # "idle"
  BY <1>1 DEF Publishing
<1>3. /\ TypeInv /\ DurableInv /\ ModeInv /\ ProvisionInv /\ ~j.booted /\ j = NoJournal
      /\ c \in Snapshots /\ c = Genesis /\ Boot(banks) = c /\ vol = "PROVISIONING"
      /\ \A i \in BankSlot : i > 0 => banks[0][i] = Erased
  <2>1. TypeInv /\ DurableInv /\ ModeInv
    BY DEF OwnedInv
  <2>2. ~j.booted
    BY <1>1, <1>p, <2>1 DEF ModeInv
  <2>3. ProvisionInv /\ j = NoJournal
    BY <1>p, <2>1, <2>2, RestTypes DEF ModeInv
  <2>4. c \in Snapshots
    BY <1>2, <1>p, <2>1, CallKinds DEF TypeInv
  <2> QED
    BY <1>1, <1>2, <2>1, <2>2, <2>3, <2>4 DEF ProvisionInv
<1>g. /\ Syntax(c) /\ c.slot = 0 /\ c.bank = 0 /\ c.blocks = [b \in MapBlocks |-> NoRange]
      /\ c.pending = NoBlock /\ c.blocks \in [MapBlocks -> Ranges]
  BY <1>3, GenesisFits, SnapshotFields DEF TypeInv
<1>s. Sound(c)
  BY <1>3, BootsNothing DEF DurableInv
<1>4. /\ Published \in Journals
      /\ Published.next_slot = c.slot + 1 /\ Published.fresh = j.fresh
      /\ Published.inflight = j.inflight /\ Published.current = c
  BY <1>2, <1>3, PublishedFields DEF TypeInv
<1>5. /\ j' \in Journals /\ j'.booted /\ j'.next_slot = c.slot + 1 /\ j'.fresh = {}
      /\ j'.inflight = NoLease /\ j'.current = c /\ j'.reconciled /\ j'.working = c.blocks
  <2>1. j.fresh = {} /\ j.inflight = NoLease
    BY <1>3 DEF NoJournal
  <2> QED
    BY <1>1, <1>2, <1>4, <1>g, <2>1 DEF Journals
<1>6. /\ d' \in Adapters /\ d'.sequence = c.epoch /\ d'.high_water = c.high_water
      /\ d'.retired = c.retired /\ d'.writable /\ ~d'.ready /\ d'.format = MapBlocks \ c.retired
  <2>1. d' = Formatting(c) /\ c \in Snapshots
    BY <1>1, <1>2, <1>3
  <2> QED
    BY ONLY <2>1, FormattingFields
<1>9. TypeInv' /\ ~Publishing' /\ op'.pc = "idle"
  BY <1>1, <1>2, <1>3, <1>5, <1>6, DoneTypes DEF TypeInv, Idle
<1>10. DurableInv'
  BY <1>1, <1>2, <1>3, <1>s, DoneDurable DEF Sound, DurableInv
<1>11. RootInv'
  BY <1>1, <1>2, <1>3, <1>5, <1>g, <1>s, DoneRoot
<1>12. HistoryInv'
  <2>1. Holds(map', c)
    BY <1>1, <1>s DEF Sound, durable
  <2> QED
    BY <1>3, <1>5, <1>g, <2>1, CleanHistory
<1>13. LeaseInv'
  BY <1>5, <1>9, CleanLease
<1>14. AdapterInv'
  <2>1. NoLease.kind # "erase"
    BY DEF NoLease
  <2>2. c.epoch \in Nat /\ c.high_water \in Nat
    BY <1>3, SnapshotFields
  <2> QED
    BY <1>1, <1>3, <1>5, <1>6, <1>9, <1>g, <2>1, <2>2 DEF AdapterInv
<1>15. ModeInv'
  BY <1>1, <1>3, <1>5, <1>9 DEF ModeInv, durable
<1> QED
  BY <1>9, <1>10, <1>11, <1>12, <1>13, <1>14, <1>15 DEF OwnedInv, LiveInv

(* ActivateDone: the root is active before the configuration record says   *)
(* so.                                                                     *)
LEMMA ActivateDoneStep ==
  ASSUME OwnedInv, ActivateDone
  PROVE  OwnedInv'
<1>1. /\ op.pc = "verify" /\ op.then = "activate" /\ acked' = op.cand
      /\ UNCHANGED <<durable, boots, used, kept, vol>>
      /\ j' = Published /\ d' = Granted(d, op.cand) /\ op' = [pc |-> "advance"]
  BY DEF ActivateDone, Verified
<1>2. PICK c : c = op.cand
  OBVIOUS
<1>3. /\ TypeInv /\ DurableInv /\ ModeInv /\ AdapterInv /\ PublishInv /\ IntentInv(c) /\ j.booted
      /\ c \in Snapshots /\ Sound(c) /\ Boot(banks) = c /\ Syntax(c) /\ j.inflight = NoLease
      /\ j.current \in Snapshots /\ Syntax(j.current) /\ HistoryInv /\ Publishing
  BY <1>1, <1>2, VerifiedFacts
<1>5. /\ j' \in Journals /\ j'.booted = j.booted /\ j'.next_slot = c.slot + 1 /\ j'.fresh = j.fresh
      /\ j'.inflight = NoLease /\ j'.current = c /\ j'.reconciled = j.reconciled
      /\ j'.working = j.working
  BY <1>1, <1>2, <1>3, PublishedFields DEF TypeInv
<1>6. /\ d' \in Adapters /\ d'.sequence = c.epoch /\ d'.high_water = c.high_water
      /\ d'.retired = c.retired /\ d'.writable /\ d'.format = d.format /\ d'.base = d.base
      /\ d'.consumed = d.consumed /\ d'.ready = d.ready
  <2>1. d' = Granted(d, c) /\ d \in Adapters /\ c \in Snapshots
    BY <1>1, <1>2, <1>3 DEF TypeInv
  <2> QED
    BY ONLY <2>1, GrantedFields
<1>7. /\ vol = "PROVISIONING" /\ d.ready /\ j.reconciled /\ c.pending = NoBlock
      /\ c.blocks = j.current.blocks /\ c.retired = j.current.retired /\ c.state = "ACTIVE"
  <2>1. /\ vol = "PROVISIONING" /\ d.ready /\ j.reconciled
        /\ Body(c) = Body([j.current EXCEPT !.state = "ACTIVE"])
    BY <1>1, <1>3 DEF IntentInv
  <2>2. j.current.pending = NoBlock
    BY <1>3, <2>1 DEF AdapterInv, NoLease
  <2>3. LET s == [j.current EXCEPT !.state = "ACTIVE"] IN
          c.pending = s.pending /\ c.blocks = s.blocks /\ c.retired = s.retired /\ c.state = s.state
    BY <2>1 DEF Body
  <2> QED
    BY <1>3, <2>1, <2>2, <2>3, ActivatedFollows
<1>9. TypeInv' /\ ~Publishing' /\ op'.pc = "advance"
  BY <1>1, <1>2, <1>3, <1>5, <1>6, DoneTypes DEF TypeInv
<1>10. DurableInv'
  BY <1>1, <1>2, <1>3, DoneDurable DEF Sound, DurableInv
<1>11. RootInv'
  BY <1>1, <1>2, <1>3, <1>5, DoneRoot DEF PublishInv
<1>12. HistoryInv'
  BY <1>1, <1>3, <1>5, <1>6, <1>7 DEF HistoryInv, FreshInv, durable
<1>13. LeaseInv'
  BY <1>5, <1>9, CleanLease
<1>14. AdapterInv'
  <2>1. NoLease.kind # "erase"
    BY DEF NoLease
  <2>2. c.epoch \in Nat /\ c.high_water \in Nat
    BY <1>3, SnapshotFields
  <2> QED
    BY <1>1, <1>3, <1>5, <1>6, <1>7, <1>9, <2>1, <2>2 DEF AdapterInv
<1>15. ModeInv'
  BY <1>1, <1>3, <1>5, <1>7, <1>9 DEF ModeInv, durable
<1>16. kept' # {}
  BY <1>1, <1>3 DEF OwnedInv
<1> QED
  BY <1>9, <1>10, <1>11, <1>12, <1>13, <1>14, <1>15, <1>16 DEF OwnedInv, LiveInv

(* What a sync vouches for is in its snapshot, with all it vouched for     *)
(* before.                                                                 *)
LEMMA WrittenKept ==
  ASSUME TypeInv, NEW c, c.blocks = j.working, Keeps(kept, c)
  PROVE  /\ Keeps(Written, c) /\ kept \subseteq Written
         /\ Written \subseteq MapBlocks \X Pages \X Leases
<1>1. Keeps(Written, c)
  BY DEF Keeps, Written, LeaseOf
<1>2. kept \subseteq MapBlocks \X Pages \X (1..MaxLease)
  BY DEF TypeInv, Leases
<1>3. \A x \in kept : x[2] \in j.working[x[1]].valid /\ x[3] = LeaseOf(x[1], x[2])
  BY DEF Keeps, LeaseOf
<1> QED
  BY <1>1, <1>2, <1>3 DEF Written, Leases

(* SyncDone and SuspendDone: the page history in RAM is now the root, and  *)
(* the pages written are kept.                                             *)
LEMMA SyncDoneStep ==
  ASSUME OwnedInv, SyncDone \/ SuspendDone
  PROVE  OwnedInv'
<1>1. /\ op.pc = "verify" /\ op.then \in {"sync", "suspend"} /\ acked' = op.cand
      /\ UNCHANGED <<durable, boots, used>>
      /\ j' = Published /\ op' = Idle /\ kept' = Written
      /\ op.then = "sync" => UNCHANGED <<vol, d>>
      /\ op.then = "suspend" => /\ d' = [d EXCEPT !.writable = FALSE, !.ready = FALSE]
                                /\ vol' = "SUSPENDED"
  BY DEF SyncDone, SuspendDone, Verified
<1>2. PICK c : c = op.cand
  OBVIOUS
<1>3. /\ TypeInv /\ DurableInv /\ ModeInv /\ AdapterInv /\ PublishInv /\ IntentInv(c) /\ j.booted
      /\ c \in Snapshots /\ Sound(c) /\ Boot(banks) = c /\ Syntax(c) /\ j.inflight = NoLease
      /\ j.current \in Snapshots /\ Syntax(j.current) /\ HistoryInv /\ Transition(j.current, c)
  BY <1>1, <1>2, VerifiedFacts
<1>5. /\ j' \in Journals /\ j'.booted = j.booted /\ j'.next_slot = c.slot + 1 /\ j'.fresh = j.fresh
      /\ j'.inflight = NoLease /\ j'.current = c /\ j'.reconciled = j.reconciled
      /\ j'.working = j.working
  BY <1>1, <1>2, <1>3, PublishedFields DEF TypeInv
<1>6. /\ d' \in Adapters /\ d'.sequence = d.sequence /\ d'.high_water = d.high_water
      /\ d'.retired = d.retired /\ d'.format = d.format /\ d'.base = d.base
      /\ d'.consumed = d.consumed 
      /\ \/ vol' = vol /\ d' = d
         \/ vol' = "SUSPENDED" /\ ~d'.writable /\ ~d'.ready
  <2>1. d \in Adapters
    BY <1>3 DEF TypeInv
  <2>2. CASE op.then = "sync"
    BY <1>1, <2>1, <2>2
  <2>3. CASE op.then = "suspend"
    BY <1>1, <2>1, <2>3 DEF Adapters
  <2> QED
    BY <1>1, <2>2, <2>3
<1>7. /\ j.reconciled /\ d.writable /\ c.pending = NoBlock
      /\ c.blocks = j.working /\ c.retired = j.current.retired /\ c.epoch = j.current.epoch + 1
      /\ c.high_water >= j.current.high_water
      /\ op.then = "suspend" => d.format = {}
  <2>1. j.reconciled /\ d.writable /\ Body(c) = Body(Synced)
    BY <1>1, <1>3 DEF IntentInv
  <2>2. j.current.pending = NoBlock
    BY <1>3, <2>1 DEF AdapterInv, NoLease
  <2>3. c.pending = Synced.pending /\ c.blocks = Synced.blocks /\ c.retired = Synced.retired
    BY <2>1 DEF Body
  <2>4. j.working \in [MapBlocks -> Ranges]
    BY <1>3 DEF TypeInv, Journals
  <2>5. Synced.pending = NoBlock /\ Synced.blocks = j.working /\ Synced.retired = j.current.retired
    BY <1>3, <2>2, <2>4, SyncedFollows DEF HistoryInv
  <2>6. op.then = "suspend" => d.format = {}
    BY <1>3 DEF IntentInv, AdapterInv
  <2> QED
    BY <1>3, <2>1, <2>3, <2>5, <2>6 DEF Transition
<1>8. /\ Keeps(kept', c) /\ kept \subseteq kept' /\ kept' \subseteq MapBlocks \X Pages \X Leases
  BY <1>1, <1>3, <1>7, WrittenKept DEF Sound
<1>9. TypeInv' /\ ~Publishing' /\ op'.pc = "idle"
  BY <1>1, <1>2, <1>3, <1>5, <1>6, <1>8, DoneTypes DEF Idle
<1>10. DurableInv'
  <2>1. phase = "ACTIVE" => kept' # {}
    BY <1>3, <1>8 DEF DurableInv
  <2> QED
    BY <1>1, <1>2, <1>3, <1>8, <2>1, DoneDurable
<1>11. RootInv'
  BY <1>1, <1>2, <1>3, <1>5, DoneRoot DEF PublishInv
<1>12. HistoryInv'
  <2>1. \A b \in MapBlocks : Extends(c.blocks[b], j.working[b])
    BY <1>3, <1>7, ExtendsItself
  <2> QED
    BY <1>1, <1>3, <1>5, <1>6, <1>7, <2>1 DEF HistoryInv, FreshInv, durable
<1>13. LeaseInv'
  BY <1>5, <1>9, CleanLease
<1>14. AdapterInv'
  <2>1. NoLease.kind # "erase"
    BY DEF NoLease
  <2>2. /\ c.epoch \in Nat /\ c.high_water \in Nat /\ d.sequence \in Nat /\ d.high_water \in Nat
        /\ j.current.epoch \in Nat /\ j.current.high_water \in Nat
    BY <1>3, SnapshotFields DEF TypeInv, Adapters
  <2>3. d'.sequence <= c.epoch /\ d'.high_water <= c.high_water
    BY <1>3, <1>6, <1>7, <2>2 DEF AdapterInv
  <2>4. vol' = "SUSPENDED" => vol = "SUSPENDED" \/ op.then = "suspend"
    BY <1>1
  <2>5. d'.format # {} => vol' = "PROVISIONING" /\ ~d'.ready
    BY <1>1, <1>3, <1>6, <1>7 DEF AdapterInv
  <2> QED
    BY <1>3, <1>5, <1>6, <1>7, <1>9, <2>1, <2>3, <2>5 DEF AdapterInv
<1>15. ModeInv'
  <2>1. vol' = vol \/ vol' = "SUSPENDED"
    BY <1>6
  <2>2. vol \in {"PROVISIONING", "READ_ONLY", "WRITABLE", "SUSPENDED", "CLOSED"}
    BY <1>3 DEF ModeInv
  <2> QED
    BY <1>1, <1>3, <1>5, <1>9, <2>1, <2>2 DEF ModeInv, durable
<1> QED
  BY <1>9, <1>10, <1>11, <1>12, <1>13, <1>14, <1>15 DEF OwnedInv, LiveInv

(* AcquireEraseDone: the lease is above all leases used, and the block has *)
(* no page that counts.                                                    *)
LEMMA AcquireEraseDoneStep ==
  ASSUME OwnedInv, AcquireEraseDone
  PROVE  OwnedInv'
<1>2. PICK c, b : c = op.cand /\ b = op.cand.pending
  OBVIOUS
<1>1. /\ op.pc = "verify" /\ op.then = "acquire" /\ acked' = op.cand
      /\ UNCHANGED <<durable, boots, used, kept, vol, d>>
      /\ j' = [Published EXCEPT !.working[b] = c.blocks[b], !.fresh = @ \ {b},
                                !.inflight = Lease("erase", c, b, 0)]
      /\ op' = [pc |-> "lease"]
  BY <1>2 DEF AcquireEraseDone, Verified
<1>3. /\ TypeInv /\ DurableInv /\ ModeInv /\ AdapterInv /\ PublishInv /\ IntentInv(c) /\ j.booted
      /\ c \in Snapshots /\ Sound(c) /\ Boot(banks) = c /\ Syntax(c) /\ j.inflight = NoLease
      /\ j.current \in Snapshots /\ Syntax(j.current) /\ HistoryInv /\ Transition(j.current, c)
      /\ RootInv
  BY <1>1, <1>2, VerifiedFacts
<1>4. /\ j.reconciled /\ d.writable /\ b \in MapBlocks /\ b \notin j.current.retired
      /\ c.epoch = j.current.epoch + 1 /\ \A x \in kept : x[1] # b
      /\ c.retired = j.current.retired /\ c.pending = b
      /\ c.high_water = j.current.high_water + 1 + PagesPerBlock
      /\ c.blocks = [j.current.blocks EXCEPT ![b] = Range0(j.current)]
  <2>1. /\ j.reconciled /\ d.writable /\ b \in MapBlocks \ j.current.retired
        /\ c.epoch = j.current.epoch + 1 /\ \A x \in kept : x[1] # b
        /\ Body(c) = Body(Reserved(b))
    BY <1>1, <1>2, <1>3 DEF IntentInv
  <2>2. c.blocks = Reserved(b).blocks /\ c.retired = Reserved(b).retired
        /\ c.high_water = Reserved(b).high_water
    BY <2>1 DEF Body
  <2>3. /\ Reserved(b).retired = j.current.retired
        /\ Reserved(b).high_water = j.current.high_water + 1 + PagesPerBlock
        /\ Reserved(b).blocks = [j.current.blocks EXCEPT ![b] = Range0(j.current)]
    BY <1>3, <2>1 DEF Reserved, Snapshots, Range0
  <2> QED
    BY <1>2, <2>1, <2>2, <2>3
<1>5. PICK y, l : y = c.blocks[b] /\ l = Lease("erase", c, b, 0)
  OBVIOUS
<1>6. /\ y = Range0(j.current) /\ y \in Ranges /\ y.base = j.current.high_water + 1 /\ y.valid = {}
      /\ \A e \in MapBlocks \ {b} : c.blocks[e] = j.current.blocks[e]
  BY <1>3, <1>4, <1>5, ReservedRange, SnapshotFields
<1>7. /\ l \in LeaseRecords /\ l.kind = "erase" /\ l.slot = b /\ l.base = y.base /\ l.id = y.base
      /\ l.sequence = c.epoch
  <2>1. 0 \in Pages
    BY GeometryAssumption DEF Pages
  <2>2. c.epoch \in Nat /\ y.base \in Nat
    BY <1>3, <1>6, SnapshotFields, RangeFields
  <2>3. l = [kind |-> "erase", slot |-> b, page |-> 0, base |-> y.base, sequence |-> c.epoch,
             id |-> y.base + 0]
    BY <1>5 DEF Lease
  <2> QED
    BY <1>4, <2>1, <2>2, <2>3 DEF LeaseRecords
<1>8. /\ Published \in Journals /\ Published.booted = j.booted
      /\ Published.reconciled = j.reconciled
      /\ Published.next_slot = c.slot + 1 /\ Published.fresh = j.fresh
      /\ Published.current = c /\ Published.working = j.working
  BY <1>2, <1>3, PublishedFields DEF TypeInv
<1>9. /\ j' \in Journals /\ j'.booted = j.booted /\ j'.next_slot = c.slot + 1
      /\ j'.fresh = j.fresh \ {b} /\ j'.inflight = l /\ j'.current = c
      /\ j'.reconciled = j.reconciled /\ j'.working = [j.working EXCEPT ![b] = y]
  <2> DEFINE P == Published
  <2>1. j' = [P EXCEPT !.working[b] = y, !.fresh = @ \ {b}, !.inflight = l]
    BY <1>1, <1>5
  <2> HIDE DEF P
  <2> QED
    BY <1>4, <1>6, <1>7, <1>8, <2>1 DEF Journals, P
<1>w. /\ j'.working[b] = y /\ \A e \in MapBlocks \ {b} : j'.working[e] = j.working[e]
  <2>1. j.working \in [MapBlocks -> Ranges]
    BY <1>3 DEF TypeInv, Journals
  <2> QED
    BY <1>4, <1>9, <2>1
<1>10. TypeInv' /\ ~Publishing' /\ op'.pc = "lease"
  BY <1>1, <1>2, <1>3, <1>9, DoneTypes DEF TypeInv
<1>11. DurableInv'
  BY <1>1, <1>2, <1>3, DoneDurable DEF Sound, DurableInv
<1>12. RootInv'
  BY <1>1, <1>2, <1>3, <1>9, DoneRoot DEF PublishInv
<1>13. HistoryInv'
  <2>1. ASSUME NEW e \in MapBlocks PROVE Extends(c.blocks[e], j'.working[e])
    <3>1. CASE e = b
      BY <1>3, <1>5, <1>w, <3>1, ExtendsItself
    <3>2. CASE e # b
      BY <1>3, <1>6, <1>w, <3>2 DEF HistoryInv
    <3> QED
      BY <3>1, <3>2
  <2>2. \A e \in MapBlocks : \A p \in j'.working[e].valid : map[e][p] = j'.working[e].base + 1 + p
    BY <1>3, <1>6, <1>w DEF HistoryInv
  <2>3. ASSUME NEW e \in j.fresh \ {b} PROVE FreshInv(e)'
    <3>1. FreshInv(e) /\ e \in MapBlocks \ {b}
      BY <1>3 DEF HistoryInv, TypeInv, Journals
    <3>2. j'.working[e] = j.working[e] /\ d' = d /\ map' = map /\ used' = used
          /\ j'.current.retired = j.current.retired
      BY <1>1, <1>4, <1>9, <1>w, <3>1 DEF durable
    <3> QED
      BY <3>1, <3>2 DEF FreshInv
  <2> QED
    BY <1>1, <1>9, <2>1, <2>2, <2>3 DEF HistoryInv, durable
<1>14. /\ j.current.high_water \in Nat /\ j.current.epoch \in Nat /\ d.high_water \in Nat
       /\ d.sequence \in Nat /\ used \subseteq Nat /\ PagesPerBlock \in Nat
       /\ d.sequence <= j.current.epoch /\ d.high_water <= j.current.high_water
       /\ \A u \in used : u <= j.current.high_water
  BY <1>3, SnapshotFields, GeometryAssumption DEF TypeInv, Adapters, Leases, AdapterInv, RootInv
<1>15. LeaseInv'
  <2>1. Holding'
    BY <1>10 DEF Holding
  <2>2. /\ l.base > d.high_water /\ l.sequence > d.sequence
        /\ \A u \in used : u < l.base
        /\ l.id = l.base /\ l.slot \notin j'.fresh /\ j'.working[l.slot].valid = {}
        /\ \A x \in kept : x[1] # l.slot
    <3>1. l.base > d.high_water /\ l.sequence > d.sequence
      BY <1>4, <1>6, <1>7, <1>14
    <3>2. \A u \in used : u < l.base
      BY <1>6, <1>7, <1>14
    <3> QED
      BY <1>4, <1>6, <1>7, <1>9, <1>w, <3>1, <3>2
  <2>3. l.base # 0 /\ l.base = j'.working[l.slot].base
    BY <1>6, <1>7, <1>14, <1>w
  <2>4. d' = d /\ used' = used /\ kept' = kept /\ op'.pc = "lease" /\ ~Publishing'
        /\ j'.inflight = l /\ j'.reconciled /\ d.writable /\ j'.current.epoch = l.sequence
        /\ l.slot \notin j'.current.retired /\ l \in LeaseRecords /\ l.kind = "erase"
    <3>1. d' = d /\ used' = used /\ kept' = kept
      BY <1>1 DEF durable
    <3>2. j'.current.retired = j.current.retired /\ j'.current.epoch = l.sequence
      BY <1>4, <1>7, <1>9
    <3>3. j'.reconciled /\ d.writable /\ j'.inflight = l
      BY <1>4, <1>9
    <3> QED
      BY ONLY <1>4, <1>7, <1>10, <3>1, <3>2, <3>3
  <2> QED
    BY ONLY <2>1, <2>2, <2>3, <2>4 DEF LeaseInv, EraseInv
<1>16. AdapterInv'
  <2>1. d.sequence <= c.epoch /\ d.high_water <= c.high_water
    BY <1>4, <1>14
  <2>2. d' = d /\ vol' = vol /\ op'.pc = "lease" /\ j'.current = c /\ c.retired = j.current.retired
        /\ j'.reconciled /\ j'.inflight.kind = "erase" /\ c.pending = j'.inflight.slot
        /\ j.reconciled
    BY <1>1, <1>4, <1>7, <1>9 DEF durable
  <2>3. AdapterInv
    BY <1>3
  <2> QED
    BY ONLY <2>1, <2>2, <2>3 DEF AdapterInv
<1>17. ModeInv'
  BY <1>1, <1>3, <1>9, <1>10 DEF ModeInv, durable
<1> QED
  BY <1>10, <1>11, <1>12, <1>13, <1>15, <1>16, <1>17 DEF OwnedInv, LiveInv

(* The adapter once a block was formatted, or after any other erase.       *)
LEMMA FormattedFields ==
  ASSUME d \in Adapters, NEW b \in MapBlocks
  PROVE  /\ Formatted(b) \in Adapters /\ Formatted(b).sequence = d.sequence
         /\ Formatted(b).high_water = d.high_water /\ Formatted(b).retired = d.retired
         /\ Formatted(b).writable = d.writable /\ Formatted(b).format = d.format \ {b}
         /\ Formatted(b).base = d.base /\ Formatted(b).consumed = d.consumed
         /\ Formatted(b).ready <=> d.ready \/ d.format = {b}
<1> DEFINE f == d.format \ {b}
           r == d.ready \/ d.format = {b}
           F == [d EXCEPT !.format = f, !.ready = r]
<1>1. f \in SUBSET MapBlocks /\ r \in BOOLEAN
  BY DEF Adapters
<1>2. Formatted(b) = F
  BY DEF Formatted
<1> HIDE DEF f, r
<1>3. /\ F \in Adapters /\ F.sequence = d.sequence
      /\ F.high_water = d.high_water /\ F.retired = d.retired
      /\ F.writable = d.writable /\ F.format = f
      /\ F.base = d.base /\ F.consumed = d.consumed /\ F.ready = r
  BY <1>1 DEF Adapters
<1> QED
  BY <1>2, <1>3 DEF f, r

(* Equal ranges, field by field.                                           *)
LEMMA SameRange ==
  ASSUME NEW x \in Ranges, NEW y \in Ranges, x.base = y.base, x.seq = y.seq,
         x.valid = y.valid, x.consumed = y.consumed
  PROVE  x = y
BY DEF Ranges

(* ResolveEraseDone: the block is blank and fresh, under leases never      *)
(* used.                                                                   *)
LEMMA ResolveEraseDoneStep ==
  ASSUME OwnedInv, ResolveEraseDone
  PROVE  OwnedInv'
<1>2. PICK c, l, b : c = op.cand /\ l = j.inflight /\ b = j.inflight.slot
  OBVIOUS
<1>1. /\ op.pc = "verify" /\ op.then = "resolve" /\ acked' = op.cand
      /\ UNCHANGED <<durable, boots, used, kept, vol>>
      /\ j' = [Published EXCEPT !.working[b] = c.blocks[b], !.fresh = @ \cup {b},
                                !.inflight = NoLease]
      /\ d' = [Formatted(b) EXCEPT !.base[b] = l.base, !.consumed[b] = {}]
      /\ op' = Idle
  BY <1>2 DEF ResolveEraseDone, Verified
<1>3. /\ TypeInv /\ DurableInv /\ ModeInv /\ AdapterInv /\ PublishInv /\ IntentInv(c) /\ j.booted
      /\ c \in Snapshots /\ Sound(c) /\ Boot(banks) = c /\ Syntax(c) /\ Publishing
      /\ j.current \in Snapshots /\ Syntax(j.current) /\ HistoryInv /\ Transition(j.current, c)
      /\ LeaseInv /\ d \in Adapters /\ j \in Journals /\ j.working \in [MapBlocks -> Ranges]
  <2>1. /\ TypeInv /\ DurableInv /\ ModeInv /\ AdapterInv /\ PublishInv /\ IntentInv(c) /\ j.booted
        /\ c \in Snapshots /\ Sound(c) /\ Boot(banks) = c /\ Syntax(c) /\ Publishing
        /\ j.current \in Snapshots /\ Syntax(j.current) /\ HistoryInv /\ Transition(j.current, c)
        /\ LeaseInv
    BY <1>1, <1>2, VerifiedFacts
  <2> QED
    BY <2>1 DEF TypeInv, Journals
<1>h. Holding
  BY <1>1, <1>3 DEF Holding
<1>4. /\ b \in MapBlocks /\ j.reconciled /\ d.writable /\ b \notin j.current.retired
      /\ l.base = j.working[b].base /\ l.base = j.current.blocks[b].base /\ l.base \in Nat
      /\ l.base # 0 /\ l.kind = "erase" /\ j.current.pending = b
  <2>1. l.kind = "erase" /\ l \in LeaseRecords
    BY <1>1, <1>2, <1>3, <1>h DEF LeaseInv
  <2> QED
    BY <1>1, <1>2, <1>h, <2>1, InFlight DEF LeaseRecords
<1>5. /\ j.working[b].valid = {} /\ \A u \in used : u <= l.base
      /\ \A p \in Pages : map[b][p] = Blank
  <2>1. EraseInv(l)
    BY <1>2, <1>3, <1>4, <1>h DEF LeaseInv
  <2> QED
    BY <1>1, <1>2, <1>3, <2>1 DEF EraseInv
<1>6. /\ c.pending = NoBlock /\ c.retired = j.current.retired /\ c.blocks \in [MapBlocks -> Ranges]
      /\ c.blocks[b].base = l.base /\ c.blocks[b].valid = {} /\ c.blocks[b].consumed = 0
      /\ \A e \in MapBlocks \ {b} : c.blocks[e] = j.current.blocks[e]
      /\ c.epoch = j.current.epoch + 1 /\ c.high_water >= j.current.high_water
  <2>1. Body(c) = Body(Resolved(b))
    BY <1>1, <1>2, <1>3 DEF IntentInv
  <2>2. c.blocks = Resolved(b).blocks /\ c.pending = Resolved(b).pending /\ c.retired = Resolved(b).retired
    BY <2>1 DEF Body
  <2>3. /\ Resolved(b).pending = NoBlock /\ Resolved(b).retired = j.current.retired
        /\ \A e \in MapBlocks :
              /\ c.blocks[e].base = j.current.blocks[e].base
              /\ c.blocks[e].seq = j.current.blocks[e].seq
              /\ c.blocks[e].valid = j.current.blocks[e].valid
              /\ c.blocks[e].consumed = IF e = b THEN 0 ELSE j.current.blocks[e].consumed
    BY <1>3, <1>4, <2>2, ResolvedFollows
  <2>4. c.blocks \in [MapBlocks -> Ranges] /\ j.current.blocks \in [MapBlocks -> Ranges]
    BY <1>3, SnapshotFields
  <2>5. \A e \in MapBlocks \ {b} : c.blocks[e] = j.current.blocks[e]
    BY <2>3, <2>4, SameRange
  <2>6. j.current.blocks[b].valid = {}
    BY <1>3, <1>4, <1>5 DEF HistoryInv, Extends
  <2>7. c.epoch = j.current.epoch + 1 /\ c.high_water >= j.current.high_water
    BY <1>3 DEF Transition
  <2> QED
    BY <1>4, <2>2, <2>3, <2>4, <2>5, <2>6, <2>7
<1>8. /\ Published \in Journals /\ Published.booted = j.booted
      /\ Published.reconciled = j.reconciled
      /\ Published.next_slot = c.slot + 1 /\ Published.fresh = j.fresh
      /\ Published.current = c /\ Published.working = j.working
  BY <1>2, <1>3, PublishedFields
<1>9. /\ j' \in Journals /\ j'.booted = j.booted /\ j'.next_slot = c.slot + 1
      /\ j'.fresh = j.fresh \cup {b} /\ j'.inflight = NoLease /\ j'.current = c
      /\ j'.reconciled = j.reconciled /\ j'.working = [j.working EXCEPT ![b] = c.blocks[b]]
  <2> DEFINE P == Published
             y == c.blocks[b]
  <2>1. j' = [P EXCEPT !.working[b] = y, !.fresh = @ \cup {b}, !.inflight = NoLease]
    BY <1>1
  <2>2. y \in Ranges /\ P \in Journals
    BY <1>4, <1>6, <1>8
  <2>3. /\ P.booted = j.booted /\ P.reconciled = j.reconciled
        /\ P.next_slot = c.slot + 1 /\ P.fresh = j.fresh
        /\ P.current = c /\ P.working = j.working
    BY <1>8
  <2> HIDE DEF P, y
  <2>4. /\ j' \in Journals /\ j'.booted = j.booted /\ j'.next_slot = c.slot + 1
        /\ j'.fresh = j.fresh \cup {b} /\ j'.inflight = NoLease /\ j'.current = c
        /\ j'.reconciled = j.reconciled /\ j'.working = [j.working EXCEPT ![b] = y]
    BY <1>4, <2>1, <2>2, <2>3 DEF Journals
  <2> QED
    BY <2>4 DEF y
<1>w. /\ j'.working[b] = c.blocks[b] /\ \A e \in MapBlocks \ {b} : j'.working[e] = j.working[e]
  BY <1>3, <1>4, <1>9
<1>a. /\ d' \in Adapters /\ d'.sequence = d.sequence /\ d'.high_water = d.high_water
      /\ d'.retired = d.retired /\ d'.writable = d.writable /\ d'.format = d.format \ {b}
      /\ d'.ready <=> d.ready \/ d.format = {b}
      /\ d'.base[b] = l.base /\ d'.consumed[b] = {}
      /\ \A e \in MapBlocks \ {b} : d'.base[e] = d.base[e] /\ d'.consumed[e] = d.consumed[e]
  <2> DEFINE F == Formatted(b)
  <2>1. d' = [F EXCEPT !.base[b] = l.base, !.consumed[b] = {}]
    BY <1>1
  <2>2. /\ F \in Adapters /\ F.sequence = d.sequence
        /\ F.high_water = d.high_water /\ F.retired = d.retired
        /\ F.writable = d.writable /\ F.format = d.format \ {b}
        /\ F.base = d.base /\ F.consumed = d.consumed
        /\ F.ready <=> d.ready \/ d.format = {b}
    BY <1>3, <1>4, FormattedFields
  <2> HIDE DEF F
  <2>3. /\ d' \in Adapters /\ d'.sequence = F.sequence /\ d'.high_water = F.high_water
        /\ d'.retired = F.retired /\ d'.writable = F.writable /\ d'.format = F.format
        /\ d'.ready = F.ready /\ d'.base = [F.base EXCEPT ![b] = l.base]
        /\ d'.consumed = [F.consumed EXCEPT ![b] = {}]
    BY <1>4, <2>1, <2>2 DEF Adapters
  <2>4. d.base \in [MapBlocks -> Nat] /\ d.consumed \in [MapBlocks -> SUBSET Pages]
    BY <1>3 DEF Adapters
  <2> QED
    BY <1>4, <2>2, <2>3, <2>4
<1>10. TypeInv' /\ ~Publishing' /\ op'.pc = "idle"
  BY <1>1, <1>2, <1>3, <1>9, <1>a, DoneTypes DEF TypeInv, Idle
<1>11. DurableInv'
  BY <1>1, <1>2, <1>3, DoneDurable DEF Sound, DurableInv
<1>12. RootInv'
  BY <1>1, <1>2, <1>3, <1>9, DoneRoot DEF PublishInv
<1>u. d.retired = j.current.retired /\ map' = map /\ used' = used /\ kept' = kept /\ vol' = vol
  BY <1>1, <1>3 DEF AdapterInv, durable
<1>13. HistoryInv'
  <2>1. ASSUME NEW e \in MapBlocks PROVE Extends(c.blocks[e], j'.working[e])
    <3>1. CASE e = b
      BY <1>3, <1>w, <3>1, ExtendsItself
    <3>2. CASE e # b
      BY <1>3, <1>6, <1>w, <3>2 DEF HistoryInv
    <3> QED
      BY <3>1, <3>2
  <2>2. \A e \in MapBlocks : \A p \in j'.working[e].valid : map[e][p] = j'.working[e].base + 1 + p
    BY <1>3, <1>6, <1>w DEF HistoryInv
  <2>3. ASSUME NEW e \in j.fresh \ {b} PROVE FreshInv(e)'
    <3>1. FreshInv(e) /\ e \in MapBlocks \ {b}
      BY <1>3 DEF HistoryInv, Journals
    <3>2. j'.working[e] = j.working[e] /\ d'.base[e] = d.base[e] /\ d'.consumed[e] = d.consumed[e]
          /\ j'.current.retired = j.current.retired
      BY <1>6, <1>9, <1>a, <1>w, <3>1
    <3> QED
      BY <1>u, <3>1, <3>2 DEF FreshInv
  <2>4. FreshInv(b)'
    <3>1. \A p \in Pages : l.base + 1 + p \notin used
      BY <1>4, <1>5, GeometryAssumption DEF Pages
    <3>2. /\ d'.base[b] = j'.working[b].base /\ b \notin j'.current.retired /\ d'.consumed[b] = {}
          /\ j'.working[b].base = l.base
      BY <1>4, <1>6, <1>9, <1>a, <1>w
    <3> QED
      BY <1>5, <1>u, <3>1, <3>2 DEF FreshInv
  <2> QED
    BY <1>9, <1>u, <2>1, <2>2, <2>3, <2>4 DEF HistoryInv
<1>14. LeaseInv'
  BY <1>9, <1>10, CleanLease
<1>16. AdapterInv'
  <2>1. d'.sequence <= c.epoch /\ d'.high_water <= c.high_water
    <3>1. /\ c.epoch \in Nat /\ c.high_water \in Nat /\ d.sequence \in Nat /\ d.high_water \in Nat
          /\ j.current.epoch \in Nat /\ j.current.high_water \in Nat
      BY <1>3, SnapshotFields DEF Adapters
    <3> QED
      BY <1>3, <1>6, <1>a, <3>1 DEF AdapterInv
  <2>2. d'.retired = c.retired /\ d'.format \cap d'.retired = {}
    BY <1>3, <1>6, <1>a DEF AdapterInv
  <2>3. d'.format # {} => vol' = "PROVISIONING" /\ ~d'.ready
    BY <1>3, <1>a, <1>u DEF AdapterInv
  <2>4. j'.reconciled /\ d'.writable /\ vol' \in {"PROVISIONING", "WRITABLE"}
    BY <1>3, <1>4, <1>9, <1>a, <1>u DEF AdapterInv
  <2>5. j'.current.pending = NoBlock /\ j'.inflight.kind # "erase" /\ j'.current = c
    BY <1>6, <1>9 DEF NoLease
  <2> QED
    BY ONLY <1>10, <2>1, <2>2, <2>3, <2>4, <2>5 DEF AdapterInv
<1>17. ModeInv'
  BY <1>1, <1>3, <1>9, <1>10 DEF ModeInv, durable
<1> QED
  BY <1>10, <1>11, <1>12, <1>13, <1>14, <1>16, <1>17 DEF OwnedInv, LiveInv

(* RetireDone: the block is retired in flash and in both RAMs, or too few  *)
(* are left and the volume is fenced.                                      *)
LEMMA RetireDoneStep ==
  ASSUME OwnedInv, RetireDone
  PROVE  OwnedInv'
<1>2. PICK c, b : c = op.cand /\ b = j.inflight.slot
  OBVIOUS
<1>1. /\ op.pc = "verify" /\ op.then = "retire" /\ acked' = op.cand
      /\ UNCHANGED <<durable, boots, used, kept>>
      /\ \/ Fenced
         \/ /\ j' = [Published EXCEPT !.fresh = @ \ {b}, !.inflight = NoLease]
            /\ d' = [Formatted(b) EXCEPT !.retired = @ \cup {b}]
            /\ op' = Idle /\ UNCHANGED vol
  BY <1>2 DEF RetireDone, Verified
<1>3. /\ TypeInv /\ DurableInv /\ ModeInv /\ AdapterInv /\ PublishInv /\ IntentInv(c) /\ j.booted
      /\ c \in Snapshots /\ Sound(c) /\ Boot(banks) = c /\ Syntax(c) /\ Publishing
      /\ j.current \in Snapshots /\ Syntax(j.current) /\ HistoryInv /\ Transition(j.current, c)
      /\ LeaseInv /\ d \in Adapters /\ j \in Journals /\ j.working \in [MapBlocks -> Ranges]
  <2>1. /\ TypeInv /\ DurableInv /\ ModeInv /\ AdapterInv /\ PublishInv /\ IntentInv(c) /\ j.booted
        /\ c \in Snapshots /\ Sound(c) /\ Boot(banks) = c /\ Syntax(c) /\ Publishing
        /\ j.current \in Snapshots /\ Syntax(j.current) /\ HistoryInv /\ Transition(j.current, c)
        /\ LeaseInv
    BY <1>1, <1>2, VerifiedFacts
  <2> QED
    BY <2>1 DEF TypeInv, Journals
<1>11. DurableInv'
  BY <1>1, <1>2, <1>3, DoneDurable DEF Sound, DurableInv
<1>f. CASE Fenced
  BY <1>1, <1>2, <1>3, <1>11, <1>f, FenceStep DEF TypeInv, BankPairs, durable
<1>g. CASE /\ j' = [Published EXCEPT !.fresh = @ \ {b}, !.inflight = NoLease]
           /\ d' = [Formatted(b) EXCEPT !.retired = @ \cup {b}]
           /\ op' = Idle /\ UNCHANGED vol
  <2>h. Holding
    BY <1>1, <1>3 DEF Holding
  <2>4. /\ b \in MapBlocks /\ j.reconciled /\ d.writable /\ j.current.blocks[b].base # 0
    BY <1>1, <1>2, <2>h, InFlight
  <2>6. /\ c.pending = NoBlock /\ c.retired = j.current.retired \cup {b}
        /\ c.blocks \in [MapBlocks -> Ranges]
        /\ \A e \in MapBlocks : /\ c.blocks[e].base = j.current.blocks[e].base
                                /\ c.blocks[e].seq = j.current.blocks[e].seq
                                /\ c.blocks[e].valid = j.current.blocks[e].valid
        /\ c.blocks[b].consumed = j.working[b].consumed
        /\ \A e \in MapBlocks \ {b} : c.blocks[e] = j.current.blocks[e]
        /\ c.epoch = j.current.epoch + 1 /\ c.high_water >= j.current.high_water
    <3>1. Body(c) = Body(Excluded(b))
      BY <1>1, <1>2, <1>3 DEF IntentInv
    <3>2. c.blocks = Excluded(b).blocks /\ c.pending = Excluded(b).pending
          /\ c.retired = Excluded(b).retired
      BY <3>1 DEF Body
    <3>3. /\ Excluded(b).pending = NoBlock /\ Excluded(b).retired = j.current.retired \cup {b}
          /\ \A e \in MapBlocks :
              /\ c.blocks[e].base = j.current.blocks[e].base
              /\ c.blocks[e].seq = j.current.blocks[e].seq
              /\ c.blocks[e].valid = j.current.blocks[e].valid
              /\ c.blocks[e].consumed = IF e = b THEN j.working[b].consumed
                                        ELSE j.current.blocks[e].consumed
      BY <1>3, <2>4, <3>2, ExcludedFollows DEF HistoryInv
    <3>4. c.blocks \in [MapBlocks -> Ranges] /\ j.current.blocks \in [MapBlocks -> Ranges]
      BY <1>3, SnapshotFields
    <3>5. \A e \in MapBlocks \ {b} : c.blocks[e] = j.current.blocks[e]
      BY <3>3, <3>4, SameRange
    <3>7. c.epoch = j.current.epoch + 1 /\ c.high_water >= j.current.high_water
      BY <1>3 DEF Transition
    <3> QED
      BY <2>4, <3>2, <3>3, <3>4, <3>5, <3>7
  <2>8. /\ Published \in Journals /\ Published.booted = j.booted
        /\ Published.reconciled = j.reconciled
        /\ Published.next_slot = c.slot + 1 /\ Published.fresh = j.fresh
        /\ Published.current = c /\ Published.working = j.working
    BY <1>2, <1>3, PublishedFields
  <2>9. /\ j' \in Journals /\ j'.booted = j.booted /\ j'.next_slot = c.slot + 1
        /\ j'.fresh = j.fresh \ {b} /\ j'.inflight = NoLease /\ j'.current = c
        /\ j'.reconciled = j.reconciled /\ j'.working = j.working
    <3> DEFINE P == Published
    <3>1. j' = [P EXCEPT !.fresh = @ \ {b}, !.inflight = NoLease]
      BY <1>g
    <3>2. /\ P \in Journals /\ P.booted = j.booted /\ P.reconciled = j.reconciled
          /\ P.next_slot = c.slot + 1 /\ P.fresh = j.fresh
          /\ P.current = c /\ P.working = j.working
      BY <2>8
    <3> HIDE DEF P
    <3> QED
      BY <3>1, <3>2 DEF Journals
  <2>a. /\ d' \in Adapters /\ d'.sequence = d.sequence /\ d'.high_water = d.high_water
        /\ d'.retired = d.retired \cup {b} /\ d'.writable = d.writable
        /\ d'.format = d.format \ {b}
        /\ d'.ready <=> d.ready \/ d.format = {b}
        /\ d'.base = d.base /\ d'.consumed = d.consumed
    <3> DEFINE F == Formatted(b)
    <3>1. d' = [F EXCEPT !.retired = @ \cup {b}]
      BY <1>g
    <3>2. /\ F \in Adapters /\ F.sequence = d.sequence
          /\ F.high_water = d.high_water /\ F.retired = d.retired
          /\ F.writable = d.writable /\ F.format = d.format \ {b}
          /\ F.base = d.base /\ F.consumed = d.consumed
          /\ F.ready <=> d.ready \/ d.format = {b}
      BY <1>3, <2>4, FormattedFields
    <3> HIDE DEF F
    <3>3. /\ d' \in Adapters /\ d'.sequence = F.sequence /\ d'.high_water = F.high_water
          /\ d'.retired = F.retired \cup {b} /\ d'.writable = F.writable /\ d'.format = F.format
          /\ d'.ready = F.ready /\ d'.base = F.base /\ d'.consumed = F.consumed
      BY <2>4, <3>1, <3>2 DEF Adapters
    <3> QED
      BY <3>2, <3>3
  <2>10. TypeInv' /\ ~Publishing' /\ op'.pc = "idle"
    BY <1>1, <1>2, <1>3, <1>g, <2>9, <2>a, DoneTypes DEF TypeInv, Idle
  <2>12. RootInv'
    BY <1>1, <1>2, <1>3, <2>9, DoneRoot DEF PublishInv
  <2>u. d.retired = j.current.retired /\ map' = map /\ used' = used /\ kept' = kept /\ vol' = vol
    BY <1>1, <1>3, <1>g DEF AdapterInv, durable
  <2>13. HistoryInv'
    <3>1. ASSUME NEW e \in MapBlocks PROVE Extends(c.blocks[e], j.working[e])
      <4>1. CASE e = b
        <5>1. c.blocks[b] \in Ranges /\ j.working[b] \in Ranges
          BY <1>3, <2>4, <2>6
        <5>2. Extends(j.current.blocks[b], j.working[b])
          BY <1>3, <2>4 DEF HistoryInv
        <5> QED
          BY <2>4, <2>6, <4>1, <5>1, <5>2, RangeFields DEF Extends
      <4>2. CASE e # b
        BY <1>3, <2>6, <4>2 DEF HistoryInv
      <4> QED
        BY <4>1, <4>2
    <3>3. ASSUME NEW e \in j.fresh \ {b} PROVE FreshInv(e)'
      <4>1. FreshInv(e)
        BY <1>3 DEF HistoryInv
      <4>2. j'.working = j.working /\ d'.base = d.base /\ d'.consumed = d.consumed
            /\ j'.current.retired = j.current.retired \cup {b}
        BY <2>6, <2>9, <2>a
      <4> QED
        BY <2>u, <4>1, <4>2 DEF FreshInv
    <3> QED
      BY <1>3, <2>9, <2>u, <3>1, <3>3 DEF HistoryInv
  <2>14. LeaseInv'
    BY <2>9, <2>10, CleanLease
  <2>16. AdapterInv'
    <3>1. d'.sequence <= c.epoch /\ d'.high_water <= c.high_water
      <4>1. /\ c.epoch \in Nat /\ c.high_water \in Nat /\ d.sequence \in Nat /\ d.high_water \in Nat
            /\ j.current.epoch \in Nat /\ j.current.high_water \in Nat
        BY <1>3, SnapshotFields DEF Adapters
      <4> QED
        BY <1>3, <2>6, <2>a, <4>1 DEF AdapterInv
    <3>2. d'.retired = c.retired /\ d'.format \cap d'.retired = {}
      BY <1>3, <2>6, <2>a DEF AdapterInv
    <3>3. d'.format # {} => vol' = "PROVISIONING" /\ ~d'.ready
      BY <1>3, <2>a, <2>u DEF AdapterInv
    <3>4. j'.reconciled /\ d'.writable /\ vol' \in {"PROVISIONING", "WRITABLE"}
      BY <1>3, <2>4, <2>9, <2>a, <2>u DEF AdapterInv
    <3>5. j'.current.pending = NoBlock /\ j'.inflight.kind # "erase" /\ j'.current = c
      BY <2>6, <2>9 DEF NoLease
    <3> QED
      BY ONLY <2>10, <3>1, <3>2, <3>3, <3>4, <3>5 DEF AdapterInv
  <2>17. ModeInv'
    BY <1>1, <1>3, <1>g, <2>9, <2>10 DEF ModeInv, durable
  <2> QED
    BY <1>11, <2>10, <2>12, <2>13, <2>14, <2>16, <2>17 DEF OwnedInv, LiveInv
<1> QED
  BY <1>1, <1>f, <1>g

-----------------------------------------------------------------------------
(* Faults, resets and the life cycle of the volume.                        *)

(* Fence: no fault changes what is durable.                                *)
LEMMA FenceActionStep ==
  ASSUME OwnedInv, Fence
  PROVE  OwnedInv'
<1>1. /\ Fenced /\ UNCHANGED <<phase, banks, map, history>>
      /\ latched' \in {latched} \cup IF op.pc = "verify" \/ ~j.booted THEN {TRUE} ELSE {}
  BY DEF Fence
<1>2. TypeInv /\ DurableInv
  BY DEF OwnedInv
<1>3. latched' \in BOOLEAN
  BY <1>1, <1>2 DEF TypeInv
<1>4. DurableInv'
  BY <1>1, <1>2, DurableStays DEF history, DurableInv
<1> QED
  BY <1>1, <1>2, <1>3, <1>4, FenceStep DEF history, TypeInv, BankPairs

(* Reset: flash is as the last step left it, and RAM is lost.              *)
LEMMA ResetStep ==
  ASSUME OwnedInv, Reset
  PROVE  OwnedInv'
<1>1. /\ j' = NoJournal /\ d' = NoAdapter /\ op' = Idle /\ boots' = boots + 1
      /\ UNCHANGED <<durable, used, acked, kept>>
      /\ \/ vol' = "FENCED"
         \/ vol' = "PREPARED" /\ phase = "PREPARED"
         \/ vol' = "CONFIGURED"
         \/ vol' = "RECOVERY_PREPARED" /\ phase \notin {"PREPARED", "ACTIVE"}
  BY DEF Reset
<1>2. TypeInv /\ DurableInv
  BY DEF OwnedInv
<1>3. DurableInv'
  BY <1>1, <1>2, DurableStays DEF durable, DurableInv
<1>4. TypeInv' /\ ~j'.booted /\ op'.pc = "idle" /\ ~Publishing'
  <2>1. boots' \in Nat
    BY <1>1, <1>2 DEF TypeInv
  <2> QED
    BY <1>1, <1>2, <2>1, RestTypes DEF TypeInv, durable, Publishing
<1>5. ModeInv'
  BY <1>1, <1>2, <1>4 DEF ModeInv, TypeInv, durable
<1> QED
  BY <1>3, <1>4, <1>5 DEF OwnedInv

(* A call that only changes what the volume lets callers do.               *)
LEMMA QuietStep ==
  ASSUME OwnedInv, j.booted, op = Idle, UNCHANGED <<durable, j, op, history>>,
         vol' \in {"READ_ONLY", "WRITABLE", "SUSPENDED", "CLOSED"},
         d' \in Adapters, d'.base = d.base, d'.consumed = d.consumed,
         d'.retired = j.current.retired, d'.sequence <= j.current.epoch,
         d'.high_water <= j.current.high_water, d'.format = {},
         d'.writable => j.reconciled /\ vol' = "WRITABLE"
  PROVE  OwnedInv'
<1>1. TypeInv /\ DurableInv /\ ModeInv /\ RootInv /\ HistoryInv /\ LeaseInv /\ AdapterInv
  BY DEF OwnedInv, LiveInv
<1>2. TypeInv'
  BY <1>1 DEF TypeInv, durable, history
<1>3. DurableInv'
  BY <1>1, DurableStays DEF durable, history, DurableInv
<1>4. op.pc = "idle" /\ ~Publishing /\ ~Publishing' /\ op'.pc = "idle" /\ ~Holding
  BY RestTypes DEF Publishing, Holding
<1>5. ModeInv'
  BY <1>1, <1>4 DEF ModeInv, durable
<1>6. RootInv'
  BY <1>1, <1>4 DEF RootInv, durable, history
<1>7. HistoryInv'
  BY <1>1 DEF HistoryInv, FreshInv, durable, history
<1>8. LeaseInv'
  BY <1>1, <1>4, CleanLease DEF LeaseInv
<1>9. AdapterInv'
  <2>1. d'.format \cap d'.retired = {}
    OBVIOUS
  <2> QED
    BY <1>1, <1>4, <2>1 DEF AdapterInv
<1> QED
  BY <1>2, <1>3, <1>4, <1>5, <1>6, <1>7, <1>8, <1>9 DEF OwnedInv, LiveInv

(* In the states after provisioning the adapter is at rest and formatted.  *)
LEMMA Mounted ==
  ASSUME OwnedInv, op = Idle, vol \in {"READ_ONLY", "WRITABLE", "SUSPENDED"}
  PROVE  /\ j.booted /\ AdapterInv /\ TypeInv /\ d \in Adapters /\ d.format = {}
         /\ j.current \in Snapshots /\ op.pc = "idle"
<1>1. op.pc = "idle" /\ ~Publishing
  BY RestTypes DEF Publishing
<1>2. j.booted
  BY <1>1 DEF OwnedInv, ModeInv
<1>3. TypeInv /\ AdapterInv /\ RootInv
  BY <1>2 DEF OwnedInv, LiveInv
<1> QED
  BY <1>1, <1>2, <1>3 DEF AdapterInv, TypeInv, RootInv

(* Grant: the adapter adopts the capability of the root, once it is        *)
(* reconciled.                                                             *)
LEMMA GrantStep ==
  ASSUME OwnedInv, Grant
  PROVE  OwnedInv'
<1>1. CASE ~j.reconciled
  BY <1>1, GrantPublishes
<1>2. CASE j.reconciled
  <2>1. /\ vol = "READ_ONLY" /\ op = Idle /\ d' = Granted(d, j.current) /\ vol' = "WRITABLE"
        /\ UNCHANGED <<j, op>> /\ UNCHANGED <<durable, history>>
    BY <1>2 DEF Grant
  <2>2. /\ j.booted /\ AdapterInv /\ d \in Adapters /\ d.format = {} /\ j.current \in Snapshots
    BY <2>1, Mounted
  <2>3. /\ d' \in Adapters /\ d'.sequence = j.current.epoch
        /\ d'.high_water = j.current.high_water /\ d'.retired = j.current.retired
        /\ d'.format = d.format /\ d'.base = d.base /\ d'.consumed = d.consumed
    <3>1. d' = Granted(d, j.current) /\ d \in Adapters /\ j.current \in Snapshots
      BY <2>1, <2>2
    <3> QED
      BY ONLY <3>1, GrantedFields
  <2>4. j.current.epoch \in Nat /\ j.current.high_water \in Nat
    BY <2>2, SnapshotFields
  <2> QED
    BY <1>2, <2>1, <2>2, <2>3, <2>4, QuietStep
<1> QED
  BY <1>1, <1>2

(* Suspend: a writable volume publishes its history first.                 *)
LEMMA SuspendStep ==
  ASSUME OwnedInv, Suspend
  PROVE  OwnedInv'
<1>1. vol \in {"READ_ONLY", "WRITABLE"} /\ op = Idle /\ UNCHANGED <<durable, history>>
  BY DEF Suspend
<1>2. /\ j.booted /\ AdapterInv /\ d \in Adapters /\ d.format = {} /\ j.current \in Snapshots
      /\ op.pc = "idle"
  BY <1>1, Mounted
<1>3. CASE d.writable
  <2>1. vol = "WRITABLE"
    BY <1>1, <1>2, <1>3 DEF AdapterInv
  <2>2. Publish(Synced, "suspend")
    BY <1>3 DEF Suspend
  <2> QED
    BY <1>1, <1>2, <1>3, <2>1, <2>2, SyncPublishes
<1>4. CASE ~d.writable
  <2>1. d' = [d EXCEPT !.ready = FALSE] /\ vol' = "SUSPENDED" /\ UNCHANGED <<j, op>>
    BY <1>4 DEF Suspend
  <2>2. /\ d' \in Adapters /\ d'.sequence = d.sequence /\ d'.high_water = d.high_water
        /\ d'.retired = d.retired /\ d'.format = d.format /\ d'.base = d.base
        /\ d'.consumed = d.consumed /\ d'.writable = d.writable
    BY <1>2, <2>1 DEF Adapters
  <2> QED
    BY <1>1, <1>2, <1>4, <2>1, <2>2, QuietStep DEF AdapterInv
<1> QED
  BY <1>3, <1>4

(* Reopen: the volume is readable again, with the RAM it was suspended     *)
(* with.                                                                   *)
LEMMA ReopenStep ==
  ASSUME OwnedInv, Reopen
  PROVE  OwnedInv'
<1>1. /\ vol = "SUSPENDED" /\ op = Idle /\ vol' = "READ_ONLY"
      /\ d' = [d EXCEPT !.ready = TRUE] /\ UNCHANGED <<durable, j, op, history>>
  BY DEF Reopen
<1>2. j.booted /\ AdapterInv /\ d \in Adapters /\ d.format = {} /\ j.current \in Snapshots
  BY <1>1, Mounted
<1>3. /\ d' \in Adapters /\ d'.sequence = d.sequence /\ d'.high_water = d.high_water
      /\ d'.retired = d.retired /\ d'.format = d.format /\ d'.base = d.base
      /\ d'.consumed = d.consumed /\ d'.writable = d.writable
  BY <1>1, <1>2 DEF Adapters
<1>4. ~d.writable
  BY <1>1, <1>2 DEF AdapterInv
<1> QED
  BY <1>1, <1>2, <1>3, <1>4, QuietStep DEF AdapterInv

(* Close: the adapter may write no more.                                   *)
LEMMA CloseStep ==
  ASSUME OwnedInv, Close
  PROVE  OwnedInv'
<1>1. /\ vol \in {"READ_ONLY", "WRITABLE"} /\ op = Idle /\ vol' = "CLOSED"
      /\ d' = [d EXCEPT !.writable = FALSE] /\ UNCHANGED <<durable, j, op, history>>
  BY DEF Close
<1>2. j.booted /\ AdapterInv /\ d \in Adapters /\ d.format = {} /\ j.current \in Snapshots
  BY <1>1, Mounted
<1>3. /\ d' \in Adapters /\ d'.sequence = d.sequence /\ d'.high_water = d.high_water
      /\ d'.retired = d.retired /\ d'.format = d.format /\ d'.base = d.base
      /\ d'.consumed = d.consumed /\ ~d'.writable
  BY <1>1, <1>2 DEF Adapters
<1> QED
  BY <1>1, <1>2, <1>3, QuietStep DEF AdapterInv

(* Advance: the configuration record says ACTIVE when the root does and    *)
(* something is kept.                                                      *)
LEMMA AdvanceStep ==
  ASSUME OwnedInv, Advance
  PROVE  OwnedInv'
<1>1. /\ op.pc = "advance" /\ phase' = "ACTIVE" /\ vol' = "WRITABLE" /\ op' = Idle
      /\ UNCHANGED <<latched, banks, map, j, d, history>>
  BY DEF Advance
<1>2. op.pc # "idle" /\ op.pc # "verify" /\ ~Publishing /\ ~Holding
  BY <1>1 DEF Publishing, Holding
<1>3. j.booted
  BY <1>1, <1>2, RestTypes DEF OwnedInv, ModeInv
<1>4. /\ TypeInv /\ DurableInv /\ ModeInv /\ RootInv /\ HistoryInv /\ LeaseInv /\ AdapterInv
      /\ Sound(j.current) /\ Boot(banks) = j.current /\ phase # "PREPARED"
  BY <1>2, <1>3, RootSound
<1>5. d.ready /\ j.current.state = "ACTIVE" /\ j.reconciled /\ kept # {} /\ d.format = {}
  BY <1>1, <1>4 DEF AdapterInv, OwnedInv
<1>6. TypeInv' /\ op'.pc = "idle" /\ ~Publishing'
  BY <1>1, <1>4, RestTypes DEF TypeInv, history, Publishing
<1>7. DurableInv'
  <2>1. Sound(Boot(banks))'
    BY <1>1, <1>4 DEF Sound, Follows, history
  <2> QED
    BY <1>1, <1>4, <1>5, <2>1 DEF DurableInv, history
<1>8. ModeInv'
  BY <1>1, <1>3, <1>6 DEF ModeInv
<1>9. RootInv'
  BY <1>1, <1>2, <1>4, <1>6 DEF RootInv, history
<1>10. HistoryInv'
  BY <1>1, <1>4 DEF HistoryInv, FreshInv, history
<1>11. LeaseInv'
  BY <1>1, <1>2, <1>4, <1>6, CleanLease DEF LeaseInv
<1>12. AdapterInv'
  BY <1>1, <1>4, <1>5, <1>6 DEF AdapterInv
<1> QED
  BY <1>6, <1>7, <1>8, <1>9, <1>10, <1>11, <1>12 DEF OwnedInv, LiveInv

(* Provision: PREPARED is left before a bank is touched, and nothing is    *)
(* sealed yet.                                                             *)
LEMMA ProvisionStep ==
  ASSUME OwnedInv, Provision
  PROVE  OwnedInv'
<1>1. /\ vol = "PREPARED" /\ op = Idle /\ phase' = "PROVISIONING" /\ vol' = "PROVISIONING"
      /\ op' = [pc |-> "erase", todo |-> <<1, 0>>, cand |-> Genesis, then |-> "provision"]
      /\ UNCHANGED <<latched, banks, map, j, d, history>>
  BY DEF Provision
<1>2. TypeInv /\ DurableInv /\ ModeInv
  BY DEF OwnedInv
<1>3. ~j.booted /\ phase = "PREPARED" /\ j = NoJournal /\ d = NoAdapter
  BY <1>1, <1>2 DEF ModeInv
<1>4. NothingSealed(banks) /\ acked = NoRoot /\ kept = {} /\ used = {}
  BY <1>2, <1>3 DEF DurableInv
<1>5. Genesis \in Snapshots
  BY <1>2, GenesisFits DEF TypeInv
<1>6. PICK c : c = Genesis
  OBVIOUS
<1>7. /\ op' \in Calls /\ Publishing' /\ op'.pc = "erase" /\ op'.todo = <<1, 0>> /\ op'.cand = c
      /\ op'.then = "provision"
  <2>1. op' = [pc |-> "erase", todo |-> <<1, 0>>, cand |-> c, then |-> "provision"]
    BY <1>1, <1>6
  <2> QED
    BY <1>5, <1>6, <2>1 DEF Calls, Thens, Publishing
<1>8. TypeInv'
  BY <1>1, <1>2, <1>7 DEF TypeInv, history
<1>9. DurableInv'
  BY <1>1, <1>4 DEF DurableInv, NothingSealed, history
<1>10. ProvisionInv'
  <2>1. Genesis' = Genesis
    BY <1>1 DEF Genesis, history
  <2>2. <<1, 0>> # <<0>>
    OBVIOUS
  <2> QED
    BY <1>1, <1>4, <1>6, <1>7, <2>1, <2>2 DEF ProvisionInv, NothingSealed, history
<1>11. ModeInv'
  BY <1>1, <1>3, <1>7, <1>10 DEF ModeInv
<1> QED
  BY <1>1, <1>3, <1>7, <1>8, <1>9, <1>11 DEF OwnedInv

(* A boot takes the root of the banks into the journal's RAM.              *)
LEMMA BootStep ==
  ASSUME OwnedInv, op = Idle, IsSnapshot(Boot(banks)), j' = Booted(Boot(banks)), op' = op,
         acked' = Boot(banks), UNCHANGED <<durable, boots, used, kept>>,
         d' \in Adapters, d'.sequence = 0, d'.high_water = 0, d'.retired = Boot(banks).retired,
         d'.format = {}, ~d'.writable,
         \/ vol' = "READ_ONLY"
         \/ vol' = "PROVISIONING" /\ phase = "PROVISIONING" /\ ~d'.ready
  PROVE  OwnedInv'
<1>1. TypeInv /\ DurableInv
  BY DEF OwnedInv
<1>2. PICK r : r = Boot(banks)
  OBVIOUS
<1>3. ~NothingSealed(banks)
  BY BootsNothing DEF NoRoot, IsSnapshot
<1>4. Sound(r) /\ phase # "PREPARED"
  BY <1>1, <1>2, <1>3 DEF DurableInv
<1>5. /\ r \in Snapshots /\ Syntax(r) /\ r.blocks \in [MapBlocks -> Ranges]
      /\ r.epoch \in Nat /\ r.high_water \in Nat
  <2>1. r \in Snapshots /\ Syntax(r)
    BY <1>4 DEF Sound, RootIs
  <2> QED
    BY <2>1, SnapshotFields
<1>6. /\ j' \in Journals /\ j'.booted /\ ~j'.reconciled /\ ~j'.tail_fresh /\ j'.fresh = {}
      /\ j'.inflight = NoLease /\ j'.current = r /\ j'.working = r.blocks
  <2>1. /\ NoJournal \in Journals /\ NoJournal.reconciled = FALSE /\ NoJournal.tail_fresh = FALSE
        /\ NoJournal.fresh = {} /\ NoJournal.inflight = NoLease
    BY RestTypes DEF NoJournal
  <2> DEFINE N == NoJournal
             w == r.blocks
  <2>2. j' = [N EXCEPT !.booted = TRUE, !.current = r, !.working = w]
    BY <1>2 DEF Booted
  <2>3. w \in [MapBlocks -> Ranges] /\ r \in Snapshots
    BY <1>5
  <2>4. /\ N \in Journals /\ N.reconciled = FALSE /\ N.tail_fresh = FALSE
        /\ N.fresh = {} /\ N.inflight = NoLease
    BY <2>1
  <2> HIDE DEF N, w
  <2>5. /\ j' \in Journals /\ j'.booted /\ ~j'.reconciled /\ ~j'.tail_fresh /\ j'.fresh = {}
        /\ j'.inflight = NoLease /\ j'.current = r /\ j'.working = w
    BY <2>2, <2>3, <2>4 DEF Journals
  <2> QED
    BY <2>5 DEF w
<1>7. op'.pc = "idle" /\ ~Publishing'
  BY RestTypes DEF Publishing
<1>8. TypeInv'
  BY <1>1, <1>2, <1>5, <1>6 DEF TypeInv, durable
<1>9. DurableInv'
  <2>1. Sound(Boot(banks))'
    BY <1>2, <1>4 DEF Sound, Follows, durable
  <2> QED
    BY <1>1, <1>4, <2>1 DEF DurableInv, durable
<1>10. ModeInv'
  BY <1>6, <1>7 DEF ModeInv, durable
<1>11. RootInv'
  BY <1>2, <1>4, <1>5, <1>6, <1>7 DEF RootInv, Sound, durable
<1>12. HistoryInv'
  <2>1. Holds(map', r)
    BY <1>4 DEF Sound, durable
  <2> QED
    BY <1>5, <1>6, <2>1, CleanHistory
<1>13. LeaseInv'
  BY <1>6, <1>7, CleanLease
<1>14. AdapterInv'
  BY <1>2, <1>5, <1>6, <1>7 DEF AdapterInv
<1> QED
  BY <1>7, <1>8, <1>9, <1>10, <1>11, <1>12, <1>13, <1>14 DEF OwnedInv, LiveInv

(* A boot that finds no root it may use fences the volume.                 *)
LEMMA BootRefused ==
  ASSUME OwnedInv, Fenced, UNCHANGED <<durable, history>>
  PROVE  OwnedInv'
<1>1. TypeInv /\ DurableInv
  BY DEF OwnedInv
<1>2. DurableInv'
  BY <1>1, DurableStays DEF durable, history, DurableInv
<1> QED
  BY <1>1, <1>2, FenceStep DEF durable, history, TypeInv, BankPairs

(* Mount: the root of the banks, or a fence.                               *)
LEMMA MountStep ==
  ASSUME OwnedInv, Mount
  PROVE  OwnedInv'
<1>1. op = Idle /\ UNCHANGED <<durable, boots, used, kept>>
  BY DEF Mount
<1>2. CASE Fenced /\ UNCHANGED acked
  BY <1>1, <1>2, BootRefused DEF history
<1>3. CASE /\ IsSnapshot(Boot(banks)) /\ j' = Booted(Boot(banks)) /\ vol' = "READ_ONLY"
           /\ d' = [NoAdapter EXCEPT !.ready = TRUE, !.retired = Boot(banks).retired]
           /\ acked' = Boot(banks) /\ UNCHANGED op
  <2>1. Boot(banks).retired \subseteq MapBlocks
    <3>1. ~NothingSealed(banks)
      BY <1>3, BootsNothing DEF NoRoot, IsSnapshot
    <3>2. Boot(banks) \in Snapshots
      BY <3>1 DEF OwnedInv, DurableInv, Sound, RootIs
    <3> QED
      BY <3>2, SnapshotFields
  <2>2. /\ d' \in Adapters /\ d'.sequence = 0 /\ d'.high_water = 0
        /\ d'.retired = Boot(banks).retired /\ d'.format = {} /\ ~d'.writable
    <3> DEFINE u == Boot(banks).retired
               N == NoAdapter
    <3>1. d' = [N EXCEPT !.ready = TRUE, !.retired = u] /\ u \in SUBSET MapBlocks
      BY <1>3, <2>1
    <3>2. N \in Adapters /\ N.sequence = 0 /\ N.high_water = 0 /\ N.format = {} /\ N.writable = FALSE
      BY RestTypes DEF NoAdapter
    <3> HIDE DEF u, N
    <3>3. /\ d' \in Adapters /\ d'.sequence = 0 /\ d'.high_water = 0
          /\ d'.retired = u /\ d'.format = {} /\ ~d'.writable
      BY <3>1, <3>2 DEF Adapters
    <3> QED
      BY <3>3 DEF u
  <2> QED
    BY <1>1, <1>3, <2>2, BootStep
<1> QED
  BY <1>2, <1>3 DEF Mount

(* RecoveryPrepare: the known root of an interrupted first format, or a    *)
(* fence.                                                                  *)
LEMMA RecoveryPrepareStep ==
  ASSUME OwnedInv, RecoveryPrepare
  PROVE  OwnedInv'
<1>1. vol = "RECOVERY_PREPARED" /\ op = Idle /\ UNCHANGED <<durable, boots, used, kept>>
  BY DEF RecoveryPrepare
<1>2. CASE Fenced /\ UNCHANGED acked
  BY <1>1, <1>2, BootRefused DEF history
<1>3. CASE /\ IsSnapshot(Boot(banks)) /\ KnownPhase2Root(Boot(banks))
           /\ j' = Booted(Boot(banks)) /\ vol' = "PROVISIONING"
           /\ acked' = Boot(banks) /\ UNCHANGED <<d, op>>
  <2>1. ModeInv
    BY DEF OwnedInv
  <2>2. phase = "PROVISIONING" /\ d = NoAdapter
    BY <1>1, <2>1 DEF ModeInv
  <2>3. /\ d' \in Adapters /\ d'.sequence = 0 /\ d'.high_water = 0 /\ d'.retired = {}
        /\ d'.format = {} /\ ~d'.writable /\ ~d'.ready
    BY <1>3, <2>2, RestTypes DEF NoAdapter
  <2>4. Boot(banks).retired = {}
    BY <1>3 DEF KnownPhase2Root
  <2> QED
    BY <1>1, <1>3, <2>2, <2>3, <2>4, BootStep
<1> QED
  BY <1>2, <1>3 DEF RecoveryPrepare

(* Sync: the page history in RAM may follow the root.                      *)
LEMMA SyncStep ==
  ASSUME OwnedInv, Sync
  PROVE  OwnedInv'
<1>1. op = Idle /\ d.writable /\ Publish(Synced, "sync") /\ UNCHANGED <<durable, history>>
  BY DEF Sync, MayMutate
<1> QED
  BY <1>1, RestTypes, SyncPublishes

-----------------------------------------------------------------------------
(* The leases of the NAND operations.                                      *)

(* The identity of a lease in flight lies in the range of its block.       *)
LEMMA LeaseBounds ==
  ASSUME OwnedInv, Holding, op.pc # "verify"
  PROVE  /\ j.inflight.base \in Nat /\ j.inflight.id \in Nat /\ j.inflight.page \in Nat
         /\ j.inflight.page < PagesPerBlock
         /\ j.inflight.base <= j.inflight.id
         /\ j.inflight.id <= j.inflight.base + PagesPerBlock
         /\ j.inflight.base + PagesPerBlock <= j.current.high_water
         /\ j.inflight.id \in Leases /\ j.inflight.kind \in {"erase", "program"}
         /\ j.inflight.slot \in MapBlocks
<1> USE GeometryAssumption
<1>1. PICK l : l = j.inflight
  OBVIOUS
<1>2. /\ j.booted /\ l \in LeaseRecords /\ l.slot \in MapBlocks /\ l.base # 0
      /\ l.base = j.current.blocks[l.slot].base
  BY <1>1, InFlight
<1>3. LeaseInv /\ j.current \in Snapshots /\ Syntax(j.current)
  BY <1>2, RootSound
<1>4. /\ l.base \in Nat /\ l.page \in Pages /\ l.kind \in {"erase", "program"} /\ l.id \in Nat
      /\ l.page \in Nat /\ l.page < PagesPerBlock
  <2>1. l.base \in Nat /\ l.page \in Pages /\ l.kind \in {"erase", "program"} /\ l.id \in Nat
    BY <1>2 DEF LeaseRecords
  <2> QED
    BY <2>1 DEF Pages
<1>5. l.id = l.base \/ l.id = l.base + 1 + l.page
  <2>1. (l.kind = "erase" => EraseInv(l)) /\ (l.kind = "program" => ProgramInv(l))
    BY <1>1, <1>3 DEF LeaseInv
  <2> QED
    BY <1>4, <2>1 DEF EraseInv, ProgramInv
<1>6. l.base + PagesPerBlock <= j.current.high_water
  <2>1. BlockSyntax(j.current, l.slot)
    BY <1>2, <1>3 DEF Syntax
  <2> QED
    BY <1>2, <2>1 DEF BlockSyntax
<1>7. j.current.high_water \in Nat /\ j.current.high_water <= MaxLease
  BY <1>3, SnapshotFields, LimitAssumption DEF Snapshots
<1>8. l.base <= l.id /\ l.id <= l.base + PagesPerBlock
  BY <1>4, <1>5
<1>9. l.id \in Leases
  BY <1>2, <1>4, <1>6, <1>7, <1>8, LimitAssumption DEF Leases
<1> QED
  BY <1>1, <1>2, <1>4, <1>6, <1>8, <1>9

(* AcquireProgram: the page is consumed before it is programmed, under a   *)
(* lease never used.                                                       *)
LEMMA AcquireProgramStep ==
  ASSUME OwnedInv, NEW b \in MapBlocks, NEW p \in Pages, AcquireProgram(b, p)
  PROVE  OwnedInv'
<1>1. /\ op = Idle /\ d.writable /\ PageInfo(b, p) = "unused"
      /\ j' = [j EXCEPT !.working[b].consumed = p + 1,
                        !.inflight = [Lease("program", j.current, b, p) EXCEPT
                                        !.base = j.working[b].base, !.id = LeaseOf(b, p)]]
      /\ op' = [pc |-> "lease"] /\ UNCHANGED <<durable, vol, d, history>>
  BY DEF AcquireProgram, MayMutate
<1>2. op.pc = "idle"
  BY <1>1, RestTypes
<1>3. j.booted /\ j.reconciled /\ j.current.pending = NoBlock /\ j.inflight = NoLease
  BY <1>1, <1>2, NothingPending
<1>4. /\ TypeInv /\ DurableInv /\ ModeInv /\ RootInv /\ HistoryInv /\ AdapterInv
      /\ j.current \in Snapshots /\ Syntax(j.current) /\ j \in Journals
      /\ j.working \in [MapBlocks -> Ranges]
  <2>1. /\ TypeInv /\ DurableInv /\ ModeInv /\ RootInv /\ HistoryInv /\ AdapterInv
        /\ j.current \in Snapshots /\ Syntax(j.current)
    BY <1>2, <1>3, RootSound
  <2> QED
    BY <2>1 DEF TypeInv, Journals
<1>5. PICK x : x = j.working[b]
  OBVIOUS
<1>6. /\ x \in Ranges /\ x.base \in Nat /\ x.consumed \in Nat /\ x.valid \subseteq Pages
      /\ p \in Nat /\ p < PagesPerBlock /\ p + 1 \in 0..PagesPerBlock
  <2>1. x \in Ranges
    BY <1>4, <1>5
  <2> QED
    BY <2>1, RangeFields, GeometryAssumption DEF Pages
<1>7. p \notin x.valid /\ b \in j.fresh /\ b \notin j.current.retired /\ p >= x.consumed
  BY <1>1, <1>5 DEF PageInfo
<1>8. FreshInv(b) /\ Extends(j.current.blocks[b], x)
  BY <1>4, <1>5, <1>7 DEF HistoryInv
<1>9. x.base # 0
  <2>1. NoRange.consumed = PagesPerBlock
    BY DEF NoRange
  <2> QED
    BY <1>6, <1>7, <1>8, <2>1 DEF Extends
<1>10. PICK y : y = [x EXCEPT !.consumed = p + 1]
  OBVIOUS
<1>11. /\ y \in Ranges /\ y.base = x.base /\ y.valid = x.valid /\ y.seq = x.seq
       /\ y.consumed = p + 1
  BY <1>6, <1>10 DEF Ranges
<1>12. PICK l : l = [Lease("program", j.current, b, p) EXCEPT !.base = j.working[b].base,
                                                             !.id = LeaseOf(b, p)]
  OBVIOUS
<1>13. /\ l \in LeaseRecords /\ l.kind = "program" /\ l.slot = b /\ l.page = p /\ l.base = x.base
       /\ l.sequence = j.current.epoch /\ l.id = x.base + 1 + p
  <2>1. PICK s, a, i, n : /\ s = j.current.epoch /\ a = j.current.blocks[b].base
                          /\ i = x.base + 1 + p /\ n = a + (1 + p)
    OBVIOUS
  <2>2. s \in Nat /\ a \in Nat /\ i \in Nat /\ n \in Nat
    BY <1>4, <1>6, <2>1, SnapshotFields, RangeFields
  <2>3. PICK r : r = [kind |-> "program", slot |-> b, page |-> p, base |-> a, sequence |-> s,
                      id |-> n]
    OBVIOUS
  <2>4. /\ r \in LeaseRecords /\ r.kind = "program" /\ r.slot = b /\ r.page = p
        /\ r.sequence = s
    BY <2>2, <2>3 DEF LeaseRecords
  <2>5. Lease("program", j.current, b, p) = r
    BY <2>1, <2>3 DEF Lease
  <2>6. l = [r EXCEPT !.base = x.base, !.id = i]
    BY <1>5, <1>12, <2>1, <2>5 DEF LeaseOf
  <2>7. /\ l \in LeaseRecords /\ l.kind = "program" /\ l.slot = b /\ l.page = p /\ l.base = x.base
        /\ l.sequence = s /\ l.id = i
    BY <1>6, <2>2, <2>4, <2>6 DEF LeaseRecords
  <2> QED
    BY <2>1, <2>7
<1>14. /\ j' \in Journals /\ j'.booted = j.booted /\ j'.reconciled = j.reconciled
       /\ j'.tail_fresh = j.tail_fresh /\ j'.next_slot = j.next_slot /\ j'.fresh = j.fresh
       /\ j'.inflight = l /\ j'.current = j.current /\ j'.working = [j.working EXCEPT ![b] = y]
  <2>2. j' = [j EXCEPT !.working[b].consumed = p + 1, !.inflight = l]
    BY <1>1, <1>12
  <2>3. j' = [j EXCEPT !.working = [j.working EXCEPT ![b] = y], !.inflight = l]
    BY <1>5, <1>10, <2>2
  <2>4. [j.working EXCEPT ![b] = y] \in [MapBlocks -> Ranges]
    BY <1>4, <1>11
  <2> DEFINE w == [j.working EXCEPT ![b] = y]
  <2> HIDE DEF w
  <2>5. j' = [j EXCEPT !.working = w, !.inflight = l] /\ w \in [MapBlocks -> Ranges]
    BY <2>3, <2>4 DEF w
  <2>6. /\ j' \in Journals /\ j'.booted = j.booted /\ j'.reconciled = j.reconciled
        /\ j'.tail_fresh = j.tail_fresh /\ j'.next_slot = j.next_slot /\ j'.fresh = j.fresh
        /\ j'.inflight = l /\ j'.current = j.current /\ j'.working = w
    BY <1>4, <1>13, <2>5 DEF Journals
  <2> QED
    BY <2>6 DEF w
<1>w. j'.working[b] = y /\ \A e \in MapBlocks \ {b} : j'.working[e] = j.working[e]
  BY <1>4, <1>14
<1>15. op'.pc = "lease" /\ op' \in Calls /\ ~Publishing' /\ Holding'
  BY <1>1 DEF Calls, Publishing, Holding
<1>16. TypeInv'
  BY <1>1, <1>4, <1>14, <1>15 DEF TypeInv, durable, history
<1>17. DurableInv'
  BY <1>1, <1>4, DurableStays DEF durable, history, DurableInv
<1>18. ModeInv'
  <2>1. ~Publishing
    BY <1>2 DEF Publishing
  <2> QED
    BY <1>1, <1>3, <1>4, <1>14, <1>15, <2>1 DEF ModeInv, durable
<1>19. RootInv'
  BY <1>1, <1>2, <1>4, <1>14, <1>15 DEF RootInv, durable, history
<1>u. d' = d /\ map' = map /\ used' = used /\ kept' = kept /\ vol' = vol
  BY <1>1 DEF durable, history
<1>20. HistoryInv'
  <2>1. ASSUME NEW e \in MapBlocks PROVE Extends(j.current.blocks[e], j'.working[e])
    <3>1. CASE e = b
      <4>1. j.current.blocks[b].consumed \in Nat
        BY <1>4, SnapshotFields, RangeFields
      <4>2. \A q \in y.valid : q < y.consumed
        BY <1>6, <1>7, <1>8, <1>11 DEF Extends, Pages
      <4>3. j.current.blocks[b].consumed <= y.consumed
        BY <1>6, <1>7, <1>8, <1>11, <4>1 DEF Extends
      <4> QED
        BY <1>8, <1>9, <1>11, <1>w, <3>1, <4>2, <4>3 DEF Extends
    <3>2. CASE e # b
      BY <1>4, <1>w, <3>2 DEF HistoryInv
    <3> QED
      BY <3>1, <3>2
  <2>2. \A e \in MapBlocks : \A q \in j'.working[e].valid : map[e][q] = j'.working[e].base + 1 + q
    BY <1>4, <1>5, <1>11, <1>w DEF HistoryInv
  <2>3. ASSUME NEW e \in j.fresh PROVE FreshInv(e)'
    <3>0. e \in MapBlocks /\ FreshInv(e)
      BY <1>4 DEF HistoryInv, Journals
    <3>1. CASE e = b
      <4>1. \A q \in d.consumed[b] : q < y.consumed
        <5>1. d.consumed[b] \subseteq Pages
          BY <1>4 DEF TypeInv, Adapters
        <5> QED
          BY <1>5, <1>6, <1>7, <1>8, <1>11, <5>1 DEF FreshInv, Pages
      <4>2. \A q \in Pages : q >= y.consumed => map[b][q] = Blank /\ y.base + 1 + q \notin used
        BY <1>5, <1>6, <1>7, <1>8, <1>11 DEF FreshInv, Pages
      <4> QED
        BY <1>5, <1>8, <1>11, <1>14, <1>u, <1>w, <3>1, <4>1, <4>2 DEF FreshInv
    <3>2. CASE e # b
      <4>1. j'.working[e] = j.working[e] /\ j'.current = j.current
        BY <1>14, <1>w, <3>0, <3>2
      <4> QED
        BY <1>u, <3>0, <4>1 DEF FreshInv
    <3> QED
      BY <3>1, <3>2
  <2> QED
    BY <1>14, <1>u, <2>1, <2>2, <2>3 DEF HistoryInv
<1>21. LeaseInv'
  <2>1. /\ l.page \notin d.consumed[l.slot] /\ l.id \notin used
    BY <1>5, <1>6, <1>7, <1>8, <1>13 DEF FreshInv, Pages
  <2>2. /\ l.id = l.base + 1 + l.page /\ l.slot \in j'.fresh
        /\ j'.working[l.slot].consumed = l.page + 1
        /\ l.page \notin j'.working[l.slot].valid
        /\ l.base # 0 /\ l.base = j'.working[l.slot].base
    BY <1>7, <1>9, <1>11, <1>13, <1>14, <1>w
  <2>3. /\ j'.inflight = l /\ l \in LeaseRecords /\ l.kind = "program" /\ j'.reconciled
        /\ d'.writable /\ l.slot \notin j'.current.retired /\ l.sequence = j'.current.epoch
    BY <1>1, <1>3, <1>7, <1>13, <1>14, <1>u
  <2> QED
    BY ONLY <1>15, <1>u, <2>1, <2>2, <2>3 DEF LeaseInv, ProgramInv
<1>22. AdapterInv'
  <2>1. j'.inflight.kind # "erase" /\ j'.current = j.current /\ j'.reconciled /\ j.reconciled
        /\ j'.current.pending = NoBlock
    BY <1>3, <1>13, <1>14
  <2> QED
    BY ONLY <1>4, <1>15, <1>u, <2>1 DEF AdapterInv
<1> QED
  BY <1>15, <1>16, <1>17, <1>18, <1>19, <1>20, <1>21, <1>22 DEF OwnedInv, LiveInv

(* The adapter accepts every lease the journal issues.                     *)
LEMMA LeaseIsAccepted ==
  ASSUME OwnedInv, op.pc = "lease"
  PROVE  LeaseAccepted
<1>1. Holding /\ op.pc # "verify"
  BY DEF Holding
<1>2. PICK l : l = j.inflight
  OBVIOUS
<1>3. /\ j.booted /\ l.slot \in MapBlocks /\ l.slot \notin j.current.retired /\ l.base # 0
      /\ l.base = j.working[l.slot].base /\ l.sequence = j.current.epoch
  BY <1>1, <1>2, InFlight
<1>4. TypeInv /\ HistoryInv /\ LeaseInv /\ AdapterInv /\ j.current \in Snapshots
  BY <1>1, <1>3, RootSound
<1>5. l.kind \in {"erase", "program"}
  BY <1>1, <1>2, LeaseBounds
<1>6. l.slot \notin d.retired /\ l.sequence >= d.sequence
  <2>1. d.sequence \in Nat /\ j.current.epoch \in Nat
    BY <1>4, SnapshotFields DEF TypeInv, Adapters
  <2> QED
    BY <1>3, <1>4, <2>1 DEF AdapterInv
<1>7. CASE l.kind = "erase"
  <2>1. EraseInv(l)
    BY <1>1, <1>2, <1>4, <1>7 DEF LeaseInv
  <2> QED
    BY <1>2, <1>3, <1>6, <1>7, <2>1 DEF LeaseAccepted, EraseInv
<1>8. CASE l.kind = "program"
  <2>1. ProgramInv(l)
    BY <1>1, <1>2, <1>4, <1>8 DEF LeaseInv
  <2>2. FreshInv(l.slot)
    BY <1>4, <2>1 DEF ProgramInv, HistoryInv
  <2>3. l.base = d.base[l.slot]
    BY <1>3, <2>2 DEF FreshInv
  <2> QED
    BY <1>2, <1>3, <1>6, <1>8, <2>1, <2>3 DEF LeaseAccepted, ProgramInv
<1> QED
  BY <1>5, <1>7, <1>8

(* AdapterAcquire: the adapter remembers the lease, within the high water  *)
(* of the root.                                                            *)
LEMMA AdapterAcquireStep ==
  ASSUME OwnedInv, AdapterAcquire
  PROVE  OwnedInv'
<1>1. op.pc = "lease"
  BY DEF AdapterAcquire
<1>2. PICK l : l = j.inflight
  OBVIOUS
<1>3. LeaseAccepted
  BY <1>1, LeaseIsAccepted
<1>h. Holding /\ op.pc # "verify" /\ ~Publishing
  BY <1>1 DEF Holding, Publishing
<1>4. PICK m, q : /\ m = Max({d.high_water, l.base + PagesPerBlock})
                  /\ q = IF l.kind = "program" THEN d.consumed[l.slot] \cup {l.page}
                         ELSE d.consumed[l.slot]
  OBVIOUS
<1>5. /\ d' = [d EXCEPT !.sequence = l.sequence, !.high_water = m, !.consumed[l.slot] = q]
      /\ op' = [pc |-> "mutate"] /\ UNCHANGED <<vol, j>> /\ UNCHANGED <<durable, history>>
  BY <1>2, <1>3, <1>4 DEF AdapterAcquire
<1>6. /\ j.booted /\ l \in LeaseRecords /\ l.slot \in MapBlocks
      /\ l.slot \notin j.current.retired /\ l.sequence = j.current.epoch
  BY <1>2, <1>h, InFlight
<1>7. /\ TypeInv /\ DurableInv /\ ModeInv /\ RootInv /\ HistoryInv /\ LeaseInv /\ AdapterInv
      /\ j.current \in Snapshots
  BY <1>6, <1>h, RootSound
<1>8. /\ d \in Adapters /\ d.high_water \in Nat /\ j.current.high_water \in Nat
      /\ d.consumed \in [MapBlocks -> SUBSET Pages] /\ l.base \in Nat /\ l.page \in Pages
      /\ j.current.epoch \in Nat /\ d.high_water <= j.current.high_water
      /\ l.base + PagesPerBlock \in Nat /\ l.base + PagesPerBlock <= j.current.high_water
  <2>1. d \in Adapters /\ d.high_water \in Nat /\ d.consumed \in [MapBlocks -> SUBSET Pages]
    BY <1>7 DEF TypeInv, Adapters
  <2>2. l.base \in Nat /\ l.page \in Pages
    BY <1>6 DEF LeaseRecords
  <2>3. l.base + PagesPerBlock <= j.current.high_water
    BY <1>2, <1>h, LeaseBounds
  <2> QED
    BY <1>7, <2>1, <2>2, <2>3, SnapshotFields, GeometryAssumption DEF AdapterInv
<1>9. m \in Nat /\ m <= j.current.high_water
  <2> DEFINE S == {d.high_water, l.base + PagesPerBlock}
  <2>1. S \subseteq Nat /\ S # {} /\ \A x \in S : x <= j.current.high_water
    BY <1>8
  <2>2. Max(S) \in S
    BY <1>8, <2>1, MaxOf
  <2> QED
    BY <1>4, <2>1, <2>2
<1>10. /\ d' \in Adapters /\ d'.sequence = j.current.epoch /\ d'.high_water = m
       /\ d'.retired = d.retired /\ d'.format = d.format /\ d'.ready = d.ready
       /\ d'.writable = d.writable /\ d'.base = d.base
       /\ d'.consumed = [d.consumed EXCEPT ![l.slot] = q]
  <2>1. q \in SUBSET Pages
    BY <1>4, <1>6, <1>8
  <2>2. l.sequence \in Nat
    BY <1>6, <1>8
  <2> QED
    BY <1>5, <1>6, <1>8, <1>9, <2>1, <2>2 DEF Adapters
<1>c. d'.consumed[l.slot] = q /\ \A e \in MapBlocks \ {l.slot} : d'.consumed[e] = d.consumed[e]
  BY <1>6, <1>8, <1>10
<1>11. op'.pc = "mutate" /\ op' \in Calls /\ ~Publishing' /\ Holding'
  BY <1>5 DEF Calls, Publishing, Holding
<1>12. TypeInv'
  BY <1>5, <1>7, <1>10, <1>11 DEF TypeInv, durable, history
<1>13. DurableInv'
  BY <1>5, <1>7, DurableStays DEF durable, history, DurableInv
<1>14. ModeInv'
  BY <1>5, <1>6, <1>7, <1>11, <1>h DEF ModeInv, durable
<1>15. RootInv'
  BY <1>5, <1>7, <1>11, <1>h DEF RootInv, durable, history
<1>u. j' = j /\ map' = map /\ used' = used /\ kept' = kept /\ vol' = vol
  BY <1>5 DEF durable, history
<1>16. HistoryInv'
  <2>1. ASSUME NEW e \in j.fresh PROVE FreshInv(e)'
    <3>1. FreshInv(e) /\ e \in MapBlocks
      BY <1>7 DEF HistoryInv, TypeInv, Journals
    <3>2. \A p \in d'.consumed[e] : p < j.working[e].consumed
      <4>1. CASE e = l.slot /\ l.kind = "program"
        <5>1. ProgramInv(l)
          BY <1>2, <1>7, <1>h, <4>1 DEF LeaseInv
        <5>2. l.page < j.working[e].consumed
          BY <1>8, <4>1, <5>1, GeometryAssumption DEF ProgramInv, Pages
        <5> QED
          BY <1>4, <1>c, <3>1, <4>1, <5>2 DEF FreshInv
      <4>2. CASE e # l.slot \/ l.kind # "program"
        BY <1>4, <1>c, <3>1, <4>2 DEF FreshInv
      <4> QED
        BY <4>1, <4>2
    <3> QED
      BY <1>10, <1>u, <3>1, <3>2 DEF FreshInv
  <2> QED
    BY <1>7, <1>u, <2>1 DEF HistoryInv
<1>17. LeaseInv'
  <2>1. l.kind = "erase" => EraseInv(l)
    BY <1>2, <1>7, <1>h DEF LeaseInv
  <2>2. l.kind = "program" => ProgramInv(l)
    BY <1>2, <1>7, <1>h DEF LeaseInv
  <2>3. l.kind = "erase" => EraseInv(l)'
    BY <1>1, <1>11, <1>u, <2>1 DEF EraseInv
  <2>4. l.kind = "program" => ProgramInv(l)'
    BY <1>1, <1>11, <1>u, <2>2 DEF ProgramInv
  <2>5. /\ j.inflight = l /\ l \in LeaseRecords /\ j.reconciled /\ d'.writable
        /\ l.slot \notin j.current.retired /\ l.base # 0 /\ l.base = j.working[l.slot].base
        /\ l.sequence = j.current.epoch
    BY <1>2, <1>7, <1>10, <1>h DEF LeaseInv
  <2> QED
    BY ONLY <1>11, <1>u, <2>3, <2>4, <2>5 DEF LeaseInv, EraseInv, ProgramInv
<1>18. AdapterInv'
  BY ONLY <1>1, <1>7, <1>8, <1>9, <1>10, <1>11, <1>u DEF AdapterInv
<1> QED
  BY <1>11, <1>12, <1>13, <1>14, <1>15, <1>16, <1>17, <1>18 DEF OwnedInv, LiveInv

(* Leases of different blocks differ: the ranges are disjoint.             *)
LEMMA RangesApart ==
  ASSUME NEW s \in Snapshots, Syntax(s), NEW b \in MapBlocks, NEW e \in MapBlocks, e # b,
         s.blocks[b].base # 0, s.blocks[e].base # 0,
         NEW i \in Nat, s.blocks[b].base <= i, i <= s.blocks[b].base + PagesPerBlock,
         NEW p \in Pages
  PROVE  s.blocks[e].base + 1 + p # i
<1>1. s.blocks[b].base \in Nat /\ s.blocks[e].base \in Nat
  BY SnapshotFields, RangeFields
<1>2. \/ s.blocks[b].base > s.blocks[e].base + PagesPerBlock
      \/ s.blocks[e].base > s.blocks[b].base + PagesPerBlock
  <2>1. BlockSyntax(s, b)
    BY DEF Syntax
  <2> QED
    BY <2>1 DEF BlockSyntax
<1>3. p \in Nat /\ p + 1 <= PagesPerBlock /\ PagesPerBlock \in Nat
  BY GeometryAssumption DEF Pages
<1> QED
  BY <1>1, <1>2, <1>3

(* A physical operation touches only pages the histories do not vouch for. *)
LEMMA TouchedMedia ==
  ASSUME OwnedInv, op.pc = "mutate", NEW l, l = j.inflight,
         map' \in [MapBlocks -> [Pages -> {Blank, Garbage} \cup Leases]],
         \A e \in MapBlocks, p \in Pages :
           map'[e][p] = map[e][p] \/ (e = l.slot /\ (l.kind = "erase" \/ p = l.page)),
         used' = used \cup {l.id}, UNCHANGED <<phase, banks, boots, acked, kept>>
  PROVE  /\ DurableInv' /\ used' \subseteq Leases
         /\ \A u \in used' : u <= j.current.high_water
         /\ j' = j /\ d' = d => HistoryInv'
<1>1. Holding /\ op.pc # "verify"
  BY DEF Holding
<1>2. PICK b : b = l.slot
  OBVIOUS
<1>3. /\ j.booted /\ b \in MapBlocks /\ l.base # 0 /\ l.base = j.working[b].base
      /\ l.base = j.current.blocks[b].base
  BY <1>1, <1>2, InFlight
<1>4. /\ TypeInv /\ DurableInv /\ HistoryInv /\ LeaseInv /\ RootInv
      /\ j.current \in Snapshots /\ Syntax(j.current) /\ Sound(j.current) /\ Boot(banks) = j.current
      /\ phase # "PREPARED"
  BY <1>1, <1>3, RootSound
<1>5. /\ l.base \in Nat /\ l.id \in Nat /\ l.page \in Nat /\ l.page < PagesPerBlock
      /\ l.base <= l.id /\ l.id <= l.base + PagesPerBlock
      /\ l.base + PagesPerBlock <= j.current.high_water
      /\ l.id \in Leases /\ l.kind \in {"erase", "program"}
  BY <1>1, LeaseBounds
<1>6. /\ l.kind = "erase" => b \notin j.fresh /\ j.working[b].valid = {}
      /\ l.kind = "program" => /\ l.id = l.base + 1 + l.page
                               /\ j.working[b].consumed = l.page + 1
                               /\ l.page \notin j.working[b].valid
  BY <1>1, <1>2, <1>4 DEF LeaseInv, EraseInv, ProgramInv
<1>7. j.working \in [MapBlocks -> Ranges] /\ j.current.blocks \in [MapBlocks -> Ranges]
      /\ j.fresh \subseteq MapBlocks /\ j.current.high_water \in Nat
  BY <1>4, SnapshotFields DEF TypeInv, Journals
<1>8. ASSUME NEW e \in MapBlocks, NEW p \in j.working[e].valid
      PROVE  map'[e][p] = map[e][p]
  <2>1. p \in Pages
    BY <1>7, RangeFields
  <2> QED
    BY <1>2, <1>5, <1>6, <2>1
<1>9. Holds(map', j.current)
  <2> SUFFICES ASSUME NEW e \in MapBlocks, NEW p \in j.current.blocks[e].valid
               PROVE  map'[e][p] = j.current.blocks[e].base + 1 + p
    BY DEF Holds
  <2>1. p \in j.working[e].valid
    BY <1>4 DEF HistoryInv, Extends
  <2> QED
    BY <1>4, <1>8, <2>1 DEF Sound, Holds
<1>10. \A u \in used' : u <= j.current.high_water
  <2>1. l.id <= j.current.high_water
    BY <1>5, <1>7, GeometryAssumption
  <2> QED
    BY <1>4, <2>1 DEF RootInv
<1>11. DurableInv'
  <2>1. Sound(Boot(banks))'
    BY <1>4, <1>9, <1>10 DEF Sound, Follows
  <2> QED
    BY <1>4, <2>1 DEF DurableInv
<1>12. used' \subseteq Leases
  BY <1>4, <1>5 DEF TypeInv
<1>13. ASSUME j' = j, d' = d
       PROVE  HistoryInv'
  <2>1. \A e \in MapBlocks : \A p \in j.working[e].valid : map'[e][p] = j.working[e].base + 1 + p
    BY <1>4, <1>8 DEF HistoryInv
  <2>2. ASSUME NEW e \in j.fresh PROVE FreshInv(e)'
    <3>1. FreshInv(e) /\ e \in MapBlocks
      BY <1>4, <1>7 DEF HistoryInv
    <3>2. ASSUME NEW p \in Pages, p >= j.working[e].consumed
          PROVE  map'[e][p] = Blank /\ j.working[e].base + 1 + p \notin used'
      <4>1. map[e][p] = Blank /\ j.working[e].base + 1 + p \notin used
        BY <3>1, <3>2 DEF FreshInv
      <4>2. /\ j.working[e] \in Ranges /\ j.working[e].base \in Nat /\ p \in Nat
            /\ p < PagesPerBlock /\ PagesPerBlock \in Nat
        BY <1>7, <3>1, RangeFields, GeometryAssumption DEF Pages
      <4>3. CASE e = b
        <5>1. l.kind = "program" /\ p # l.page
          BY <1>5, <1>6, <3>2, <4>2, <4>3
        <5>2. map'[e][p] = map[e][p]
          BY <1>2, <3>1, <5>1
        <5>3. j.working[e].base + 1 + p # l.id
          <6>1. j.working[e].base = l.base /\ l.id = l.base + 1 + l.page
            BY <1>3, <1>6, <4>3, <5>1
          <6>2. \A x \in Nat, m \in Nat, n \in Nat : m # n => x + 1 + m # x + 1 + n
            OBVIOUS
          <6>3. l.base \in Nat /\ l.page \in Nat /\ p \in Nat /\ p # l.page
            BY <1>5, <4>2, <5>1
          <6>4. l.base + 1 + p # l.base + 1 + l.page
            BY ONLY <6>2, <6>3
          <6> QED
            BY ONLY <6>1, <6>4
        <5> QED
          BY <4>1, <5>2, <5>3
      <4>4. CASE e # b
        <5>1. map'[e][p] = map[e][p]
          BY <1>2, <3>1, <4>4
        <5>2. /\ j.working[e].base = j.current.blocks[e].base
              /\ j.working[e].base = 0 => j.working[e] = NoRange
          BY <1>4, <3>1 DEF HistoryInv, Extends
        <5>3. j.working[e].base # 0
          <6>1. NoRange.consumed = PagesPerBlock
            BY DEF NoRange
          <6> QED
            BY <3>2, <4>2, <5>2, <6>1
        <5>4. j.current.blocks[e].base + 1 + p # l.id
          BY <1>3, <1>4, <1>5, <3>1, <4>4, <5>2, <5>3, RangesApart
        <5> QED
          BY <4>1, <5>1, <5>2, <5>4
      <4> QED
        BY <4>3, <4>4
    <3> QED
      BY <1>13, <3>1, <3>2 DEF FreshInv
  <2> QED
    BY <1>4, <1>13, <2>1, <2>2 DEF HistoryInv
<1> QED
  BY <1>10, <1>11, <1>12, <1>13

(* After the operation the lease is resolved, or its block is retired.     *)
LEMMA TouchedStep ==
  ASSUME OwnedInv, op.pc = "mutate", NEW l, l = j.inflight,
         map' \in [MapBlocks -> [Pages -> {Blank, Garbage} \cup Leases]],
         \A e \in MapBlocks, p \in Pages :
           map'[e][p] = map[e][p] \/ (e = l.slot /\ (l.kind = "erase" \/ p = l.page)),
         used' = used \cup {l.id}, UNCHANGED <<phase, latched, banks, boots, acked, kept>>,
         UNCHANGED <<vol, j, d>>, NEW pc \in {"resolve", "retire"}, op' = [pc |-> pc],
         pc = "resolve" /\ l.kind = "erase" => \A p \in Pages : map'[l.slot][p] = Blank,
         pc = "resolve" /\ l.kind = "program" => map'[l.slot][l.page] = l.id
  PROVE  OwnedInv'
<1>1. Holding /\ op.pc # "verify" /\ ~Publishing
  BY DEF Holding, Publishing
<1>2. j.booted
  BY <1>1, InFlight
<1>3. TypeInv /\ ModeInv /\ LeaseInv /\ RootInv /\ AdapterInv
  BY <1>1, <1>2, RootSound
<1>4. /\ DurableInv' /\ used' \subseteq Leases /\ HistoryInv'
      /\ \A u \in used' : u <= j.current.high_water
  BY TouchedMedia
<1>5. op'.pc = pc /\ op' \in Calls /\ ~Publishing' /\ Holding'
  BY DEF Calls, Publishing, Holding
<1>6. TypeInv'
  BY <1>3, <1>4, <1>5 DEF TypeInv
<1>7. ModeInv'
  BY <1>1, <1>2, <1>3, <1>5 DEF ModeInv
<1>8. RootInv'
  BY <1>1, <1>3, <1>4, <1>5 DEF RootInv
<1>9. LeaseInv'
  <2>1. /\ l \in LeaseRecords /\ j.reconciled /\ d.writable
        /\ l.slot \notin j.current.retired
        /\ l.base # 0 /\ l.base = j.working[l.slot].base
        /\ l.sequence = j.current.epoch
        /\ l.kind = "erase" => EraseInv(l)
        /\ l.kind = "program" => ProgramInv(l)
    BY <1>1, <1>3 DEF LeaseInv
  <2>2. l.base \in Nat /\ used \subseteq Nat
    BY <1>3, <2>1 DEF LeaseRecords, TypeInv, Leases
  <2>3. l.kind = "erase" => EraseInv(l)'
    <3> SUFFICES ASSUME l.kind = "erase" PROVE EraseInv(l)'
      OBVIOUS
    <3>1. EraseInv(l)
      BY <2>1
    <3>2. \A u \in used' : u <= l.base
      BY <2>2, <3>1 DEF EraseInv
    <3> QED
      BY <1>5, <3>1, <3>2 DEF EraseInv
  <2>4. l.kind = "program" => ProgramInv(l)'
    BY <1>5, <2>1 DEF ProgramInv
  <2>5. j' = j /\ d' = d /\ j.inflight = l
    OBVIOUS
  <2> QED
    BY ONLY <1>5, <2>1, <2>3, <2>4, <2>5 DEF LeaseInv, EraseInv, ProgramInv
<1>10. AdapterInv'
  BY <1>3, <1>5 DEF AdapterInv
<1> QED
  BY <1>4, <1>5, <1>6, <1>7, <1>8, <1>9, <1>10 DEF OwnedInv, LiveInv

(* Mutate: the block is blank, or the page holds its lease.                *)
LEMMA MutateStep ==
  ASSUME OwnedInv, Mutate
  PROVE  OwnedInv'
<1>2. PICK l : l = j.inflight
  OBVIOUS
<1>1. /\ op.pc = "mutate" /\ map' = Mutated(l) /\ used' = used \cup {l.id}
      /\ op' = [pc |-> "resolve"]
      /\ UNCHANGED <<phase, latched, banks, vol, j, d, boots, acked, kept>>
  BY <1>2 DEF Mutate
<1>3. Holding /\ op.pc # "verify"
  BY <1>1 DEF Holding
<1>4. /\ l.id \in Leases /\ l.kind \in {"erase", "program"} /\ l.slot \in MapBlocks /\ l.page \in Pages
  <2>1. l.page \in Nat /\ l.page < PagesPerBlock
    BY <1>2, <1>3, LeaseBounds
  <2> QED
    BY <1>2, <1>3, <2>1, LeaseBounds, GeometryAssumption DEF Pages
<1>5. map \in [MapBlocks -> [Pages -> {Blank, Garbage} \cup Leases]]
  BY DEF OwnedInv, TypeInv
<1>6. CASE l.kind = "erase"
  <2>1. map' = [map EXCEPT ![l.slot] = [p \in Pages |-> Blank]]
    BY <1>1, <1>6 DEF Mutated
  <2>2. /\ map' \in [MapBlocks -> [Pages -> {Blank, Garbage} \cup Leases]]
        /\ \A e \in MapBlocks, p \in Pages : map'[e][p] = map[e][p] \/ e = l.slot
        /\ \A p \in Pages : map'[l.slot][p] = Blank
    BY <1>4, <1>5, <2>1
  <2> QED
    BY <1>1, <1>2, <1>6, <2>2, TouchedStep
<1>7. CASE l.kind = "program"
  <2>1. map' = [map EXCEPT ![l.slot][l.page] = l.id]
    BY <1>1, <1>7 DEF Mutated
  <2>2. /\ map' \in [MapBlocks -> [Pages -> {Blank, Garbage} \cup Leases]]
        /\ \A e \in MapBlocks, p \in Pages :
             map'[e][p] = map[e][p] \/ (e = l.slot /\ p = l.page)
        /\ map'[l.slot][l.page] = l.id
    BY <1>4, <1>5, <2>1
  <2> QED
    BY <1>1, <1>2, <1>7, <2>2, TouchedStep
<1> QED
  BY <1>4, <1>6, <1>7

(* MutateFails: whatever the block holds now, no page that counts is in    *)
(* it.                                                                     *)
LEMMA MutateFailsStep ==
  ASSUME OwnedInv, MutateFails
  PROVE  OwnedInv'
<1>2. PICK l : l = j.inflight
  OBVIOUS
<1>1. /\ op.pc = "mutate" /\ used' = used \cup {l.id}
      /\ UNCHANGED <<phase, latched, banks, boots, acked, kept>>
      /\ \/ op' = [pc |-> "retire"] /\ UNCHANGED <<vol, j, d>>
         \/ Fenced
      /\ \/ /\ l.kind = "erase"
            /\ \E torn \in SUBSET Pages :
                 map' = [map EXCEPT ![l.slot] =
                           [p \in Pages |-> IF p \in torn THEN Garbage ELSE @[p]]]
         \/ /\ l.kind = "program"
            /\ \E left \in {Garbage, l.id} : map' = [map EXCEPT ![l.slot][l.page] = left]
  BY <1>2 DEF MutateFails
<1>3. Holding /\ op.pc # "verify"
  BY <1>1 DEF Holding
<1>4. /\ l.id \in Leases /\ l.slot \in MapBlocks /\ l.page \in Pages
  <2>1. l.page \in Nat /\ l.page < PagesPerBlock
    BY <1>2, <1>3, LeaseBounds
  <2> QED
    BY <1>2, <1>3, <2>1, LeaseBounds, GeometryAssumption DEF Pages
<1>5. TypeInv /\ map \in [MapBlocks -> [Pages -> {Blank, Garbage} \cup Leases]]
  BY DEF OwnedInv, TypeInv
<1>6. /\ map' \in [MapBlocks -> [Pages -> {Blank, Garbage} \cup Leases]]
      /\ \A e \in MapBlocks, p \in Pages :
           map'[e][p] = map[e][p] \/ (e = l.slot /\ (l.kind = "erase" \/ p = l.page))
  <2>1. CASE l.kind = "erase"
    <3>1. PICK torn \in SUBSET Pages :
            map' = [map EXCEPT ![l.slot] =
                      [p \in Pages |-> IF p \in torn THEN Garbage ELSE map[l.slot][p]]]
      BY <1>1, <2>1
    <3> QED
      BY <1>4, <1>5, <2>1, <3>1
  <2>2. CASE l.kind = "program"
    <3>1. PICK left \in {Garbage, l.id} : map' = [map EXCEPT ![l.slot][l.page] = left]
      BY <1>1, <2>2
    <3> QED
      BY <1>4, <1>5, <2>2, <3>1
  <2> QED
    BY <1>1, <2>1, <2>2
<1>7. CASE op' = [pc |-> "retire"] /\ UNCHANGED <<vol, j, d>>
  BY <1>1, <1>2, <1>6, <1>7, TouchedStep
<1>8. CASE Fenced
  <2>1. DurableInv' /\ used' \subseteq Leases
    BY <1>1, <1>2, <1>6, TouchedMedia
  <2> QED
    BY <1>1, <1>5, <1>6, <1>8, <2>1, FenceStep DEF TypeInv, BankPairs
<1> QED
  BY <1>1, <1>7, <1>8

(* ResolveProgram: the page is valid in RAM and holds its lease.           *)
LEMMA ResolveProgramStep ==
  ASSUME OwnedInv, ResolveProgram
  PROVE  OwnedInv'
<1>2. PICK l, b : l = j.inflight /\ b = j.inflight.slot
  OBVIOUS
<1>1. /\ op.pc = "resolve" /\ l.kind = "program"
      /\ j' = [j EXCEPT !.working[b].valid = @ \cup {l.page}, !.inflight = NoLease]
      /\ op' = Idle /\ UNCHANGED <<durable, vol, d, history>>
  BY <1>2 DEF ResolveProgram
<1>3. Holding /\ op.pc # "verify" /\ ~Publishing
  BY <1>1 DEF Holding, Publishing
<1>4. /\ j.booted /\ b \in MapBlocks /\ j.reconciled /\ l.base = j.working[b].base /\ l.base # 0
      /\ j.current.pending = NoBlock /\ l \in LeaseRecords
  BY <1>1, <1>2, <1>3, InFlight
<1>5. /\ TypeInv /\ DurableInv /\ ModeInv /\ RootInv /\ HistoryInv /\ AdapterInv /\ LeaseInv
      /\ j.current \in Snapshots /\ j \in Journals /\ j.working \in [MapBlocks -> Ranges]
  <2>1. /\ TypeInv /\ DurableInv /\ ModeInv /\ RootInv /\ HistoryInv /\ AdapterInv /\ LeaseInv
        /\ j.current \in Snapshots
    BY <1>3, <1>4, RootSound
  <2> QED
    BY <2>1 DEF TypeInv, Journals
<1>6. /\ l.id = l.base + 1 + l.page /\ j.working[b].consumed = l.page + 1
      /\ map[b][l.page] = l.id
  BY <1>1, <1>2, <1>3, <1>5 DEF LeaseInv, ProgramInv
<1>7. l.page \in Pages /\ l.page \in Nat
  BY <1>4, GeometryAssumption DEF LeaseRecords, Pages
<1>8. PICK x, v, y : /\ x = j.working[b] /\ v = j.working[b].valid \cup {l.page}
                     /\ y = [j.working[b] EXCEPT !.valid = j.working[b].valid \cup {l.page}]
  OBVIOUS
<1>9. /\ y \in Ranges /\ y.base = x.base /\ y.valid = v /\ y.seq = x.seq
      /\ y.consumed = x.consumed /\ x \in Ranges
  <2>1. x \in Ranges
    BY <1>4, <1>5, <1>8
  <2>2. v \subseteq Pages /\ y = [x EXCEPT !.valid = v]
    BY <1>7, <1>8, <2>1, RangeFields
  <2> QED
    BY <2>1, <2>2 DEF Ranges
<1>10. /\ j' \in Journals /\ j'.booted = j.booted /\ j'.reconciled = j.reconciled
       /\ j'.tail_fresh = j.tail_fresh /\ j'.next_slot = j.next_slot /\ j'.fresh = j.fresh
       /\ j'.inflight = NoLease /\ j'.current = j.current
       /\ j'.working = [j.working EXCEPT ![b] = y]
  <2> DEFINE w == [j.working EXCEPT ![b] = y]
  <2>1. j' = [j EXCEPT !.working = w, !.inflight = NoLease]
    BY <1>1, <1>8
  <2>2. w \in [MapBlocks -> Ranges]
    BY <1>5, <1>9
  <2> HIDE DEF w
  <2>3. /\ j' \in Journals /\ j'.booted = j.booted /\ j'.reconciled = j.reconciled
        /\ j'.tail_fresh = j.tail_fresh /\ j'.next_slot = j.next_slot /\ j'.fresh = j.fresh
        /\ j'.inflight = NoLease /\ j'.current = j.current /\ j'.working = w
    BY <1>5, <2>1, <2>2 DEF Journals
  <2> QED
    BY <2>3 DEF w
<1>w. j'.working[b] = y /\ \A e \in MapBlocks \ {b} : j'.working[e] = j.working[e]
  BY <1>4, <1>5, <1>10
<1>11. op'.pc = "idle" /\ op' \in Calls /\ ~Publishing'
  BY <1>1, RestTypes DEF Publishing
<1>12. TypeInv'
  BY <1>1, <1>5, <1>10, <1>11 DEF TypeInv, durable, history
<1>13. DurableInv'
  BY <1>1, <1>5, DurableStays DEF durable, history, DurableInv
<1>14. ModeInv'
  BY <1>1, <1>3, <1>4, <1>5, <1>10, <1>11 DEF ModeInv, durable
<1>15. RootInv'
  BY <1>1, <1>3, <1>5, <1>10, <1>11 DEF RootInv, durable, history
<1>u. d' = d /\ map' = map /\ used' = used /\ vol' = vol
  BY <1>1 DEF durable, history
<1>16. HistoryInv'
  <2>1. ASSUME NEW e \in MapBlocks PROVE Extends(j.current.blocks[e], j'.working[e])
    <3>1. CASE e = b
      <4>1. Extends(j.current.blocks[b], x)
        BY <1>4, <1>5, <1>8 DEF HistoryInv
      <4>2. \A p \in v : p < x.consumed
        BY <1>6, <1>7, <1>8, <4>1 DEF Extends
      <4> QED
        BY <1>4, <1>8, <1>9, <1>w, <3>1, <4>1, <4>2 DEF Extends
    <3>2. CASE e # b
      BY <1>5, <1>w, <3>2 DEF HistoryInv
    <3> QED
      BY <3>1, <3>2
  <2>2. ASSUME NEW e \in MapBlocks, NEW p \in j'.working[e].valid
        PROVE  map[e][p] = j'.working[e].base + 1 + p
    <3>1. CASE e = b
      <4>1. p \in x.valid \/ p = l.page
        BY <1>8, <1>9, <1>w, <3>1
      <4>2. j'.working[e].base = l.base
        BY <1>4, <1>8, <1>9, <1>w, <3>1
      <4>3. p \in x.valid => map[b][p] = l.base + 1 + p
        BY <1>4, <1>5, <1>8 DEF HistoryInv
      <4> QED
        BY <1>6, <3>1, <4>1, <4>2, <4>3
    <3>2. CASE e # b
      BY <1>5, <1>w, <3>2 DEF HistoryInv
    <3> QED
      BY <3>1, <3>2
  <2>3. ASSUME NEW e \in j.fresh PROVE FreshInv(e)'
    <3>1. FreshInv(e) /\ e \in MapBlocks
      BY <1>5 DEF HistoryInv, Journals
    <3>2. /\ j'.working[e].base = j.working[e].base /\ j'.working[e].consumed = j.working[e].consumed
          /\ j'.current = j.current
      BY <1>8, <1>9, <1>10, <1>w, <3>1
    <3> QED
      BY <1>u, <3>1, <3>2 DEF FreshInv
  <2> QED
    BY <1>10, <1>u, <2>1, <2>2, <2>3 DEF HistoryInv
<1>17. LeaseInv'
  BY <1>10, <1>11, CleanLease
<1>18. AdapterInv'
  <2>1. j'.inflight.kind # "erase" /\ j'.current = j.current /\ j'.reconciled /\ j.reconciled
        /\ j'.current.pending = NoBlock
    BY <1>4, <1>10 DEF NoLease
  <2> QED
    BY ONLY <1>5, <1>11, <1>u, <2>1 DEF AdapterInv
<1> QED
  BY <1>11, <1>12, <1>13, <1>14, <1>15, <1>16, <1>17, <1>18 DEF OwnedInv, LiveInv

-----------------------------------------------------------------------------
(* The invariant holds in every state, and what follows from it.           *)

(* A device as delivered satisfies the invariant.                          *)
LEMMA OwnedInit ==
  ASSUME Init
  PROVE  OwnedInv
<1> USE DEF Init
<1>1. banks \in BankPairs /\ NothingSealed(banks)
  <2>1. \A k \in Banks : \E x \in {Erased, Torn} : banks[k] = [i \in BankSlot |-> x]
    OBVIOUS
  <2>2. \A k \in Banks, i \in BankSlot : banks[k][i] \in {Erased, Torn}
    BY <2>1
  <2>3. ~IsSnapshot(Erased) /\ ~IsSnapshot(Torn)
    BY DEF IsSnapshot, Erased, Torn
  <2>4. banks \in BankPairs
    <3>1. \A k \in Banks : banks[k] \in [BankSlot -> {Erased, Torn} \cup Snapshots]
      BY <2>1
    <3> QED
      BY <3>1 DEF BankPairs
  <2> QED
    BY <2>2, <2>3, <2>4 DEF NothingSealed
<1>2. TypeInv
  BY <1>1, RestTypes DEF TypeInv, BankPairs, NoRoot
<1>3. DurableInv
  BY <1>1 DEF DurableInv
<1>4. ~j.booted /\ op.pc = "idle" /\ ~Publishing
  BY RestTypes DEF Publishing
<1>5. ModeInv
  BY <1>4 DEF ModeInv
<1> QED
  BY <1>2, <1>3, <1>4, <1>5 DEF OwnedInv

(* The invariant depends on the variables alone.                           *)
LEMMA OwnedStutters ==
  ASSUME OwnedInv, UNCHANGED vars
  PROVE  OwnedInv'
<1>1. /\ phase' = phase /\ latched' = latched /\ banks' = banks /\ map' = map /\ vol' = vol
      /\ j' = j /\ d' = d /\ op' = op /\ boots' = boots /\ used' = used /\ acked' = acked
      /\ kept' = kept
  BY DEF vars, durable, history
<1>2. TypeInv => TypeInv'
  BY <1>1 DEF TypeInv
<1>3. DurableInv => DurableInv'
  BY <1>1 DEF DurableInv, NothingSealed, Sound, Follows
<1>4. Publishing' = Publishing /\ (ProvisionInv => ProvisionInv')
  BY <1>1 DEF Publishing, ProvisionInv, NothingSealed, Genesis
<1>5. ModeInv => ModeInv'
  BY <1>1, <1>4 DEF ModeInv
<1>6. LiveInv => LiveInv'
  <2>1. RootInv => RootInv'
    BY <1>1 DEF RootInv
  <2>2. HistoryInv => HistoryInv'
    BY <1>1 DEF HistoryInv, FreshInv
  <2>3. LeaseInv => LeaseInv'
    BY <1>1 DEF LeaseInv, Holding, Publishing, EraseInv, ProgramInv
  <2>4. AdapterInv => AdapterInv'
    BY <1>1 DEF AdapterInv
  <2> QED
    BY <2>1, <2>2, <2>3, <2>4 DEF LiveInv
<1>7. PublishInv => PublishInv'
  <2>1. PICK c : c = op.cand
    OBVIOUS
  <2>2. IntentInv(c) => IntentInv(c)'
    BY <1>1 DEF IntentInv, Synced, Reserved, Resolved, Excluded
  <2> QED
    BY <1>1, <2>1, <2>2 DEF PublishInv, IntentInv, Synced, Reserved, Resolved, Excluded
<1> QED
  BY <1>1, <1>2, <1>3, <1>4, <1>5, <1>6, <1>7 DEF OwnedInv

(* Every step preserves the invariant.                                     *)
LEMMA OwnedNext ==
  ASSUME OwnedInv, [Next]_vars
  PROVE  OwnedInv'
<1>1. CASE Lifecycle
  BY <1>1, ProvisionStep, ProvisionDoneStep, MountStep, RecoveryPrepareStep, RecoveryCommitStep,
     RecoveryDoneStep, GrantStep, GrantDoneStep, ActivateStep, ActivateDoneStep, AdvanceStep,
     SuspendStep, SyncDoneStep, ReopenStep, CloseStep DEF Lifecycle
<1>2. CASE Journal
  BY <1>2, EncodeStep, EraseBankStep, EraseBankFailsStep, ProgramBankStep, ProgramBankFailsStep
     DEF Journal
<1>3. CASE Nand
  BY <1>3, SyncStep, SyncDoneStep, AcquireEraseStep, AcquireEraseDoneStep, AcquireProgramStep,
     AdapterAcquireStep, MutateStep, MutateFailsStep, ResolveEraseStep, ResolveEraseDoneStep,
     ResolveProgramStep, RetireStep, RetireDoneStep DEF Nand
<1>4. CASE Fence \/ Reset
  BY <1>4, FenceActionStep, ResetStep
<1>5. CASE UNCHANGED vars
  BY <1>5, OwnedStutters
<1> QED
  BY <1>1, <1>2, <1>3, <1>4, <1>5 DEF Next

(* The banks hold one chain of snapshots, the journal's and the adapter's  *)
(* RAM agree with it and with the media, and a publish in progress extends *)
(* it, whatever is interrupted (owned_control_journal.c, owned_dhara.c).   *)
THEOREM OwnedInvariant == Spec => []OwnedInv
<1>1. Init => OwnedInv
  BY OwnedInit
<1>2. OwnedInv /\ [Next]_vars => OwnedInv'
  BY OwnedNext
<1> QED
  BY <1>1, <1>2, PTL DEF Spec

(* A boot always finds the newest snapshot a call was told is published,   *)
(* with the pages every sync vouched for; an active volume can be mounted. *)
LEMMA DurableFollows ==
  ASSUME OwnedInv
  PROVE  DurableAcrossResets
<1>1. TypeInv /\ DurableInv
  BY DEF OwnedInv
<1>2. PICK r : r = Boot(banks)
  OBVIOUS
<1>3. acked # NoRoot \/ kept # {} \/ phase = "ACTIVE" =>
        /\ Sound(r) /\ r \in Snapshots /\ IsSnapshot(r)
  BY <1>1, <1>2, SnapshotFields DEF DurableInv, Sound, RootIs
<1>4. RootNeverLost
  <2> SUFFICES ASSUME acked # NoRoot
               PROVE  /\ IsSnapshot(r) /\ r.epoch \in {acked.epoch, acked.epoch + 1}
                      /\ r.epoch = acked.epoch => r = acked
    BY <1>2 DEF RootNeverLost
  <2>1. acked \in Snapshots /\ acked.epoch \in Nat
    BY <1>1, SnapshotFields DEF TypeInv
  <2>2. acked = r \/ r.epoch = acked.epoch + 1
    BY <1>3 DEF Sound, Follows, Transition
  <2> QED
    BY <1>3, <2>1, <2>2
<1>5. kept # {} => \A x \in kept : /\ x[1] \in MapBlocks /\ x[2] \in r.blocks[x[1]].valid
                                   /\ x[3] = r.blocks[x[1]].base + 1 + x[2]
                                   /\ map[x[1]][x[2]] = x[3]
  <2>1. \A x \in kept : x[1] \in MapBlocks
    BY <1>1 DEF TypeInv
  <2> QED
    BY <1>3, <2>1 DEF Sound, Keeps, Holds
<1>6. SyncedSurvive
  BY <1>2, <1>3, <1>5 DEF SyncedSurvive
<1>7. ActiveMountable
  <2> SUFFICES ASSUME phase = "ACTIVE"
               PROVE  /\ IsSnapshot(r) /\ r.state = "ACTIVE"
                      /\ \E b \in MapBlocks : r.blocks[b].valid # {}
    BY <1>2 DEF ActiveMountable
  <2>1. r.state = "ACTIVE" /\ kept # {}
    BY <1>1, <1>2 DEF DurableInv
  <2>2. PICK x \in kept : TRUE
    BY <2>1
  <2>3. x[1] \in MapBlocks /\ r.blocks[x[1]].valid # {}
    BY <1>5, <2>2
  <2> QED
    BY <1>3, <2>1, <2>3
<1> QED
  BY <1>4, <1>6, <1>7 DEF DurableAcrossResets

(* The property DurableAcrossResets of the runs, for every geometry and    *)
(* any number of resets.                                                   *)
THEOREM DurableAcrossResetsHolds == Spec => []DurableAcrossResets
<1>1. OwnedInv => DurableAcrossResets
  BY DurableFollows
<1> QED
  BY <1>1, OwnedInvariant, PTL

(* A snapshot has the type the runs check.                                 *)
LEMMA SnapshotTyped ==
  ASSUME NEW s \in Snapshots
  PROVE  Snapshot(s)
<1>1. \A b \in MapBlocks : s.blocks[b] \in Ranges
  BY SnapshotFields
<1>2. \A b \in MapBlocks : s.blocks[b].valid \subseteq Pages
  BY <1>1, RangeFields
<1> QED
  BY <1>2, SnapshotFields DEF Snapshot

(* The invariant implies LayersHonest.                                     *)
LEMMA HonestFollows ==
  ASSUME OwnedInv
  PROVE  LayersHonest
<1>1. TypeInv /\ ModeInv /\ j \in Journals /\ d \in Adapters
  BY DEF OwnedInv, TypeInv
<1>2. TypeOK
  <2>1. \A k \in Banks, i \in BankSlot : banks[k][i] \in {Erased, Torn} \/ Snapshot(banks[k][i])
    BY <1>1, SnapshotTyped DEF TypeInv
  <2>2. j.booted => Snapshot(j.current)
    BY SnapshotTyped DEF OwnedInv, LiveInv, RootInv
  <2>3. j.fresh \subseteq MapBlocks /\ d.retired \subseteq MapBlocks
    BY <1>1 DEF Journals, Adapters
  <2> QED
    BY <1>1, <2>1, <2>2, <2>3 DEF TypeOK, TypeInv
<1>3. TailErased
  <2> SUFFICES ASSUME op.pc = "program" PROVE banks[op.cand.bank][op.cand.slot] = Erased
    BY DEF TailErased
  <2>1. /\ op.cand \in Snapshots /\ op.cand.slot \in BankSlot
        /\ \A i \in BankSlot : i >= op.cand.slot => banks[op.cand.bank][i] = Erased
    BY ProgramPlace
  <2>2. op.cand.slot \in Nat
    BY <2>1, SnapshotFields
  <2> QED
    BY <2>1, <2>2
<1>4. PageInfoHonest
  <2> SUFFICES ASSUME j.booted, NEW b \in MapBlocks, NEW p \in Pages
               PROVE  /\ PageInfo(b, p) = "committed" => map[b][p] = LeaseOf(b, p)
                      /\ PageInfo(b, p) = "unused" => map[b][p] = Blank
    BY DEF PageInfoHonest
  <2>1. HistoryInv
    BY DEF OwnedInv, LiveInv
  <2>2. PageInfo(b, p) = "committed" => p \in j.working[b].valid
    BY DEF PageInfo
  <2>3. PageInfo(b, p) = "unused" => b \in j.fresh /\ p >= j.working[b].consumed
    BY DEF PageInfo
  <2> QED
    BY <2>1, <2>2, <2>3 DEF HistoryInv, FreshInv, LeaseOf
<1>5. LayersAgree
  <2>1. ASSUME op.pc = "encode" PROVE Syntax(op.cand) /\ Transition(j.current, op.cand)
    <3>1. Publishing /\ op.pc # "idle"
      BY <2>1 DEF Publishing
    <3>2. j.booted
      BY <1>1, <2>1, <3>1, RestTypes DEF ModeInv, ProvisionInv
    <3>3. PublishInv
      BY <3>1, <3>2 DEF OwnedInv
    <3> QED
      BY <3>3 DEF PublishInv
  <2> QED
    BY <2>1, LeaseIsAccepted DEF LayersAgree
<1> QED
  BY <1>2, <1>3, <1>4, <1>5 DEF LayersHonest

(* The property LayersHonest of the runs: page_info, the tail of the bank  *)
(* and the checks of the two layers agree, for every geometry.             *)
THEOREM LayersHonestHolds == Spec => []LayersHonest
<1>1. OwnedInv => LayersHonest
  BY HonestFollows
<1> QED
  BY <1>1, OwnedInvariant, PTL

(* The invariant implies LeaseFresh.                                       *)
LEMMA FreshFollows ==
  ASSUME OwnedInv, op.pc = "mutate"
  PROVE  j.inflight.id \notin used /\ j.inflight.slot \notin j.current.retired
<1>1. Holding /\ op.pc # "verify"
  BY DEF Holding
<1>2. PICK l : l = j.inflight
  OBVIOUS
<1>3. j.booted /\ l.slot \notin j.current.retired /\ l \in LeaseRecords
  BY <1>1, <1>2, InFlight
<1>4. LeaseInv
  BY <1>3 DEF OwnedInv, LiveInv
<1>5. l.kind \in {"erase", "program"} /\ l.base \in Nat /\ used \subseteq Nat
  BY <1>3 DEF LeaseRecords, OwnedInv, TypeInv, Leases
<1>6. CASE l.kind = "erase"
  <2>1. l.id = l.base /\ \A u \in used : u < l.base
    BY <1>1, <1>2, <1>4, <1>6 DEF LeaseInv, EraseInv
  <2> QED
    BY <1>2, <1>3, <1>5, <2>1
<1>7. CASE l.kind = "program"
  BY <1>1, <1>2, <1>3, <1>4, <1>7 DEF LeaseInv, ProgramInv
<1> QED
  BY <1>5, <1>6, <1>7

(* The property LeaseFresh of the runs: no lease serves two physical       *)
(* operations, across any number of resets, and none touches a retired     *)
(* block (od_lease, ocj_acquire).                                          *)
THEOREM LeaseFreshHolds == Spec => []LeaseFresh
<1>1. OwnedInv => LeaseFresh
  BY FreshFollows DEF LeaseFresh
<1> QED
  BY <1>1, OwnedInvariant, PTL

(* The snapshot a call is told of is the one it published, or the one a    *)
(* boot selected.                                                          *)
LEMMA AckedMoves ==
  ASSUME [Next]_vars
  PROVE  \/ acked' = acked
         \/ op.pc = "verify" /\ acked' = op.cand
         \/ IsSnapshot(Boot(banks)) /\ acked' = Boot(banks)
<1>1. CASE UNCHANGED vars
  BY <1>1 DEF vars, history
<1>2. CASE Fence \/ Reset
  BY <1>2 DEF Fence, Reset, history
<1>3. CASE Journal
  BY <1>3 DEF Journal, Encode, EraseBank, EraseBankFails, ProgramBank, ProgramBankFails, history
<1>4. CASE Nand
  BY <1>4 DEF Nand, Sync, SyncDone, AcquireErase, AcquireEraseDone, AcquireProgram, AdapterAcquire,
     Mutate, MutateFails, ResolveErase, ResolveEraseDone, ResolveProgram, Retire, RetireDone,
     Verified, history
<1>5. CASE Lifecycle
  BY <1>5 DEF Lifecycle, Provision, ProvisionDone, Mount, RecoveryPrepare, RecoveryCommit,
     RecoveryDone, Grant, GrantDone, Activate, ActivateDone, Advance, Suspend, SuspendDone,
     Reopen, Close, Verified, history
<1> QED
  BY <1>1, <1>2, <1>3, <1>4, <1>5 DEF Next

(* Whenever the acknowledged snapshot changes, the new one may follow the  *)
(* old.                                                                    *)
LEMMA RetirementStep ==
  ASSUME OwnedInv, [Next]_vars, acked # NoRoot, acked' # acked
  PROVE  /\ acked'.epoch > acked.epoch /\ acked.retired \subseteq acked'.retired
         /\ acked'.high_water >= acked.high_water
<1>1. TypeInv /\ DurableInv /\ ModeInv
  BY DEF OwnedInv
<1>2. Transition(acked, acked')
  <2>1. CASE op.pc = "verify" /\ acked' = op.cand
    <3>1. Publishing /\ op.pc # "idle"
      BY <2>1 DEF Publishing
    <3>2. op.then # "provision"
      <4> SUFFICES ASSUME op.then = "provision" PROVE FALSE
        OBVIOUS
      <4>1. ~j.booted
        BY <1>1, <3>1 DEF ModeInv
      <4>2. acked = NoRoot
        BY <1>1, <3>1, <4>1, RestTypes DEF ModeInv, ProvisionInv
      <4> QED
        BY <4>2
    <3>3. RootInv /\ Transition(j.current, op.cand)
      BY <2>1, <3>2, VerifiedFacts
    <3> QED
      BY <2>1, <3>3 DEF RootInv
  <2>2. CASE IsSnapshot(Boot(banks)) /\ acked' = Boot(banks)
    <3>1. Sound(Boot(banks))
      BY <1>1 DEF DurableInv
    <3> QED
      BY <2>2, <3>1 DEF Sound, Follows
  <2> QED
    BY <2>1, <2>2, AckedMoves
<1>3. acked.epoch \in Nat
  BY <1>1, SnapshotFields DEF TypeInv
<1> QED
  BY <1>2, <1>3 DEF Transition

(* The property RetirementIsFinal of the runs: a retired block stays       *)
(* retired for every later boot and the lease high water never falls       *)
(* (ocj_retire, transition).                                               *)
THEOREM RetirementIsFinalHolds == Spec => RetirementIsFinal
<1>1. OwnedInv /\ [Next]_vars =>
        [acked # NoRoot /\ acked' # acked =>
           /\ acked'.epoch > acked.epoch
           /\ acked.retired \subseteq acked'.retired
           /\ acked'.high_water >= acked.high_water]_vars
  BY RetirementStep
<1> QED
  BY <1>1, OwnedInvariant, PTL DEF Spec, RetirementIsFinal
=============================================================================
