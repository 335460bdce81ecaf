------------------------------- MODULE MCNand -------------------------------
(***************************************************************************)
(* The two users of the flash chip, checked on one instance: the           *)
(* diagnostics of nand_id.c (NandDiagnostics) and the physical service of  *)
(* the recording volume (OwnedPhy).  They belong to two builds of the      *)
(* firmware (CMakeLists.txt), so a behaviour explores one of them, chosen  *)
(* at the start, and the other stays where it began.                       *)
(***************************************************************************)
EXTENDS NandDiagnostics

CONSTANTS PhyFaults, PhyResets   \* bounds of OwnedPhy

ASSUME PhyBounds == {PhyFaults, PhyResets} \subseteq Nat

VARIABLES
  layer,                         \* the layer explored
  pchip, phy, hw, call, spent

phyVars == <<pchip, phy, hw, call, spent>>
P == INSTANCE OwnedPhy WITH chip <- pchip, MaxFaults <- PhyFaults, MaxResets <- PhyResets

(* The layer that rests is given one of its initial states.                *)
MCInit == /\ layer \in {"diagnostics", "phy"} /\ Init /\ P!Init
          /\ layer = "diagnostics" => phy.profile = "full"
          /\ layer = "phy" => chip.a0 = "locked" /\ chip.busy = "no" /\ chip.array = "old"

MCNext == \/ layer = "diagnostics" /\ Next /\ UNCHANGED <<layer, phyVars>>
          \/ layer = "phy" /\ P!Next /\ UNCHANGED <<layer, vars>>

MCSpec == MCInit /\ [][MCNext]_<<layer, vars, phyVars>>

-----------------------------------------------------------------------------
(* Between two calls of the physical service the chip is locked and quiet, *)
(* and out of its scope nothing changes (nand_owned_phy.c): OwnedPhy's     *)
(* invariant.                                                              *)
PhyAtRest == P!AtRest

(* What the physical service answers is the truth about the array:         *)
(* OwnedPhy's invariant.                                                   *)
PhyHonest == P!Honest
=============================================================================
