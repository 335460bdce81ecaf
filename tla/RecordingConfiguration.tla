------------------------ MODULE RecordingConfiguration -------------------------
(***************************************************************************)
(* The configuration record of the recording volume                        *)
(* (recording_configuration.c): one setting, saved whole, read back and    *)
(* decoded before it counts.  Its descriptor names the generation of the   *)
(* volume: 1 the disposable test pool, 2 the whole chip, 3 and later the   *)
(* same chip after a reset of the recipient key.  A save that fails, or    *)
(* that cannot be read back, fences the record and with it the volume      *)
(* until the next reset, when either record may be found: the save and the *)
(* Fence of NativeVolume, in this order or without the save.               *)
(***************************************************************************)
EXTENDS Integers

CONSTANT MaxKeyResets   \* bound: key resets considered

ASSUME KeyResetsAssumption == MaxKeyResets \in Nat

VARIABLE cfg  \* durable: the record, its phase and the generation it describes

Legacy == 1
FullStorage == 2

Prepared(g) == [phase |-> "PREPARED", generation |-> g]

rcfg_is_full == cfg.generation >= FullStorage
rcfg_is_key_reset == cfg.generation > FullStorage

(* persist, when it succeeds.                                              *)
persist(next) == cfg' = next

rcfg_advance(expected, next) ==
  /\ cfg.phase = expected
  /\ persist([cfg EXCEPT !.phase = next])

(* The test pool is given up for the whole chip.                           *)
rcfg_prepare_full ==
  /\ cfg.phase = "ACTIVE" /\ ~rcfg_is_full
  /\ persist(Prepared(FullStorage))

(* A new recipient key is a new volume: the record of the old one is       *)
(* replaced, its identity kept only in the transition journal.             *)
rcfg_prepare_key_reset ==
  /\ cfg.phase = "ACTIVE" /\ rcfg_is_full
  /\ cfg.generation < FullStorage + MaxKeyResets
  /\ persist(Prepared(cfg.generation + 1))
================================================================================
