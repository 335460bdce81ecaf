---------------------------- MODULE MCNativeVolume -----------------------------
(* NativeVolume for TLC: ids and operations are interchangeable.           *)
EXTENDS NativeVolume, TLC

Symmetry == Permutations(Recs) \cup Permutations(Ops)
================================================================================
