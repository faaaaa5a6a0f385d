----------------------------- MODULE MCOrphanScan -----------------------------
(* Instances of OrphanScan for TLC: every asset belongs to d1.               *)
EXTENDS OrphanScan

CONSTANTS d1, d2, a1, k1, s1

MCAssetOf == [a \in Asset |-> d1]
==============================================================================
