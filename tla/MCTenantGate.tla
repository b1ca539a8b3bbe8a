---------------------------- MODULE MCTenantGate ----------------------------
(* Instances of TenantGate for TLC.                                        *)
EXTENDS TenantGate, TLC

CONSTANTS k1, k2, s1, s2

OneValidOneDenied == (k1 :> "valid") @@ (k2 :> "denied")

Interchangeable == Permutations(Slots)
=============================================================================
