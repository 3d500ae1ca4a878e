--------------------------- MODULE MCVaultWorkers ---------------------------
(* Small instances of VaultWorkers.                                        *)
EXTENDS VaultWorkers, TLC

MCSymmetry == Permutations(Reqs) \cup Permutations(Workers)
=============================================================================
