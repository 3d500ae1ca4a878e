--------------------------- MODULE MCEditSession ---------------------------
(* Small instances of EditSession.                                         *)
EXTENDS EditSession, TLC

MCSymmetry == Permutations(Saves) \cup Permutations(Vaults)
=============================================================================
