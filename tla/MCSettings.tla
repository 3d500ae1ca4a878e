----------------------------- MODULE MCSettings -----------------------------
(* Small instances of Settings.                                            *)
EXTENDS Settings, TLC

MCSymmetry == Permutations(Reqs) \cup Permutations(Texts) \cup Permutations(Secrets)
=============================================================================
