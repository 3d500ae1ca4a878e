---------------------------- MODULE MCVaultLocks ----------------------------
(* Small instances of VaultLocks: two people, one of them with two tabs.   *)
EXTENDS VaultLocks, TLC

CONSTANTS alice, bob, a1, a2, b1

MCUsers == {alice, bob}
MCTabs == {a1, a2, b1}
MCUserOf == (a1 :> alice) @@ (a2 :> alice) @@ (b1 :> bob)
=============================================================================
