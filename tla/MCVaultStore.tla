---------------------------- MODULE MCVaultStore ----------------------------
(* Small instances of VaultStore.                                          *)
EXTENDS VaultStore, TLC

CONSTANTS alice, bob, a1, b1

MCUsers == {alice, bob}

(* Two people with a tab each, who compete for the lock.                   *)
MCPair == {a1, b1}
MCPairUserOf == (a1 :> alice) @@ (b1 :> bob)

(* One person; two requests of one tab carry the same lock token, as those *)
(* of two tabs of one person do.                                           *)
MCOneTab == {a1}
MCOneTabUserOf == (a1 :> alice)

MCSymmetry ==
  Permutations(LockReqs) \cup Permutations(Tokens) \cup Permutations(Reqs)

(* Bob has left no trace.                                                  *)
MCAliceAlone ==
  /\ held[b1] = NoToken /\ base[b1] = Nothing
  /\ lock # NoLock => lock.user = alice
  /\ \A r \in Reqs : req[r].tab # b1
  /\ \A q \in LockReqs : lockReq[q].tab # b1

(* Two people write, or one of them writes while something is deleted;     *)
(* beside the deletion of generations, which asks for no lock, no lock     *)
(* request is under way.                                                   *)
MCTogetherOrDeleting ==
  \/ condemned = {} /\ ~purged
  \/ /\ MCAliceAlone
     /\ purged => sent < 2
     /\ condemned # {} => \A q \in LockReqs : lockReq[q] = IdleLockReq
=============================================================================
