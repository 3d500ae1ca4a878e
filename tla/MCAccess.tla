------------------------------ MODULE MCAccess ------------------------------
(* Small instances of Access.                                              *)
EXTENDS Access, TLC

CONSTANTS ann, bob, x1, x2, p1

MCProviderOf == (ann :> p1) @@ (bob :> p1) @@ (x1 :> p1) @@ (x2 :> p1)

MCSymmetry ==
  Permutations(Reqs) \cup Permutations(Names) \cup Permutations(Vaults)
    \cup Permutations(Persons) \cup Permutations(Externals)

(* What has lost its subject: requests, and shares that were written.      *)
Lost(r) ==
  CASE Doing(r, "share") -> \E s \in req[r].entries : s.lost
    [] req[r].op \in {"members", "groupsOf", "signIn"} -> req[r].lost
    [] OTHER -> FALSE
MCOneLost == Cardinality({r \in Reqs : Lost(r)} \cup {s \in shares : s.lost}) <= 1

(* Shares are set without mirrors and with one person, or memberships are  *)
(* changed without a vault, and groups made by hand while nothing else is  *)
(* under way.  Nothing happens while there is a third group.               *)
MCShares ==
  /\ used # {}
  /\ \A g \in Ids(group) : group[g].origin = Local
  /\ \E who \in Persons :
       /\ \A u \in Ids(user) : user[u].who = who
       /\ \A r \in Reqs : Doing(r, "signIn") => req[r].who = who
MCMembers ==
  /\ used = {}
  /\ \A r, q \in Reqs : Doing(r, "createGroup") => r = q \/ Doing(q, "idle")
MCSharesOrMembers == 3 \notin Ids(group) /\ MCOneLost /\ (MCShares \/ MCMembers)

(* The vault is there before everybody else.                               *)
MCVaultFirst ==
  used' # used => Ids(user) \cup Ids(group) = {} /\ \A r \in Reqs : Doing(r, "idle")
=============================================================================
