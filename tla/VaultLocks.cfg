\* Two people, one of them in two tabs, two overlapping requests, under
\* fairness (no symmetry: it is not sound for liveness).
SPECIFICATION FairLockSpec
CONSTANTS
  alice = alice
  bob = bob
  a1 = a1
  a2 = a2
  b1 = b1
  Users <- MCUsers
  Tabs <- MCTabs
  UserOf <- MCUserOf
  LockReqs = {q1, q2}
  NoLock = NoLock
  NoTab = NoTab
  Tokens = {k1, k2, k3}
  NoToken = NoToken
INVARIANTS
  LockTypeOK
  TokenIsPersonal
PROPERTIES
  LostLockIsNoticed
