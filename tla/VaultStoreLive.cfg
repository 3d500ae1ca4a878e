\* Every request ends (no symmetry: it is not sound for liveness).
SPECIFICATION FairSpec
CONSTANTS
  alice = alice
  bob = bob
  a1 = a1
  b1 = b1
  NoLock = NoLock
  NoTab = NoTab
  NoToken = NoToken
  NoReq = NoReq
  OtherReq = OtherReq
  Gone = Gone
  Users <- MCUsers
  Tabs <- MCOneTab
  UserOf <- MCOneTabUserOf
  LockReqs = {q1}
  Tokens = {k1}
  Reqs = {r1, r2}
  MaxSaves = 1
  MaxSeq = 1
  NobodyEdits = FALSE
PROPERTIES
  RequestsEnd
CHECK_DEADLOCK FALSE
