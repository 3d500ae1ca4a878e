\* Two people write to one vault, or one writes while generations or the
\* vault are deleted.
SPECIFICATION Spec
CONSTANTS
  alice = alice
  bob = bob
  a1 = a1
  b1 = b1
  NoLock = NoLock
  NoTab = NoTab
  NoToken = NoToken
  NoReq = NoReq
  OtherReq = OtherReq
  Gone = Gone
  Users <- MCUsers
  Tabs <- MCPair
  UserOf <- MCPairUserOf
  LockReqs = {q1}
  Tokens = {k1, k2}
  Reqs = {r1, r2}
  MaxSaves = 2
  MaxSeq = 2
  NobodyEdits = TRUE
SYMMETRY MCSymmetry
CONSTRAINT MCTogetherOrDeleting
INVARIANTS
  TypeOK
  ConfirmedIsKept
  NumbersAreNeverReused
  GoneIsGone
PROPERTIES
  KeepsItsPromise
  SavesReplaceTheirBase
CHECK_DEADLOCK FALSE
