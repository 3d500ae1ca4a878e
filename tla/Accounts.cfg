\* Requests of administrators overlap each other and sign-ins in any way.
SPECIFICATION Spec
CONSTANTS
  Absent = Absent
  NoReq = NoReq
  Emails = {m1, m2}
  Subjects = {s1, s2}
  MaxProviders = 1
  MaxEntries = 2
  MaxUsers = 2
  Sessions = {k1, k2}
  Reqs = {r1, r2}
  Ops <- MCPeople
SYMMETRY MCSymmetry
CONSTRAINT MCUndoubted
CHECK_DEADLOCK FALSE
INVARIANTS
  TypeOK
  SessionsAreTheirOwners
  AnAdminIsListed
  RightsFollowTheList
