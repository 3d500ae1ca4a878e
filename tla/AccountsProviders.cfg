\* Requests about providers overlap each other.
SPECIFICATION Spec
CONSTANTS
  Absent = Absent
  NoReq = NoReq
  Emails = {m1}
  Subjects = {s1}
  MaxProviders = 3
  MaxEntries = 2
  MaxUsers = 1
  Sessions = {k1}
  Reqs = {r1, r2}
  Ops <- MCProviders
SYMMETRY MCSymmetry
CHECK_DEADLOCK FALSE
INVARIANTS
  APrimary
  AtMostOnePrimary
PROPERTIES
  PrimaryStays
