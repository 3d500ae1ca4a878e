\* Requests of every kind overlap: shares and their subjects, memberships and
\* sign-ins.
SPECIFICATION Spec
CONSTANTS
  Absent = Absent
  Local = Local
  ann = ann
  bob = bob
  x1 = x1
  x2 = x2
  p1 = p1
  Vaults = {v1}
  Persons = {ann, bob}
  Externals = {x1, x2}
  Providers = {p1}
  ProviderOf <- MCProviderOf
  Names = {n1, n2}
  MaxCopies = 3
  MaxUsers = 2
  MaxGroups = 3
  MaxFetched = 2
  MaxShares = 1
  Reqs = {r1, r2}
SYMMETRY MCSymmetry
CONSTRAINT MCSharesOrMembers
ACTION_CONSTRAINT MCVaultFirst
CHECK_DEADLOCK FALSE
INVARIANTS
  NobodyInherits
  SharesHaveSubjects
  MembersExist
  MirrorsFindNames
PROPERTIES
  MirrorsFollowTheProvider
