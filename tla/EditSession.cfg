\* Two saves that overlap with each other, with edits, openings and other people.
SPECIFICATION Spec
CONSTANTS
  Vaults = {v1, v2}
  NoVault = NoVault
  Saves = {s1, s2}
  MaxEdits = 2
  MaxWrites = 2
  MaxSessions = 2
SYMMETRY MCSymmetry
INVARIANTS
  TypeOK
  CleanIsSaved
PROPERTIES
  NothingIsOverwritten
CHECK_DEADLOCK FALSE
