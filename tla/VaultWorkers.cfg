\* Three saves in two processes.
SPECIFICATION Spec
CONSTANTS
  Workers = {w1, w2}
  Reqs = {r1, r2, r3}
  NoReq = NoReq
  MaxSaves = 4
  MaxSeq = 3
SYMMETRY MCSymmetry
INVARIANTS
  OneWinner
  ConfirmedIsKept
CHECK_DEADLOCK FALSE
