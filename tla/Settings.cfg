\* Changes, setups and starts overlap.
SPECIFICATION Spec
CONSTANTS
  Origin = origin
  SecretKey = secretKey
  Numbers = {hours}
  Texts = {t1, t2}
  Secrets = {s1, s2, s3}
  Default = default
  Values = {default, v1}
  Empty = empty
  Null = null
  Absent = Absent
  Reqs = {r1, r2, r3}
SYMMETRY MCSymmetry
CHECK_DEADLOCK FALSE
INVARIANTS
  TypeOK
PROPERTIES
  SecretStays
  OnlyWhatWasAsked
