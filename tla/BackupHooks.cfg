\* Three saves, one of them a restore, two threads for requests and runs,
\* scripts that fail, are ended or raise, a restart (no symmetry: it is not
\* sound for liveness).
SPECIFICATION FairSpec
CONSTANTS
  Saves = {s1, s2, s3}
  Restores = {s3}
  MaxScripts = 2
  Threads = 2
  MaxRestarts = 1
CHECK_DEADLOCK FALSE
INVARIANTS
  TypeOK
  OnlyAfterTheAnswer
  NothingOlder
PROPERTIES
  EveryScriptRuns
