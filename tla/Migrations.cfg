\* A new database and every small one of version 2.0.0, with the process
\* stopped up to twice.
SPECIFICATION FairSpec
CONSTANTS
  Accounts = {u1, u2}
  Providers = {p1}
  Mails = {m1, m2}
  NoProvider = NoProvider
  NoMail = NoMail
  Absent = Absent
  NoFile = NoFile
  NoPort = NoPort
  OldPort = OldPort
  NewPort = NewPort
  OtherPort = OtherPort
  MaxCrashes = 2
CHECK_DEADLOCK FALSE
INVARIANTS
  AllOrNothing
  CarriedOver
PROPERTIES
  MigrationEnds
