\* A provider with three pages, of which some link back.
SPECIFICATION FairFetch
CONSTANTS
  Groups = {g1, g2}
  Pages = 3
  MaxPages = 4
INVARIANTS
  WholeOrNothing
PROPERTIES
  SignInEnds
CHECK_DEADLOCK FALSE
