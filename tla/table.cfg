CONSTANTS
  Entries <- SomeEntries
  MaxElems = 6
SPECIFICATION Spec
CHECK_DEADLOCK FALSE
INVARIANTS
  TableSound
  LookupAnswers
PROPERTY WisdomSetImplemented
