SPECIFICATION Spec

CONSTANTS
  NULL = NULL
  MaxRounds = 2

INVARIANTS
  LedgerIsTrue
PROPERTIES
  StatusIsFinal
  AwaitEnds
