\* A shallow payment listed before a mismatched one.
SPECIFICATION Spec
CONSTANTS
  Outputs = {o1, o2}
  Kinds <- MCKinds
  NULL = NULL
  Absent = Absent
  ConfirmationDepth = 2
  MaxTip = 3
  SourceBinding = TRUE
ACTION_CONSTRAINT FewerMoves
SYMMETRY OutputSymmetry
INVARIANTS
  ShallowWaits
