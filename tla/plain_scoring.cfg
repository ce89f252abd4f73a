\* Two outputs of any kind, listed in any order, while the chain moves.
SPECIFICATION Spec
CONSTANTS
  Outputs = {o1, o2}
  Kinds <- MCKinds
  NULL = NULL
  Absent = Absent
  ConfirmationDepth = 2
  MaxTip = 3
  SourceBinding = TRUE
ACTION_CONSTRAINT FewerMoves
VIEW View
SYMMETRY OutputSymmetry
INVARIANTS
  TypeOK
  HonorWasBuried
  DeepIsHonored
  DeclineIsEarned
