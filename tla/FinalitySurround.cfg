SPECIFICATION Spec
CONSTANTS
  v1 = v1
  v2 = v2
  v3 = v3
  Validators = {v1, v2}
  Branches = {b1, b2}
  Balance <- UnequalBalance
  EFFECTIVE_BALANCE_INCREMENT = 1
  ZeroRoot = ZeroRoot
  Aggregates <- OnlyV1
  FirstVotedEpoch = 2
  MaxEpoch = 6
  EmptyEpochs = {}
  ForeignTargets = FALSE
  MaxSkew = 1
  MaxVotes = 4
  MaxSlashings = 1
SYMMETRY BranchSymmetry
INVARIANT AccountableSafety
PROPERTY FinalityNeverReverted
CHECK_DEADLOCK FALSE
