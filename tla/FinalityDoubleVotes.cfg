SPECIFICATION Spec
CONSTANTS
  v1 = v1
  v2 = v2
  v3 = v3
  Validators = {v1, v2, v3}
  Branches = {b1, b2}
  Balance <- EqualBalance
  EFFECTIVE_BALANCE_INCREMENT = 1
  ZeroRoot = ZeroRoot
  Aggregates <- OverlappingPairs
  FirstVotedEpoch = 2
  MaxEpoch = 4
  EmptyEpochs = {2,3}
  ForeignTargets = FALSE
  MaxSkew = 0
  MaxVotes = 8
  MaxSlashings = 0
SYMMETRY BranchSymmetry
INVARIANTS BitsTellJustified AccountableSafety
CHECK_DEADLOCK FALSE
