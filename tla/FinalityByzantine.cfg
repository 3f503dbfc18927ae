SPECIFICATION Spec
CONSTANTS
  v1 = v1
  v2 = v2
  v3 = v3
  Validators = {v1, v2}
  Branches = {b1, b2}
  Balance <- UnequalBalance
  EFFECTIVE_BALANCE_INCREMENT = 1
  ZeroRoot = ZeroRoot
  Aggregates <- AllAggregates
  FirstVotedEpoch = 2
  MaxEpoch = 4
  EmptyEpochs = {2}
  ForeignTargets = TRUE
  MaxSkew = 0
  MaxVotes = 3
  MaxSlashings = 1
SYMMETRY BranchSymmetry
INVARIANTS CheckpointsOnChain JustifiedByVotes
CHECK_DEADLOCK FALSE
