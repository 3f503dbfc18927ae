SPECIFICATION Spec
CONSTANTS
  v1 = v1
  v2 = v2
  v3 = v3
  v4 = v4
  v5 = v5
  Validators = {v1, v2, v3, v4}
  Balance <- TenEach
  EFFECTIVE_BALANCE_INCREMENT = 1
  ZeroRoot = 0
  Blocks = {1, 2, 3, 4, 5, 6, 7}
  block <- ReorgTree
  anchor = 1
  AnchorState <- GenesisAnchorState
  MaxEpoch = 5
  SLOTS_PER_EPOCH = 4
  PostState <- post_state
  PulledUpState <- pulled_up_state
  SECONDS_PER_SLOT = 12
  INTERVALS_PER_SLOT = 3
  PROPOSER_SCORE_BOOST = 40
  REORG_HEAD_WEIGHT_THRESHOLD = 20
  REORG_PARENT_WEIGHT_THRESHOLD = 160
  REORG_MAX_EPOCHS_SINCE_FINALIZATION = 2
  Times <- ReorgTimes
  WireAttestations <- ReorgVotes
  AttesterSlashings <- DoubleVoteOfV2
PROPERTY TimelyStaysTimely
CHECK_DEADLOCK FALSE
