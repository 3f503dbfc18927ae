SPECIFICATION Spec
CONSTANTS
  anna = anna
  bert = bert
  carl = carl
  dora = dora
  SLOTS_PER_EPOCH = 1
  MAX_SEED_LOOKAHEAD = 0
  MIN_VALIDATOR_WITHDRAWABILITY_DELAY = 1
  EPOCHS_PER_SLASHINGS_VECTOR = 4
  EFFECTIVE_BALANCE_INCREMENT = 4
  MIN_ACTIVATION_BALANCE = 8
  MAX_EFFECTIVE_BALANCE_ELECTRA = 16
  MIN_PER_EPOCH_CHURN_LIMIT_ELECTRA = 4
  MAX_PER_EPOCH_ACTIVATION_EXIT_CHURN_LIMIT = 16
  CHURN_LIMIT_QUOTIENT = 1
  MIN_SLASHING_PENALTY_QUOTIENT_ELECTRA = 4
  WHISTLEBLOWER_REWARD_QUOTIENT_ELECTRA = 8
  FAR_FUTURE_EPOCH = 99
  HYSTERESIS_QUOTIENT = 4
  HYSTERESIS_DOWNWARD_MULTIPLIER = 1
  HYSTERESIS_UPWARD_MULTIPLIER = 5
  EJECTION_BALANCE = 4
  PROPORTIONAL_SLASHING_MULTIPLIER_BELLATRIX = 3
  MAX_PENDING_DEPOSITS_PER_EPOCH = 2
  MAX_WITHDRAWALS_PER_PAYLOAD = 3
  MAX_PENDING_PARTIALS_PER_WITHDRAWALS_SWEEP = 2
  MAX_VALIDATORS_PER_WITHDRAWALS_SWEEP = 2
  SHARD_COMMITTEE_PERIOD = 0
  PENDING_PARTIAL_WITHDRAWALS_LIMIT = 2
  PENDING_CONSOLIDATIONS_LIMIT = 2
  Pubkeys <- MCPubkeys
  InitialStates <- MCInitialStates
  Eth1Deposits <- MCEth1Deposits
  DepositRequests <- MCDepositRequests
  WithdrawalRequests <- MCWithdrawalRequests
  ConsolidationRequests <- MCConsolidationRequests
  Proposers <- MCProposers
  Courses <- MCCourses
  MaxSlot = 5
  MaxOperations = 3
INVARIANTS TypeOK Conserved ExitsWithinChurn CarryWaitsForHead ConsolidatedBeforeWithdrawable
PROPERTIES StakeKept WithdrawableIsPaid
