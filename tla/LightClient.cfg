SPECIFICATION Spec
CONSTANTS
  SLOTS_PER_PERIOD = 4
  SYNC_COMMITTEE_SIZE = 4
  Chains <- MCChains
  TrustedSlots <- MCTrustedSlots
  MaxSlot = 13
  NoCommittee = NoCommittee
  NoUpdate = NoUpdate
INVARIANTS CommitteesMatchHeader MissingCommitteeIsFetched BestUpdateStaysApplicable
PROPERTIES HeadersMoveForward CatchesUp
CHECK_DEADLOCK FALSE
