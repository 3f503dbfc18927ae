----------------------------- MODULE MCBalances -----------------------------
(* Instance of Balances: three validators that are active from the start,  *)
(* and a fourth whose money is still to be deposited.                      *)
EXTENDS Balances

CONSTANTS anna, bert, carl, dora

MCPubkeys == {anna, bert, carl, dora}

Active(pubkey, credentials, effective_balance) ==
  [pubkey |-> pubkey, withdrawal_credentials |-> credentials,
   effective_balance |-> effective_balance, slashed |-> FALSE,
   activation_eligibility_epoch |-> 0, activation_epoch |-> 0,
   exit_epoch |-> FAR_FUTURE_EPOCH, withdrawable_epoch |-> FAR_FUTURE_EPOCH]

MCInitialStates ==
  {[slot |-> 0, finalized_epoch |-> 0,
    validators |-> <<Active(anna, "compounding", 16), Active(bert, "eth1", 8),
                     Active(carl, "eth1", 8)>>,
    balances |-> <<17, 9, 8>>,
    slashings |-> [k \in 0..(EPOCHS_PER_SLASHINGS_VECTOR - 1) |-> 0],
    pending_deposits |-> <<>>, pending_partial_withdrawals |-> <<>>,
    pending_consolidations |-> <<>>,
    deposit_balance_to_consume |-> 0,
    exit_balance_to_consume |-> 0, earliest_exit_epoch |-> 0,
    consolidation_balance_to_consume |-> 0, earliest_consolidation_epoch |-> 0,
    eth1_deposit_index |-> 0,
    deposit_requests_start_index |-> UNSET_DEPOSIT_REQUESTS_START_INDEX,
    next_withdrawal_validator_index |-> 1,
    supply |-> 34, exits |-> <<>>]}

DepositOf(pubkey, credentials, amount, valid) ==
  [pubkey |-> pubkey, withdrawal_credentials |-> credentials,
   amount |-> amount, valid |-> valid]

MCEth1Deposits == <<DepositOf(dora, "bls", 4, TRUE)>>

MCDepositRequests ==
  {DepositOf(dora, "compounding", 20, TRUE), DepositOf(bert, "eth1", 4, FALSE)}

MCWithdrawalRequests ==
  {[validator_pubkey |-> anna, source_address |-> anna, amount |-> 5],
   [validator_pubkey |-> anna, source_address |-> anna, amount |-> FULL_EXIT_REQUEST_AMOUNT]}

Consolidation(source, target) ==
  [source_pubkey |-> source, target_pubkey |-> target, source_address |-> source]

MCConsolidationRequests ==
  {Consolidation(bert, anna), Consolidation(carl, anna), Consolidation(bert, bert)}

MCProposers == {carl}

(* Finality follows at its usual distance or stalls, no one is penalised   *)
(* or everyone is from some epoch on, and a slot may have no block.        *)
Course(missed, lag, penalised) ==
  [slot \in 0..MaxSlot |->
     [block |-> slot # missed,
      finalized_epoch |-> Greatest(0, (slot \div SLOTS_PER_EPOCH) - lag),
      delta |-> IF slot >= penalised THEN -3 ELSE 0]]

MCCourses ==
  {Course(FAR_FUTURE_EPOCH, 1, FAR_FUTURE_EPOCH), Course(3, 1, 2),
   Course(FAR_FUTURE_EPOCH, 3, 2), Course(3, 3, FAR_FUTURE_EPOCH)}
=============================================================================
