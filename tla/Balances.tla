------------------------------ MODULE Balances ------------------------------
(***************************************************************************)
(* An Electra chain as far as its validators' money goes: slots with and   *)
(* without blocks, the withdrawals and operations of a block in the order  *)
(* of process_block and process_operations, and the end of every epoch.    *)
(*                                                                         *)
(* stage tells how far the block of the slot is: 0 before the block,       *)
(* otherwise the kind of operation it has reached.                         *)
(***************************************************************************)
EXTENDS RegistryUpdates, Withdrawals

CONSTANTS
  SHARD_COMMITTEE_PERIOD,
  PENDING_PARTIAL_WITHDRAWALS_LIMIT,
  PENDING_CONSOLIDATIONS_LIMIT,
  Pubkeys,
  InitialStates,            \* states of the chain to start from
  Eth1Deposits,             \* the deposits of the Eth1 bridge, in order
  DepositRequests, WithdrawalRequests, ConsolidationRequests,
  Proposers,                \* the keys that may propose a block with a slashing
  Courses,                  \* which slots have a block, what finality and rewards do
  MaxSlot,                  \* bound: the last slot stands for all later ones
  MaxOperations             \* bound on the operations with an effect

VARIABLES state, stage, included, course

vars == <<state, stage, included, course>>

FULL_EXIT_REQUEST_AMOUNT == 0
UNSET_DEPOSIT_REQUESTS_START_INDEX == FAR_FUTURE_EPOCH

-----------------------------------------------------------------------------
(* Containers. *)

Credentials == {"bls", "eth1", "compounding"}

Validator ==
  [pubkey : Pubkeys, withdrawal_credentials : Credentials,
   effective_balance : Nat, slashed : BOOLEAN,
   activation_eligibility_epoch : Nat, activation_epoch : Nat,
   exit_epoch : Nat, withdrawable_epoch : Nat]

DepositData ==
  [pubkey : Pubkeys, withdrawal_credentials : Credentials,
   amount : Nat \ {0}, valid : BOOLEAN]

PendingDeposit ==
  [pubkey : Pubkeys, withdrawal_credentials : Credentials,
   amount : Nat \ {0}, valid : BOOLEAN, slot : Nat]

PendingPartialWithdrawal ==
  [validator_index : Nat, amount : Nat \ {0}, withdrawable_epoch : Nat]

PendingConsolidation == [source_index : Nat, target_index : Nat]

BeaconState ==
  [slot : Nat, finalized_epoch : Nat,
   validators : Seq(Validator), balances : Seq(Nat),
   slashings : [0..(EPOCHS_PER_SLASHINGS_VECTOR - 1) -> Nat],
   pending_deposits : Seq(PendingDeposit),
   pending_partial_withdrawals : Seq(PendingPartialWithdrawal),
   pending_consolidations : Seq(PendingConsolidation),
   deposit_balance_to_consume : Nat,
   exit_balance_to_consume : Nat, earliest_exit_epoch : Nat,
   consolidation_balance_to_consume : Nat, earliest_consolidation_epoch : Nat,
   eth1_deposit_index : Nat, deposit_requests_start_index : Nat,
   next_withdrawal_validator_index : Nat,
   supply : Int, exits : Seq([epoch : Nat, so_far : Nat])]

(* Every index names a validator, a validator has a balance, and its       *)
(* epochs come in their order.                                             *)
WellFormed(s) ==
  /\ Len(s.balances) = Len(s.validators)
  /\ s.next_withdrawal_validator_index \in DOMAIN s.validators
  /\ \A i \in DOMAIN s.validators :
       LET v == s.validators[i]
       IN /\ v.effective_balance <= get_max_effective_balance(v)
          /\ v.activation_epoch <= v.exit_epoch
          /\ v.exit_epoch <= v.withdrawable_epoch
  /\ \A k \in DOMAIN s.pending_partial_withdrawals :
       s.pending_partial_withdrawals[k].validator_index \in DOMAIN s.validators
  /\ \A k \in DOMAIN s.pending_consolidations :
       LET c == s.pending_consolidations[k]
       IN {c.source_index, c.target_index} \subseteq DOMAIN s.validators

Accounted(s) == Total(s.balances) + Total(Amounts(s.pending_deposits)) = s.supply

(* A chain starts as upgrade_to_electra leaves it: no exit and no          *)
(* consolidation taken yet by the queues it introduces.                    *)
ASSUME InitialStatesAssumption ==
  \A s \in InitialStates :
    /\ s \in BeaconState /\ WellFormed(s) /\ Accounted(s)
    /\ s.slot <= MaxSlot
    /\ s.deposit_balance_to_consume = 0
    /\ s.exits = <<>>
    /\ s.exit_balance_to_consume <= MAX_PER_EPOCH_ACTIVATION_EXIT_CHURN_LIMIT
    /\ s.pending_consolidations = <<>>
    /\ s.earliest_consolidation_epoch
         <= compute_activation_exit_epoch(get_current_epoch(s))

ASSUME InputsAssumption ==
  /\ Eth1Deposits \in Seq(DepositData)
  /\ DepositRequests \subseteq DepositData
  /\ \A request \in WithdrawalRequests : request.amount \in Nat
  /\ Courses \subseteq [0..MaxSlot -> [block : BOOLEAN, finalized_epoch : Nat, delta : Int]]

ASSUME BoundsAssumption ==
  /\ {MaxSlot, MaxOperations, SHARD_COMMITTEE_PERIOD} \subseteq Nat
  /\ MIN_PER_EPOCH_CHURN_LIMIT_ELECTRA \in Nat
  /\ MAX_PER_EPOCH_ACTIVATION_EXIT_CHURN_LIMIT \in Nat
  /\ MIN_ACTIVATION_BALANCE <= MAX_EFFECTIVE_BALANCE_ELECTRA

(* No queue reaches FAR_FUTURE_EPOCH, however many operations of the       *)
(* instance move it: each takes at most one epoch per unit of balance.     *)
ASSUME FarFutureAssumption ==
  compute_activation_exit_epoch(MaxSlot \div SLOTS_PER_EPOCH)
    + MaxOperations * MAX_EFFECTIVE_BALANCE_ELECTRA < FAR_FUTURE_EPOCH

Init ==
  /\ state \in InitialStates
  /\ stage = 0
  /\ included = 0
  /\ course \in Courses

-----------------------------------------------------------------------------
(* Slots. *)

process_slots(s, finalized_epoch, delta) ==
  LET t == IF (s.slot + 1) % SLOTS_PER_EPOCH = 0
           THEN process_epoch(s, finalized_epoch, delta) ELSE s
  IN [t EXCEPT !.slot = @ + 1]

NextSlot ==
  /\ state.slot < MaxSlot
  /\ stage > 0 \/ ~course[state.slot].block
  /\ LET now == course[state.slot]
     IN state' = process_slots(state, now.finalized_epoch, now.delta)
  /\ stage' = 0
  /\ UNCHANGED <<included, course>>

(* The slots after the bound: of the last epoch, and all alike. *)
LaterSlot ==
  /\ state.slot = MaxSlot
  /\ stage > 0
  /\ stage' = 0
  /\ UNCHANGED <<state, included, course>>

(* A block starts with its withdrawals. *)
BeginBlock ==
  /\ stage = 0
  /\ course[state.slot].block
  /\ state' = process_withdrawals(state)
  /\ stage' = 1
  /\ UNCHANGED <<included, course>>

-----------------------------------------------------------------------------
(* Operations. *)

(* An operation of some kind after those before it; one that is ignored    *)
(* changes nothing and is no step.                                         *)
Operation(kind, t) ==
  /\ stage \in 1..kind
  /\ included < MaxOperations
  /\ t # state
  /\ state' = t
  /\ stage' = kind
  /\ included' = included + 1
  /\ UNCHANGED course

(* process_proposer_slashing and process_attester_slashing. *)
Slashing ==
  \E index, proposer \in DOMAIN state.validators :
    /\ is_slashable_validator(state.validators[index], get_current_epoch(state))
    /\ is_active_validator(state.validators[proposer], get_current_epoch(state))
    /\ state.validators[proposer].pubkey \in Proposers
    /\ Operation(2, slash_validator(state, index, proposer))

Pending(deposit, slot) ==
  [pubkey |-> deposit.pubkey,
   withdrawal_credentials |-> deposit.withdrawal_credentials,
   amount |-> deposit.amount, valid |-> deposit.valid, slot |-> slot]

AppendDeposit(s, deposit, slot) ==
  [s EXCEPT !.pending_deposits = Append(@, Pending(deposit, slot)),
            !.supply = @ + deposit.amount]

(* A new key of the bridge enters the registry at once, its money later.   *)
apply_deposit(s, deposit) ==
  IF WithPubkey(s, deposit.pubkey) # {}
  THEN AppendDeposit(s, deposit, GENESIS_SLOT)
  ELSE IF deposit.valid
  THEN AppendDeposit(add_validator_to_registry(s, deposit, 0), deposit, GENESIS_SLOT)
  ELSE s

process_deposit(s) ==
  apply_deposit([s EXCEPT !.eth1_deposit_index = @ + 1],
                Eth1Deposits[s.eth1_deposit_index + 1])

Deposit ==
  /\ state.eth1_deposit_index
       < Least(Len(Eth1Deposits), state.deposit_requests_start_index)
  /\ Operation(3, process_deposit(state))

VoluntaryExit ==
  \E index \in DOMAIN state.validators :
    LET v == state.validators[index]
    IN /\ is_active_validator(v, get_current_epoch(state))
       /\ v.exit_epoch = FAR_FUTURE_EPOCH
       /\ get_current_epoch(state) >= v.activation_epoch + SHARD_COMMITTEE_PERIOD
       /\ get_pending_balance_to_withdraw(state, index) = 0
       /\ Operation(4, initiate_validator_exit(state, index))

(* Signed by the validator's key; the new address is, as everywhere, the   *)
(* one that belongs to the key.                                            *)
process_bls_to_execution_change(s, index) ==
  [s EXCEPT !.validators[index].withdrawal_credentials = "eth1"]

BLSToExecutionChange ==
  \E index \in DOMAIN state.validators :
    /\ state.validators[index].withdrawal_credentials = "bls"
    /\ Operation(5, process_bls_to_execution_change(state, index))

(* The first request comes after all deposits of the bridge.               *)
process_deposit_request(s, request) ==
  AppendDeposit(
    [s EXCEPT !.deposit_requests_start_index =
       IF @ = UNSET_DEPOSIT_REQUESTS_START_INDEX THEN Len(Eth1Deposits) ELSE @],
    request, s.slot)

DepositRequest ==
  \E request \in DepositRequests : Operation(6, process_deposit_request(state, request))

(* Active long enough and not on its way out. *)
Settled(s, v) ==
  /\ is_active_validator(v, get_current_epoch(s))
  /\ v.exit_epoch = FAR_FUTURE_EPOCH
  /\ get_current_epoch(s) >= v.activation_epoch + SHARD_COMMITTEE_PERIOD

PartialWithdrawalQueued(s, index, amount) ==
  LET excess == s.balances[index] - MIN_ACTIVATION_BALANCE
                  - get_pending_balance_to_withdraw(s, index)
      to_withdraw == Least(excess, amount)
      t == compute_exit_epoch_and_update_churn(s, to_withdraw)
      pending == [validator_index |-> index, amount |-> to_withdraw,
                  withdrawable_epoch |-> t.earliest_exit_epoch
                                           + MIN_VALIDATOR_WITHDRAWABILITY_DELAY]
      v == s.validators[index]
  IN IF /\ has_compounding_withdrawal_credential(v)
        /\ v.effective_balance >= MIN_ACTIVATION_BALANCE
        /\ excess > 0
     THEN [t EXCEPT !.pending_partial_withdrawals = Append(@, pending)]
     ELSE s

process_withdrawal_request(s, request) ==
  LET full == request.amount = FULL_EXIT_REQUEST_AMOUNT
      index == CHOOSE i \in WithPubkey(s, request.validator_pubkey) : TRUE
      v == s.validators[index]
  IN IF \/ /\ Len(s.pending_partial_withdrawals) = PENDING_PARTIAL_WITHDRAWALS_LIMIT
           /\ ~full
        \/ WithPubkey(s, request.validator_pubkey) = {}
        \/ ~has_execution_withdrawal_credential(v)
        \/ request.source_address # v.pubkey
        \/ ~Settled(s, v)
     THEN s
     ELSE IF ~full
     THEN PartialWithdrawalQueued(s, index, request.amount)
     ELSE IF get_pending_balance_to_withdraw(s, index) = 0
     THEN initiate_validator_exit(s, index)
     ELSE s

WithdrawalRequest ==
  \E request \in WithdrawalRequests :
    Operation(7, process_withdrawal_request(state, request))

(* What exceeds MIN_ACTIVATION_BALANCE goes through the deposit queue.     *)
queue_excess_active_balance(s, index) ==
  LET excess == s.balances[index] - MIN_ACTIVATION_BALANCE
      v == s.validators[index]
  IN IF excess <= 0 THEN s
     ELSE [s EXCEPT !.balances[index] = MIN_ACTIVATION_BALANCE,
                    !.pending_deposits = Append(@,
                       [pubkey |-> v.pubkey,
                        withdrawal_credentials |-> v.withdrawal_credentials,
                        amount |-> excess, valid |-> FALSE, slot |-> GENESIS_SLOT])]

switch_to_compounding_validator(s, index) ==
  queue_excess_active_balance(
    [s EXCEPT !.validators[index].withdrawal_credentials = "compounding"], index)

is_valid_switch_to_compounding_request(s, request) ==
  /\ request.source_pubkey = request.target_pubkey
  /\ \E i \in WithPubkey(s, request.source_pubkey) :
       LET v == s.validators[i]
       IN /\ request.source_address = v.pubkey
          /\ has_eth1_withdrawal_credential(v)
          /\ is_active_validator(v, get_current_epoch(s))
          /\ v.exit_epoch = FAR_FUTURE_EPOCH

Consolidated(s, source, target) ==
  LET t == compute_consolidation_epoch_and_update_churn(
             s, s.validators[source].effective_balance)
  IN [Exiting(t, source, t.earliest_consolidation_epoch) EXCEPT
        !.pending_consolidations =
           Append(@, [source_index |-> source, target_index |-> target])]

process_consolidation_request(s, request) ==
  LET sources == WithPubkey(s, request.source_pubkey)
      targets == WithPubkey(s, request.target_pubkey)
      source == CHOOSE i \in sources : TRUE
      target == CHOOSE i \in targets : TRUE
      v == s.validators[source]
      w == s.validators[target]
  IN IF is_valid_switch_to_compounding_request(s, request)
     THEN switch_to_compounding_validator(s, source)
     ELSE IF \/ request.source_pubkey = request.target_pubkey
             \/ Len(s.pending_consolidations) = PENDING_CONSOLIDATIONS_LIMIT
             \/ get_consolidation_churn_limit(s) <= MIN_ACTIVATION_BALANCE
             \/ sources = {} \/ targets = {}
             \/ ~has_execution_withdrawal_credential(v)
             \/ request.source_address # v.pubkey
             \/ ~has_compounding_withdrawal_credential(w)
             \/ ~Settled(s, v)
             \/ ~is_active_validator(w, get_current_epoch(s))
             \/ w.exit_epoch # FAR_FUTURE_EPOCH
             \/ get_pending_balance_to_withdraw(s, source) > 0
     THEN s
     ELSE Consolidated(s, source, target)

ConsolidationRequest ==
  \E request \in ConsolidationRequests :
    Operation(8, process_consolidation_request(state, request))

-----------------------------------------------------------------------------
Next ==
  \/ NextSlot
  \/ LaterSlot
  \/ BeginBlock
  \/ Slashing
  \/ Deposit
  \/ VoluntaryExit
  \/ BLSToExecutionChange
  \/ DepositRequest
  \/ WithdrawalRequest
  \/ ConsolidationRequest

(* Slots go on passing and blocks go on coming: neither is ever prevented  *)
(* (NextSlot or LaterSlot can follow every block, BeginBlock every slot).  *)
ChainGrows == []<>(stage = 0) /\ []<>(stage > 0)

Spec == Init /\ [][Next]_vars /\ ChainGrows

-----------------------------------------------------------------------------
(* The state keeps its types, so that no subtraction of the code falls     *)
(* below zero; every index in a queue is in the registry; no balance       *)
(* counts for more than its validator may have at stake; and the epochs    *)
(* of a validator come in their order.                                     *)
TypeOK ==
  /\ state \in BeaconState /\ WellFormed(state)
  /\ state.slot <= MaxSlot
  /\ stage \in 0..8 /\ included \in 0..MaxOperations /\ course \in Courses

(* No money is created and none is lost on its way through the queues of   *)
(* deposits, partial withdrawals and consolidations: balances and pending  *)
(* deposits together are what was deposited and rewarded, less what was    *)
(* withdrawn, burnt by penalties, or deposited without proof of possession.*)
Conserved == Accounted(state)

(* Exits never outrun the churn, whatever the limit did between them: the  *)
(* exits after one exit, up to a later one, fit in the epochs from the     *)
(* first one's to the last one's, the churn the first one took not         *)
(* counted.  compute_exit_epoch_and_update_churn keeps only the last epoch *)
(* and what is left of it.                                                 *)
ExitsWithinChurn == AllExitsFit(state)

(* Churn carried from one epoch to the next belongs to the deposit at the  *)
(* head of the queue and is less than it needs, so quiet epochs never save *)
(* up churn for a burst of activations.                                    *)
CarryWaitsForHead ==
  state.deposit_balance_to_consume > 0 =>
    /\ state.pending_deposits # <<>>
    /\ state.deposit_balance_to_consume < Head(state.pending_deposits).amount

(* A validator whose consolidation is pending cannot be withdrawn by the   *)
(* sweep before its balance has moved, as no block comes between the epoch *)
(* in which it becomes withdrawable and the move, and the queue is in the  *)
(* order of their exits.                                                   *)
ConsolidatedBeforeWithdrawable ==
  \A k \in DOMAIN state.pending_consolidations :
    LET source == state.validators[state.pending_consolidations[k].source_index]
    IN source.slashed \/ source.withdrawable_epoch > get_current_epoch(state)

(* A partial withdrawal was measured against a balance that penalties have *)
(* changed since: when it is paid, a validator that stays keeps at least   *)
(* MIN_ACTIVATION_BALANCE, or all it had.                                  *)
StakeKept ==
  [][BeginBlock =>
       \A i \in DOMAIN state.validators :
         state.validators[i].exit_epoch = FAR_FUTURE_EPOCH =>
           state'.balances[i] >= Least(state.balances[i], MIN_ACTIVATION_BALANCE)]_vars

(* The sweep reaches every validator: what has become withdrawable is paid *)
(* in full, though partial withdrawals of others fill the blocks.          *)
Holding(pubkey) ==
  \E i \in WithPubkey(state, pubkey) :
    is_fully_withdrawable_validator(
      state.validators[i], state.balances[i], get_current_epoch(state))

WithdrawableIsPaid ==
  \A pubkey \in Pubkeys : Holding(pubkey) ~> ~Holding(pubkey)
=============================================================================
