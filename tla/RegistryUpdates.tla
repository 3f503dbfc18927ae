--------------------------- MODULE RegistryUpdates ---------------------------
(***************************************************************************)
(* The parts of Electra's process_epoch that change the registry and the   *)
(* balances, in the order in which process_epoch calls them.               *)
(*                                                                         *)
(* A pending deposit is [pubkey, withdrawal_credentials, amount, slot,     *)
(* valid], where valid tells whether is_valid_deposit_signature holds.     *)
(***************************************************************************)
EXTENDS Registry

CONSTANTS
  HYSTERESIS_QUOTIENT, HYSTERESIS_DOWNWARD_MULTIPLIER, HYSTERESIS_UPWARD_MULTIPLIER,
  EJECTION_BALANCE,
  PROPORTIONAL_SLASHING_MULTIPLIER_BELLATRIX,
  MAX_PENDING_DEPOSITS_PER_EPOCH

GENESIS_SLOT == 0

ASSUME EpochConstants ==
  /\ HYSTERESIS_QUOTIENT \in Nat \ {0}
  /\ {HYSTERESIS_DOWNWARD_MULTIPLIER, HYSTERESIS_UPWARD_MULTIPLIER, EJECTION_BALANCE,
      PROPORTIONAL_SLASHING_MULTIPLIER_BELLATRIX, MAX_PENDING_DEPOSITS_PER_EPOCH}
       \subseteq Nat

-----------------------------------------------------------------------------
is_eligible_for_activation_queue(v) ==
  /\ v.activation_eligibility_epoch = FAR_FUTURE_EPOCH
  /\ v.effective_balance >= MIN_ACTIVATION_BALANCE

is_eligible_for_activation(s, v) ==
  /\ v.activation_eligibility_epoch <= s.finalized_epoch
  /\ v.activation_epoch = FAR_FUTURE_EPOCH

RegistryUpdated(s, index) ==
  LET epoch == get_current_epoch(s)
      v     == s.validators[index]
  IN IF is_eligible_for_activation_queue(v)
     THEN [s EXCEPT !.validators[index].activation_eligibility_epoch = epoch + 1]
     ELSE IF is_active_validator(v, epoch) /\ v.effective_balance <= EJECTION_BALANCE
     THEN initiate_validator_exit(s, index)
     ELSE IF is_eligible_for_activation(s, v)
     THEN [s EXCEPT !.validators[index].activation_epoch =
                      compute_activation_exit_epoch(epoch)]
     ELSE s

process_registry_updates(s) == FoldLeftDomain(RegistryUpdated, s, s.validators)

-----------------------------------------------------------------------------
(* Half the vector's length after it was slashed, a validator pays in      *)
(* proportion to what was slashed around then.                             *)
CorrelationPenalty(penalty_per_increment, s, index) ==
  LET v == s.validators[index]
  IN IF v.slashed
        /\ get_current_epoch(s) + (EPOCHS_PER_SLASHINGS_VECTOR \div 2) = v.withdrawable_epoch
     THEN Penalised(s, index, penalty_per_increment
                      * (v.effective_balance \div EFFECTIVE_BALANCE_INCREMENT))
     ELSE s

process_slashings(s) ==
  LET total == get_total_active_balance(s)
      slashed == Total([k \in 1..EPOCHS_PER_SLASHINGS_VECTOR |-> s.slashings[k - 1]])
      penalty_per_increment ==
        Least(slashed * PROPORTIONAL_SLASHING_MULTIPLIER_BELLATRIX, total)
          \div (total \div EFFECTIVE_BALANCE_INCREMENT)
  IN FoldLeftDomain(LAMBDA t, index : CorrelationPenalty(penalty_per_increment, t, index),
                    s, s.validators)

process_slashings_reset(s) ==
  [s EXCEPT !.slashings[(get_current_epoch(s) + 1) % EPOCHS_PER_SLASHINGS_VECTOR] = 0]

-----------------------------------------------------------------------------
(* A registry entry of its own for a new public key. *)
add_validator_to_registry(s, deposit, amount) ==
  LET fresh == [pubkey |-> deposit.pubkey,
                withdrawal_credentials |-> deposit.withdrawal_credentials,
                effective_balance |-> 0,
                slashed |-> FALSE,
                activation_eligibility_epoch |-> FAR_FUTURE_EPOCH,
                activation_epoch |-> FAR_FUTURE_EPOCH,
                exit_epoch |-> FAR_FUTURE_EPOCH,
                withdrawable_epoch |-> FAR_FUTURE_EPOCH]
  IN [s EXCEPT
        !.validators = Append(@,
           [fresh EXCEPT !.effective_balance =
              Least(amount - (amount % EFFECTIVE_BALANCE_INCREMENT),
                    get_max_effective_balance(fresh))]),
        !.balances = Append(@, amount)]

(* A deposit for an unknown key without proof of possession is money lost. *)
apply_pending_deposit(s, deposit) ==
  LET known == WithPubkey(s, deposit.pubkey)
  IN IF known # {}
     THEN increase_balance(s, CHOOSE i \in known : TRUE, deposit.amount)
     ELSE IF deposit.valid
     THEN add_validator_to_registry(s, deposit, deposit.amount)
     ELSE [s EXCEPT !.supply = @ - deposit.amount]

(* The loop of process_pending_deposits, its variables in the record p.    *)
MustWait(p, deposit) ==
  \/ /\ deposit.slot > GENESIS_SLOT
     /\ p.state.eth1_deposit_index < p.state.deposit_requests_start_index
  \/ deposit.slot > compute_start_slot_at_epoch(p.state.finalized_epoch)
  \/ p.next_deposit_index >= MAX_PENDING_DEPOSITS_PER_EPOCH

PendingDepositProcessed(p, deposit) ==
  LET owner == {p.state.validators[i] : i \in WithPubkey(p.state, deposit.pubkey)}
      exited == \E v \in owner : v.exit_epoch < FAR_FUTURE_EPOCH
      withdrawn == \E v \in owner :
                     v.withdrawable_epoch < get_current_epoch(p.state) + 1
      processed == p.processed_amount + deposit.amount
  IN IF p.stopped \/ MustWait(p, deposit)
     THEN [p EXCEPT !.stopped = TRUE]
     ELSE IF withdrawn
     THEN [p EXCEPT !.state = apply_pending_deposit(@, deposit),
                    !.next_deposit_index = @ + 1]
     ELSE IF exited
     THEN [p EXCEPT !.deposits_to_postpone = Append(@, deposit),
                    !.next_deposit_index = @ + 1]
     ELSE IF processed > p.available
     THEN [p EXCEPT !.stopped = TRUE, !.is_churn_limit_reached = TRUE]
     ELSE [p EXCEPT !.state = apply_pending_deposit(@, deposit),
                    !.processed_amount = processed,
                    !.next_deposit_index = @ + 1]

(* Churn saved up in quiet epochs. *)
ChurnCarried_Always(p) == p.available - p.processed_amount

(* Churn is carried over only while a deposit waits for it. *)
ChurnCarried(p) ==
  IF p.is_churn_limit_reached THEN p.available - p.processed_amount ELSE 0

(* Deposits of exiting validators forgotten. *)
DepositsLeft_NotPostponed(p) ==
  SubSeq(p.state.pending_deposits, p.next_deposit_index + 1,
         Len(p.state.pending_deposits))

DepositsLeft(p) ==
  SubSeq(p.state.pending_deposits, p.next_deposit_index + 1,
         Len(p.state.pending_deposits)) \o p.deposits_to_postpone

process_pending_deposits(s) ==
  LET p == FoldLeft(PendingDepositProcessed,
             [state |-> s,
              available |-> s.deposit_balance_to_consume
                              + get_activation_exit_churn_limit(s),
              processed_amount |-> 0, next_deposit_index |-> 0,
              deposits_to_postpone |-> <<>>,
              is_churn_limit_reached |-> FALSE, stopped |-> FALSE],
             s.pending_deposits)
  IN [p.state EXCEPT !.pending_deposits = DepositsLeft(p),
                     !.deposit_balance_to_consume = ChurnCarried(p)]

-----------------------------------------------------------------------------
(* One epoch too late. *)
WithdrawableAtNextEpoch_Late(s, v) == v.withdrawable_epoch <= get_current_epoch(s)

(* The queue stops at the first source whose balance must not move yet. *)
WithdrawableAtNextEpoch(s, v) == v.withdrawable_epoch <= get_current_epoch(s) + 1

PendingConsolidationProcessed(p, consolidation) ==
  LET source == p.state.validators[consolidation.source_index]
      moved == Least(p.state.balances[consolidation.source_index],
                     source.effective_balance)
  IN IF p.stopped
     THEN p
     ELSE IF source.slashed
     THEN [p EXCEPT !.next_pending_consolidation = @ + 1]
     ELSE IF ~WithdrawableAtNextEpoch(p.state, source)
     THEN [p EXCEPT !.stopped = TRUE]
     ELSE [p EXCEPT
             !.state = increase_balance(
                         decrease_balance(@, consolidation.source_index, moved),
                         consolidation.target_index, moved),
             !.next_pending_consolidation = @ + 1]

process_pending_consolidations(s) ==
  LET p == FoldLeft(PendingConsolidationProcessed,
             [state |-> s, next_pending_consolidation |-> 0, stopped |-> FALSE],
             s.pending_consolidations)
  IN [p.state EXCEPT !.pending_consolidations =
        SubSeq(@, p.next_pending_consolidation + 1, Len(@))]

-----------------------------------------------------------------------------
EffectiveBalanceAfter(v, balance) ==
  LET hysteresis == EFFECTIVE_BALANCE_INCREMENT \div HYSTERESIS_QUOTIENT
  IN IF \/ balance + hysteresis * HYSTERESIS_DOWNWARD_MULTIPLIER < v.effective_balance
        \/ v.effective_balance + hysteresis * HYSTERESIS_UPWARD_MULTIPLIER < balance
     THEN Least(balance - (balance % EFFECTIVE_BALANCE_INCREMENT),
                get_max_effective_balance(v))
     ELSE v.effective_balance

process_effective_balance_updates(s) ==
  [s EXCEPT !.validators =
     [i \in DOMAIN @ |-> [@[i] EXCEPT !.effective_balance =
                            EffectiveBalanceAfter(s.validators[i], s.balances[i])]]]

(* The same reward or penalty for whoever is eligible. *)
DeltaApplied(delta, s, index) ==
  LET v == s.validators[index]
      previous == Greatest(get_current_epoch(s) - 1, 0)
  IN IF \/ is_active_validator(v, previous)
        \/ v.slashed /\ previous + 1 < v.withdrawable_epoch
     THEN IF delta >= 0 THEN Rewarded(s, index, delta) ELSE Penalised(s, index, -delta)
     ELSE s

process_rewards_and_penalties(s, delta) ==
  IF get_current_epoch(s) = 0 THEN s
  ELSE FoldLeftDomain(LAMBDA t, index : DeltaApplied(delta, t, index), s, s.validators)

(* finalized_epoch is what process_justification_and_finalization finds. *)
process_epoch(s, finalized_epoch, delta) ==
  LET finality == [s EXCEPT !.finalized_epoch = finalized_epoch]
      rewards  == process_rewards_and_penalties(finality, delta)
      registry == process_slashings(process_registry_updates(rewards))
      moved    == process_pending_consolidations(process_pending_deposits(registry))
  IN process_slashings_reset(process_effective_balance_updates(moved))
=============================================================================
