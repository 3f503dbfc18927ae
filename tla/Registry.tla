------------------------------ MODULE Registry ------------------------------
(***************************************************************************)
(* The validator registry of an Electra beacon state: who is active, what  *)
(* balance may leave per epoch, and the mutators every other operation of  *)
(* the state is built from.                                                *)
(*                                                                         *)
(* A state s is a record: slot, finalized_epoch, the sequences validators, *)
(* balances, pending_deposits, pending_partial_withdrawals and             *)
(* pending_consolidations, the churn counters, the vector of slashings,    *)
(* the Eth1 deposit indices and next_withdrawal_validator_index.  Two      *)
(* fields record what the code does not keep: supply, the money that       *)
(* should be in the state, and exits, for each exit in the order in which  *)
(* the exit queue took them its epoch and how much has been taken so far.  *)
(***************************************************************************)
EXTENDS Integers, SequencesExt

CONSTANTS
  SLOTS_PER_EPOCH,
  MAX_SEED_LOOKAHEAD,
  MIN_VALIDATOR_WITHDRAWABILITY_DELAY,
  EPOCHS_PER_SLASHINGS_VECTOR,
  EFFECTIVE_BALANCE_INCREMENT,
  MIN_ACTIVATION_BALANCE,
  MAX_EFFECTIVE_BALANCE_ELECTRA,
  MIN_PER_EPOCH_CHURN_LIMIT_ELECTRA,
  MAX_PER_EPOCH_ACTIVATION_EXIT_CHURN_LIMIT,
  CHURN_LIMIT_QUOTIENT,
  MIN_SLASHING_PENALTY_QUOTIENT_ELECTRA,
  WHISTLEBLOWER_REWARD_QUOTIENT_ELECTRA,
  FAR_FUTURE_EPOCH       \* an epoch no state of the instance reaches

ASSUME RegistryConstants ==
  /\ {SLOTS_PER_EPOCH, EPOCHS_PER_SLASHINGS_VECTOR, EFFECTIVE_BALANCE_INCREMENT,
      MIN_ACTIVATION_BALANCE, CHURN_LIMIT_QUOTIENT,
      MIN_SLASHING_PENALTY_QUOTIENT_ELECTRA,
      WHISTLEBLOWER_REWARD_QUOTIENT_ELECTRA} \subseteq Nat \ {0}
  /\ {MAX_SEED_LOOKAHEAD, MIN_VALIDATOR_WITHDRAWABILITY_DELAY,
      MAX_EFFECTIVE_BALANCE_ELECTRA, FAR_FUTURE_EPOCH} \subseteq Nat
  /\ MIN_PER_EPOCH_CHURN_LIMIT_ELECTRA >= EFFECTIVE_BALANCE_INCREMENT
  /\ MAX_PER_EPOCH_ACTIVATION_EXIT_CHURN_LIMIT >= EFFECTIVE_BALANCE_INCREMENT

Least(a, b) == IF a <= b THEN a ELSE b
Greatest(a, b) == IF a >= b THEN a ELSE b
Total(seq) == FoldLeft(+, 0, seq)
Amounts(seq) == [k \in DOMAIN seq |-> seq[k].amount]

get_current_epoch(s) == s.slot \div SLOTS_PER_EPOCH
compute_start_slot_at_epoch(epoch) == epoch * SLOTS_PER_EPOCH
compute_activation_exit_epoch(epoch) == epoch + 1 + MAX_SEED_LOOKAHEAD

-----------------------------------------------------------------------------
(* Predicates. *)

is_active_validator(v, epoch) == v.activation_epoch <= epoch /\ epoch < v.exit_epoch

is_slashable_validator(v, epoch) ==
  ~v.slashed /\ v.activation_epoch <= epoch /\ epoch < v.withdrawable_epoch

has_compounding_withdrawal_credential(v) == v.withdrawal_credentials = "compounding"
has_eth1_withdrawal_credential(v) == v.withdrawal_credentials = "eth1"
has_execution_withdrawal_credential(v) ==
  has_eth1_withdrawal_credential(v) \/ has_compounding_withdrawal_credential(v)

get_max_effective_balance(v) ==
  IF has_compounding_withdrawal_credential(v)
  THEN MAX_EFFECTIVE_BALANCE_ELECTRA
  ELSE MIN_ACTIVATION_BALANCE

(* The indices of the validators with a public key: at most one. *)
WithPubkey(s, pubkey) == {i \in DOMAIN s.validators : s.validators[i].pubkey = pubkey}

-----------------------------------------------------------------------------
(* Accessors. *)

get_total_active_balance(s) ==
  Greatest(EFFECTIVE_BALANCE_INCREMENT,
           Total([i \in DOMAIN s.validators |->
                    IF is_active_validator(s.validators[i], get_current_epoch(s))
                    THEN s.validators[i].effective_balance ELSE 0]))

get_balance_churn_limit(s) ==
  LET churn == Greatest(MIN_PER_EPOCH_CHURN_LIMIT_ELECTRA,
                        get_total_active_balance(s) \div CHURN_LIMIT_QUOTIENT)
  IN churn - (churn % EFFECTIVE_BALANCE_INCREMENT)

get_activation_exit_churn_limit(s) ==
  Least(MAX_PER_EPOCH_ACTIVATION_EXIT_CHURN_LIMIT, get_balance_churn_limit(s))

get_consolidation_churn_limit(s) ==
  get_balance_churn_limit(s) - get_activation_exit_churn_limit(s)

get_pending_balance_to_withdraw(s, index) ==
  Total([k \in DOMAIN s.pending_partial_withdrawals |->
           IF s.pending_partial_withdrawals[k].validator_index = index
           THEN s.pending_partial_withdrawals[k].amount ELSE 0])

-----------------------------------------------------------------------------
(* Mutators. *)

increase_balance(s, index, delta) == [s EXCEPT !.balances[index] = @ + delta]
decrease_balance(s, index, delta) ==
  [s EXCEPT !.balances[index] = IF delta > @ THEN 0 ELSE @ - delta]

(* Money that a reward creates and that a penalty destroys. *)
Rewarded(s, index, delta) ==
  [increase_balance(s, index, delta) EXCEPT !.supply = @ + delta]
Penalised(s, index, delta) ==
  [decrease_balance(s, index, delta) EXCEPT
     !.supply = @ - Least(delta, s.balances[index])]

(* An epoch too few when the balance does not fill the last one.           *)
Spread_Floor(epoch, left, limit, balance) ==
  LET epochs == IF balance > left THEN (balance - left) \div limit ELSE 0
  IN [epoch |-> epoch + epochs, left |-> left + epochs * limit - balance]

(* The epoch in which a balance leaves a queue and what is left of that    *)
(* epoch's churn, when left is what epoch has to give at first.            *)
Spread(epoch, left, limit, balance) ==
  LET epochs == IF balance > left THEN (balance - left - 1) \div limit + 1 ELSE 0
  IN [epoch |-> epoch + epochs, left |-> left + epochs * limit - balance]

(* The churn of the last epoch renewed by every exit.                      *)
ChurnTaken_Renewed(earliest, left, limit, floor, balance) ==
  Spread(Greatest(earliest, floor), limit, limit, balance)

(* One exit from a queue that has reached the epoch earliest; no exit is   *)
(* before the epoch floor.                                                 *)
ChurnTaken(earliest, left, limit, floor, balance) ==
  IF earliest < floor THEN Spread(floor, limit, limit, balance)
  ELSE Spread(earliest, left, limit, balance)

TakenSoFar(exits) == IF exits = <<>> THEN 0 ELSE exits[Len(exits)].so_far

compute_exit_epoch_and_update_churn(s, exit_balance) ==
  LET taken == ChurnTaken(s.earliest_exit_epoch, s.exit_balance_to_consume,
                          get_activation_exit_churn_limit(s),
                          compute_activation_exit_epoch(get_current_epoch(s)),
                          exit_balance)
  IN [s EXCEPT !.earliest_exit_epoch = taken.epoch,
               !.exit_balance_to_consume = taken.left,
               !.exits = Append(@, [epoch |-> taken.epoch,
                                    so_far |-> TakenSoFar(@) + exit_balance])]

(* The exits after exit i, up to exit j, fit in the epochs from i's to j's.*)
ExitsFit(s, i, j) ==
  s.exits[j].so_far - s.exits[i].so_far
    <= (s.exits[j].epoch - s.exits[i].epoch + 1) * MAX_PER_EPOCH_ACTIVATION_EXIT_CHURN_LIMIT

AllExitsFit(s) == \A j \in DOMAIN s.exits : \A i \in 1..(j - 1) : ExitsFit(s, i, j)

compute_consolidation_epoch_and_update_churn(s, consolidation_balance) ==
  LET taken == ChurnTaken(s.earliest_consolidation_epoch,
                          s.consolidation_balance_to_consume,
                          get_consolidation_churn_limit(s),
                          compute_activation_exit_epoch(get_current_epoch(s)),
                          consolidation_balance)
  IN [s EXCEPT !.earliest_consolidation_epoch = taken.epoch,
               !.consolidation_balance_to_consume = taken.left]

Exiting(s, index, epoch) ==
  [s EXCEPT !.validators[index].exit_epoch = epoch,
            !.validators[index].withdrawable_epoch =
               epoch + MIN_VALIDATOR_WITHDRAWABILITY_DELAY]

initiate_validator_exit(s, index) ==
  IF s.validators[index].exit_epoch # FAR_FUTURE_EPOCH
  THEN s
  ELSE LET t == compute_exit_epoch_and_update_churn(
                  s, s.validators[index].effective_balance)
       IN Exiting(t, index, t.earliest_exit_epoch)

(* No caller names a whistleblower, so the proposer takes both rewards.    *)
slash_validator(s, index, proposer) ==
  LET epoch == get_current_epoch(s)
      t == initiate_validator_exit(s, index)
      u == [t EXCEPT
              !.validators[index].slashed = TRUE,
              !.validators[index].withdrawable_epoch =
                 Greatest(@, epoch + EPOCHS_PER_SLASHINGS_VECTOR),
              !.slashings[epoch % EPOCHS_PER_SLASHINGS_VECTOR] =
                 @ + t.validators[index].effective_balance]
      effective_balance == u.validators[index].effective_balance
  IN Rewarded(
       Penalised(u, index, effective_balance \div MIN_SLASHING_PENALTY_QUOTIENT_ELECTRA),
       proposer, effective_balance \div WHISTLEBLOWER_REWARD_QUOTIENT_ELECTRA)
=============================================================================
