----------------------------- MODULE Withdrawals -----------------------------
(***************************************************************************)
(* The withdrawals a block must contain: the queue of pending partial      *)
(* withdrawals first, then a sweep over a part of the registry.            *)
(***************************************************************************)
EXTENDS Registry

CONSTANTS
  MAX_WITHDRAWALS_PER_PAYLOAD,
  MAX_PENDING_PARTIALS_PER_WITHDRAWALS_SWEEP,
  MAX_VALIDATORS_PER_WITHDRAWALS_SWEEP

(* The queue of partial withdrawals leaves the sweep some room. *)
ASSUME WithdrawalConstants ==
  /\ {MAX_WITHDRAWALS_PER_PAYLOAD, MAX_PENDING_PARTIALS_PER_WITHDRAWALS_SWEEP,
      MAX_VALIDATORS_PER_WITHDRAWALS_SWEEP} \subseteq Nat \ {0}
  /\ MAX_PENDING_PARTIALS_PER_WITHDRAWALS_SWEEP < MAX_WITHDRAWALS_PER_PAYLOAD

is_fully_withdrawable_validator(v, balance, epoch) ==
  /\ has_execution_withdrawal_credential(v)
  /\ v.withdrawable_epoch <= epoch
  /\ balance > 0

is_partially_withdrawable_validator(v, balance) ==
  /\ has_execution_withdrawal_credential(v)
  /\ v.effective_balance = get_max_effective_balance(v)
  /\ balance > get_max_effective_balance(v)

(* Withdrawals of the same block forgotten. *)
total_withdrawn_none(withdrawals, index) == 0

total_withdrawn(withdrawals, index) ==
  Total([k \in DOMAIN withdrawals |->
           IF withdrawals[k].validator_index = index THEN withdrawals[k].amount ELSE 0])

Withdrawal(index, amount) == [validator_index |-> index, amount |-> amount]

(* The loop over the pending partial withdrawals. *)
PartialConsidered(s, p, pending) ==
  LET index   == pending.validator_index
      v       == s.validators[index]
      balance == s.balances[index] - total_withdrawn(p.withdrawals, index)
  IN IF \/ p.stopped
        \/ pending.withdrawable_epoch > get_current_epoch(s)
        \/ Len(p.withdrawals) = MAX_PENDING_PARTIALS_PER_WITHDRAWALS_SWEEP
     THEN [p EXCEPT !.stopped = TRUE]
     ELSE [p EXCEPT
             !.processed = @ + 1,
             !.withdrawals =
                IF /\ v.exit_epoch = FAR_FUTURE_EPOCH
                   /\ v.effective_balance >= MIN_ACTIVATION_BALANCE
                   /\ balance > MIN_ACTIVATION_BALANCE
                THEN Append(@, Withdrawal(index, Least(balance - MIN_ACTIVATION_BALANCE,
                                                       pending.amount)))
                ELSE @]

PartialWithdrawals(s) ==
  FoldLeft(LAMBDA p, pending : PartialConsidered(s, p, pending),
           [withdrawals |-> <<>>, processed |-> 0, stopped |-> FALSE],
           s.pending_partial_withdrawals)

(* One validator of the sweep. *)
Swept(s, withdrawals, index) ==
  LET v       == s.validators[index]
      balance == s.balances[index] - total_withdrawn(withdrawals, index)
  IN IF Len(withdrawals) = MAX_WITHDRAWALS_PER_PAYLOAD
     THEN withdrawals
     ELSE IF is_fully_withdrawable_validator(v, balance, get_current_epoch(s))
     THEN Append(withdrawals, Withdrawal(index, balance))
     ELSE IF is_partially_withdrawable_validator(v, balance)
     THEN Append(withdrawals, Withdrawal(index, balance - get_max_effective_balance(v)))
     ELSE withdrawals

(* The k-th index after index, around the registry (indices start at 1). *)
After(s, index, k) == ((index - 1 + k) % Len(s.validators)) + 1

get_expected_withdrawals(s) ==
  LET bound == Least(Len(s.validators), MAX_VALIDATORS_PER_WITHDRAWALS_SWEEP)
      order == [k \in 1..bound |-> After(s, s.next_withdrawal_validator_index, k - 1)]
  IN FoldLeft(LAMBDA withdrawals, index : Swept(s, withdrawals, index),
              PartialWithdrawals(s).withdrawals, order)

(* The sweep moves on only when it filled a block. *)
NextSweepStart_WhenFull(s, withdrawals) ==
  IF Len(withdrawals) = MAX_WITHDRAWALS_PER_PAYLOAD
  THEN After(s, Last(withdrawals).validator_index, 1)
  ELSE s.next_withdrawal_validator_index

NextSweepStart(s, withdrawals) ==
  IF Len(withdrawals) = MAX_WITHDRAWALS_PER_PAYLOAD
  THEN After(s, Last(withdrawals).validator_index, 1)
  ELSE After(s, s.next_withdrawal_validator_index, MAX_VALIDATORS_PER_WITHDRAWALS_SWEEP)

Paid(s, withdrawal) == decrease_balance(s, withdrawal.validator_index, withdrawal.amount)

process_withdrawals(s) ==
  LET expected == get_expected_withdrawals(s)
      paid     == FoldLeft(Paid, s, expected)
  IN [paid EXCEPT
        !.supply = @ - Total(Amounts(expected)),
        !.pending_partial_withdrawals =
           SubSeq(@, PartialWithdrawals(s).processed + 1, Len(@)),
        !.next_withdrawal_validator_index = NextSweepStart(s, expected)]
=============================================================================
