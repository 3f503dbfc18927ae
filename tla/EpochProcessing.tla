-------------------------- MODULE EpochProcessing --------------------------
(***************************************************************************)
(* What attestations and epoch boundaries do to one beacon state:          *)
(* process_attestation's target bookkeeping and process_epoch's            *)
(* justification step.  Shared by the modules that run many states.        *)
(*                                                                         *)
(* A state is a record with the fields of Justification and                *)
(*   epoch            the current epoch,                                   *)
(*   block_roots      the root at the first slot of each epoch,            *)
(*   current_target, previous_target                                       *)
(*                    the validators whose attestation for the chain's own *)
(*                    checkpoint of that epoch was included (the matching  *)
(*                    target attestations of phase0, the timely target     *)
(*                    flags of altair),                                    *)
(*   slashed          the slashed validators.                              *)
(* The validator set and the effective balances do not change.             *)
(***************************************************************************)
EXTENDS Justification

CONSTANTS
  Validators,
  Balance,                        \* Balance[S]: summed effective balance of S
  EFFECTIVE_BALANCE_INCREMENT,
  ZeroRoot                        \* Root(), the root of no block

(***************************************************************************)
(* get_total_balance: never less than one increment.                       *)
(***************************************************************************)
get_total_balance(indices) ==
  IF Balance[indices] >= EFFECTIVE_BALANCE_INCREMENT
  THEN Balance[indices] ELSE EFFECTIVE_BALANCE_INCREMENT

total_active_balance == get_total_balance(Validators)

(* Balances add up, as any sum over validators does. *)
ASSUME BalanceAssumption ==
  /\ Balance \in [SUBSET Validators -> Nat]
  /\ \A S, T \in SUBSET Validators :
       S \cap T = {} => Balance[S \cup T] = Balance[S] + Balance[T]

(* The floor of get_total_balance is not itself a supermajority: there is  *)
(* more than one and a half increments of stake.                           *)
ASSUME IncrementAssumption ==
  /\ EFFECTIVE_BALANCE_INCREMENT \in Nat
  /\ EFFECTIVE_BALANCE_INCREMENT * 3 < total_active_balance * 2

GenesisCheckpoint == Checkpoint(GENESIS_EPOCH, ZeroRoot)

-----------------------------------------------------------------------------

get_block_root(s, epoch) == s.block_roots[epoch]

get_unslashed_attesting_balance(s, indices) ==
  get_total_balance(indices \ s.slashed)

(* The source every attestation for target_epoch must carry. *)
ExpectedSource(s, target_epoch) ==
  IF target_epoch = s.epoch
  THEN s.current_justified_checkpoint
  ELSE s.previous_justified_checkpoint

(* Mutant: every valid attestation counts, whatever its target root. *)
RecordTarget_AnyRoot(s, indices, target) ==
  IF target.epoch = s.epoch
  THEN [s EXCEPT !.current_target = @ \cup indices]
  ELSE [s EXCEPT !.previous_target = @ \cup indices]

(* The target flag is set only when the target is on this chain. *)
RecordTarget(s, indices, target) ==
  IF target.root # get_block_root(s, target.epoch) THEN s
  ELSE IF target.epoch = s.epoch
       THEN [s EXCEPT !.current_target = @ \cup indices]
       ELSE [s EXCEPT !.previous_target = @ \cup indices]

(* Two thirds of the active balance, less the slashed, voted for the       *)
(* chain's own checkpoint of the previous or current epoch.                *)
JustifiesPrevious(s) ==
  IsSupermajority(get_unslashed_attesting_balance(s, s.previous_target),
                  total_active_balance)

JustifiesCurrent(s) ==
  IsSupermajority(get_unslashed_attesting_balance(s, s.current_target),
                  total_active_balance)

(* process_justification_and_finalization on what the state holds.         *)
JustificationProcessed(s) ==
  process_justification_and_finalization(
    s, s.epoch,
    get_block_root(s, get_previous_epoch(s.epoch)), get_block_root(s, s.epoch),
    JustifiesPrevious(s), JustifiesCurrent(s))

(* What process_epoch does to the FFG fields and the participation. *)
EpochProcessed(s) ==
  [JustificationProcessed(s) EXCEPT
     !.epoch = s.epoch + 1,
     !.previous_target = s.current_target,
     !.current_target = {}]

=============================================================================
