--------------------------- MODULE StateTransition ---------------------------
(***************************************************************************)
(* state_transition along a tree of blocks: the post-state of every block, *)
(* as far as justification and finalization go.  Slots are kept, so an     *)
(* attestation is checked against its inclusion window, an epoch may start *)
(* without a block, and a block may skip whole epochs.                     *)
(*                                                                         *)
(* An attestation is [indices, slot, beacon_block_root, source, target].   *)
(***************************************************************************)
EXTENDS BlockTree, FiniteSetsExt

CONSTANTS
  AnchorState,       \* the state of the anchor block
  MaxEpoch           \* bound on the epochs a block_roots vector remembers

MIN_ATTESTATION_INCLUSION_DELAY == 1

GenesisAnchorState ==
  [slot |-> block[anchor].slot,
   epoch |-> GENESIS_EPOCH,
   latest_block |-> anchor,
   block_roots |-> [e \in 0..MaxEpoch |-> anchor],
   justification_bits |-> NoBits,
   previous_justified_checkpoint |-> GenesisCheckpoint,
   current_justified_checkpoint |-> GenesisCheckpoint,
   finalized_checkpoint |-> GenesisCheckpoint,
   previous_target |-> {},
   current_target |-> {},
   slashed |-> {}]

(* From the last slot of an epoch to the first of the next: the chain's    *)
(* latest block stands for the new epoch until a block takes its slot.     *)
EnterEpoch(s) ==
  [EpochProcessed(s) EXCEPT !.block_roots =
     [e \in DOMAIN @ |-> IF e > s.epoch THEN s.latest_block ELSE @[e]]]

process_slots(s, slot) ==
  LET in_epoch[e \in s.epoch..compute_epoch_at_slot(slot)] ==
        IF e = s.epoch THEN s ELSE EnterEpoch(in_epoch[e - 1])
  IN [in_epoch[compute_epoch_at_slot(slot)] EXCEPT !.slot = slot]

process_block_header(s, r) ==
  [s EXCEPT !.latest_block = r,
            !.block_roots =
              [e \in DOMAIN @ |->
                 IF compute_start_slot_at_epoch(e) >= s.slot THEN r ELSE @[e]]]

(* The assertions of process_attestation. *)
is_valid_attestation(s, a) ==
  /\ a.target.epoch \in {get_previous_epoch(s.epoch), s.epoch}
  /\ a.target.epoch = compute_epoch_at_slot(a.slot)
  /\ a.slot + MIN_ATTESTATION_INCLUSION_DELAY <= s.slot
  /\ s.slot <= a.slot + SLOTS_PER_EPOCH
  /\ a.source = ExpectedSource(s, a.target.epoch)

process_attestation(a, s) == RecordTarget(s, a.indices, a.target)

process_operations(s, r) ==
  FoldSet(process_attestation,
          [s EXCEPT !.slashed = @ \cup block[r].attester_slashings],
          block[r].attestations)

(* The state of each block after its own operations. *)
post_state ==
  LET post[r \in Blocks] ==
        IF r = anchor THEN AnchorState
        ELSE process_operations(
               process_block_header(
                 process_slots(post[block[r].parent_root], block[r].slot), r), r)
  IN [r \in Blocks |-> post[r]]

(* Every block of the tree is one that state_transition accepts. *)
ASSUME BlocksValid ==
  \A r \in Blocks \ {anchor} :
    LET s == process_slots(post_state[block[r].parent_root], block[r].slot)
    IN \A a \in block[r].attestations : is_valid_attestation(s, a)

(* The same state pulled up to the end of its epoch. *)
pulled_up_state == [r \in Blocks |-> JustificationProcessed(post_state[r])]

=============================================================================
