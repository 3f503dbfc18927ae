------------------------------ MODULE ForkChoice ------------------------------
(***************************************************************************)
(* A node's fork choice: the Store and the handlers of                     *)
(* specs/phase0/fork-choice.md, called in any order the node's clock and   *)
(* the network produce.                                                    *)
(*                                                                         *)
(* Ticks may skip slots and epochs, blocks arrive in any order that has    *)
(* parents first, late, or twice; attestations arrive before or after the  *)
(* blocks that carry them.  A handler whose assertion fails leaves the     *)
(* store alone: the call is the stuttering step.                           *)
(*                                                                         *)
(* An attestation is [indices, slot, beacon_block_root, source, target];   *)
(* its signature is valid.                                                 *)
(***************************************************************************)
EXTENDS ForkChoiceStore, FiniteSetsExt

CONSTANTS
  Times,             \* bound: the times a tick may report
  WireAttestations,  \* bound: the attestations that circulate outside blocks
  AttesterSlashings  \* bound: the evidence that circulates, [attestation_1, attestation_2]

ASSUME TimesAssumption == Times \subseteq Nat

(* Attestations and evidence have the types of their containers. *)
WellFormed(a) ==
  /\ a.indices \in SUBSET Validators
  /\ a.slot \in Nat
  /\ a.target \in [epoch : Nat, root : Nat]

ASSUME MessagesAssumption ==
  /\ \A a \in WireAttestations \cup UNION {block[r].attestations : r \in Blocks} : WellFormed(a)
  /\ \A e \in AttesterSlashings : WellFormed(e.attestation_1) /\ WellFormed(e.attestation_2)

VARIABLE store

-----------------------------------------------------------------------------
(* Checkpoint updates. *)

(* Mutant: a finalized checkpoint of the same epoch is taken over, which   *)
(* at genesis is the state's zero checkpoint.                              *)
update_checkpoints_or_equal(s, justified_checkpoint, finalized_checkpoint) ==
  [s EXCEPT
     !.justified_checkpoint =
       IF justified_checkpoint.epoch > @.epoch THEN justified_checkpoint ELSE @,
     !.finalized_checkpoint =
       IF finalized_checkpoint.epoch >= @.epoch THEN finalized_checkpoint ELSE @]

update_checkpoints(s, justified_checkpoint, finalized_checkpoint) ==
  [s EXCEPT
     !.justified_checkpoint =
       IF justified_checkpoint.epoch > @.epoch THEN justified_checkpoint ELSE @,
     !.finalized_checkpoint =
       IF finalized_checkpoint.epoch > @.epoch THEN finalized_checkpoint ELSE @]

(* Mutant: unrealized finality is not recorded. *)
update_unrealized_checkpoints_justified_only(s, justified_checkpoint, finalized_checkpoint) ==
  [s EXCEPT
     !.unrealized_justified_checkpoint =
       IF justified_checkpoint.epoch > @.epoch THEN justified_checkpoint ELSE @]

update_unrealized_checkpoints(s, justified_checkpoint, finalized_checkpoint) ==
  [s EXCEPT
     !.unrealized_justified_checkpoint =
       IF justified_checkpoint.epoch > @.epoch THEN justified_checkpoint ELSE @,
     !.unrealized_finalized_checkpoint =
       IF finalized_checkpoint.epoch > @.epoch THEN finalized_checkpoint ELSE @]

(* Mutant: what a late block justifies waits for the next epoch. *)
compute_pulled_up_tip_deferred(s, r) ==
  LET state == PulledUpState[r]
  IN update_unrealized_checkpoints(
       [s EXCEPT !.unrealized_justifications =
          [x \in DOMAIN @ \cup {r} |->
             IF x = r THEN state.current_justified_checkpoint ELSE @[x]]],
       state.current_justified_checkpoint, state.finalized_checkpoint)

compute_pulled_up_tip(s, r) ==
  LET state == PulledUpState[r]
      noted == update_unrealized_checkpoints(
                 [s EXCEPT !.unrealized_justifications =
                    [x \in DOMAIN @ \cup {r} |->
                       IF x = r THEN state.current_justified_checkpoint ELSE @[x]]],
                 state.current_justified_checkpoint, state.finalized_checkpoint)
  IN IF block_epoch(r) < get_current_store_epoch(s)
     THEN update_checkpoints(noted, state.current_justified_checkpoint,
                             state.finalized_checkpoint)
     ELSE noted

-----------------------------------------------------------------------------
(* on_tick. *)

on_tick_per_slot(s, time) ==
  LET ticked == [s EXCEPT !.time = time]
      new_slot == get_current_slot(ticked) > get_current_slot(s)
      unboosted == IF new_slot
                   THEN [ticked EXCEPT !.proposer_boost_root = ZeroRoot] ELSE ticked
  IN IF new_slot /\ compute_slots_since_epoch_start(get_current_slot(ticked)) = 0
     THEN update_checkpoints(unboosted, s.unrealized_justified_checkpoint,
                             s.unrealized_finalized_checkpoint)
     ELSE unboosted

(* The loop of on_tick as the code has it: slot by slot, then to `time`.   *)
on_tick_slot_by_slot(s, time) ==
  LET now == get_current_slot(s)
      tick_slot == (time - genesis_time) \div SECONDS_PER_SLOT
      at_slot[n \in now..tick_slot] ==
        IF n = now THEN s
        ELSE on_tick_per_slot(at_slot[n - 1], genesis_time + n * SECONDS_PER_SLOT)
  IN on_tick_per_slot(at_slot[tick_slot], time)

(* Mutant: one tick to `time`, the slots in between are not visited. *)
on_tick_no_catch_up(s, time) == on_tick_per_slot(s, time)

(* The same in one step (CatchUp): checkpoints are pulled up if any epoch  *)
(* began on the way.                                                       *)
on_tick(s, time) ==
  LET ticked == [s EXCEPT !.time = time]
      unboosted == IF get_current_slot(ticked) > get_current_slot(s)
                   THEN [ticked EXCEPT !.proposer_boost_root = ZeroRoot] ELSE ticked
  IN IF get_current_store_epoch(ticked) > get_current_store_epoch(s)
     THEN update_checkpoints(unboosted, s.unrealized_justified_checkpoint,
                             s.unrealized_finalized_checkpoint)
     ELSE unboosted

-----------------------------------------------------------------------------
(* on_block. *)

is_acceptable_block(s, r) ==
  /\ block[r].parent_root \in s.blocks
  /\ get_current_slot(s) >= block[r].slot
  /\ block[r].slot > compute_start_slot_at_epoch(s.finalized_checkpoint.epoch)
  /\ s.finalized_checkpoint.root =
       get_checkpoint_block(block[r].parent_root, s.finalized_checkpoint.epoch)

is_timely(s, r) ==
  /\ get_current_slot(s) = block[r].slot
  /\ time_into_slot(s) < SECONDS_PER_SLOT \div INTERVALS_PER_SLOT

(* Mutant: a later timely block takes the boost over. *)
boost_root_after_any(s, r) ==
  IF is_timely(s, r) THEN r ELSE s.proposer_boost_root

(* Only the first timely block of a slot is boosted. *)
boost_root_after(s, r) ==
  IF is_timely(s, r) /\ s.proposer_boost_root = ZeroRoot
  THEN r ELSE s.proposer_boost_root

on_block(s, r) ==
  LET added == [s EXCEPT
        !.blocks = @ \cup {r},
        !.block_timeliness = [x \in DOMAIN @ \cup {r} |->
                                IF x = r THEN is_timely(s, r) ELSE @[x]],
        !.proposer_boost_root = boost_root_after(s, r)]
  IN compute_pulled_up_tip(
       update_checkpoints(added, PostState[r].current_justified_checkpoint,
                          PostState[r].finalized_checkpoint), r)

-----------------------------------------------------------------------------
(* on_attestation and on_attester_slashing. *)

is_target_epoch_current(s, a) ==
  a.target.epoch \in {get_current_store_epoch(s),
                      get_previous_epoch(get_current_store_epoch(s))}

is_acceptable_attestation(s, a, is_from_block) ==
  /\ is_from_block \/ is_target_epoch_current(s, a)
  /\ a.target.epoch = compute_epoch_at_slot(a.slot)
  /\ a.target.root \in s.blocks
  /\ a.beacon_block_root \in s.blocks
  /\ block[a.beacon_block_root].slot <= a.slot
  /\ a.target.root = get_checkpoint_block(a.beacon_block_root, a.target.epoch)
  /\ get_current_slot(s) >= a.slot + 1

store_target_checkpoint_state(s, target) ==
  [s EXCEPT !.checkpoint_states = @ \cup {target}]

(* Mutant: a second message for the same epoch replaces the first. *)
is_newer_message_or_same(s, i, epoch) ==
  i \in DOMAIN s.latest_messages => epoch >= s.latest_messages[i].epoch

is_newer_message(s, i, epoch) ==
  i \in DOMAIN s.latest_messages => epoch > s.latest_messages[i].epoch

update_latest_messages(s, a) ==
  LET updated == {i \in a.indices \ s.equivocating_indices :
                    is_newer_message(s, i, a.target.epoch)}
  IN [s EXCEPT !.latest_messages =
        [i \in DOMAIN @ \cup updated |->
           IF i \in updated
           THEN [epoch |-> a.target.epoch, root |-> a.beacon_block_root] ELSE @[i]]]

on_attestation(s, a) ==
  update_latest_messages(store_target_checkpoint_state(s, a.target), a)

is_slashable_attestation_data(data_1, data_2) ==
  \/ data_1 # data_2 /\ data_1.target.epoch = data_2.target.epoch
  \/ /\ data_1.source.epoch < data_2.source.epoch
     /\ data_2.target.epoch < data_1.target.epoch

attestation_data(a) ==
  [slot |-> a.slot, beacon_block_root |-> a.beacon_block_root,
   source |-> a.source, target |-> a.target]

is_acceptable_slashing(s, e) ==
  /\ is_slashable_attestation_data(attestation_data(e.attestation_1),
                                   attestation_data(e.attestation_2))
  /\ s.justified_checkpoint.root \in s.blocks

on_attester_slashing(s, e) ==
  [s EXCEPT !.equivocating_indices =
     @ \cup (e.attestation_1.indices \cap e.attestation_2.indices)]

-----------------------------------------------------------------------------

Init == store = get_forkchoice_store

Tick(time) ==
  /\ time > store.time
  /\ store' = on_tick(store, time)

ReceiveBlock(r) ==
  /\ is_acceptable_block(store, r)
  /\ store' = on_block(store, r)

(* From the wire. *)
ReceiveAttestation(a) ==
  /\ is_acceptable_attestation(store, a, FALSE)
  /\ store' = on_attestation(store, a)

(* From within block r, after the block itself, not necessarily at once. *)
ReceiveBlockAttestation(r, a) ==
  /\ r \in store.blocks
  /\ is_acceptable_attestation(store, a, TRUE)
  /\ store' = on_attestation(store, a)

ReceiveSlashing(e) ==
  /\ is_acceptable_slashing(store, e)
  /\ store' = on_attester_slashing(store, e)

Next ==
  \/ \E time \in Times : Tick(time)
  \/ \E r \in Blocks \ {anchor} : ReceiveBlock(r)
  \/ \E a \in WireAttestations : ReceiveAttestation(a)
  \/ \E r \in Blocks : \E a \in block[r].attestations : ReceiveBlockAttestation(r, a)
  \/ \E e \in AttesterSlashings : ReceiveSlashing(e)

Spec == Init /\ [][Next]_store

-----------------------------------------------------------------------------
(* Properties. *)

StoreCheckpoints == [epoch : Nat, root : Blocks]

(* Every field of the store has the type the class Store gives it, and the *)
(* maps keyed by block or validator have the entries the handlers rely on. *)
TypeOK ==
  /\ store.time \in Nat
  /\ store.justified_checkpoint \in StoreCheckpoints
  /\ store.finalized_checkpoint \in StoreCheckpoints
  /\ store.unrealized_justified_checkpoint \in StoreCheckpoints
  /\ store.unrealized_finalized_checkpoint \in StoreCheckpoints
  /\ store.blocks \in SUBSET Blocks
  /\ store.proposer_boost_root \in store.blocks \cup {ZeroRoot}
  /\ store.equivocating_indices \in SUBSET Validators
  /\ store.block_timeliness \in [store.blocks \ {anchor} -> BOOLEAN]
  /\ store.checkpoint_states \in SUBSET StoreCheckpoints
  /\ DOMAIN store.latest_messages \subseteq Validators
  /\ \A i \in DOMAIN store.latest_messages :
       store.latest_messages[i] \in [epoch : Nat, root : store.blocks]
  /\ DOMAIN store.unrealized_justifications = store.blocks

(* What the received blocks justify or finalize in their own post-state,   *)
(* or once pulled up to the end of their epoch; and the latest epoch of a  *)
(* set of checkpoints.                                                     *)
OfBlocks(blocks, by) == {AnchorCheckpoint} \cup {by[r] : r \in blocks}
BlocksOfPastEpochs(s) == {r \in s.blocks : block_epoch(r) < get_current_store_epoch(s)}
Realized(s, by, pulled_up) ==
  OfBlocks(s.blocks, by) \cup OfBlocks(BlocksOfPastEpochs(s), pulled_up)
LatestEpoch(checkpoints) == Max({c.epoch : c \in checkpoints})

(* The store's justified and finalized epochs depend on nothing but which  *)
(* blocks were received and the current epoch: not on the order of blocks  *)
(* and ticks, on lateness, or on which slots had a tick of their own       *)
(* (on_block, on_tick and compute_pulled_up_tip each apply part of it).    *)
(* Blocks whose epoch is over count pulled up, the others as they are.     *)
RealizedCheckpoints ==
  /\ store.justified_checkpoint.epoch =
       LatestEpoch(Realized(store, JustifiedBy, JustifiedPulledUp))
  /\ store.finalized_checkpoint.epoch =
       LatestEpoch(Realized(store, FinalizedBy, FinalizedPulledUp))

(* The unrealized checkpoints are the best any received block justifies    *)
(* (finalizes) once pulled up, and never behind the realized ones.         *)
UnrealizedCheckpoints ==
  /\ store.unrealized_justified_checkpoint.epoch =
       LatestEpoch(OfBlocks(store.blocks, JustifiedPulledUp))
  /\ store.unrealized_finalized_checkpoint.epoch =
       LatestEpoch(OfBlocks(store.blocks, FinalizedPulledUp))
  /\ store.justified_checkpoint.epoch <= store.unrealized_justified_checkpoint.epoch
  /\ store.finalized_checkpoint.epoch <= store.unrealized_finalized_checkpoint.epoch

(* The justified block, where every head starts, descends from the         *)
(* finalized one although update_checkpoints moves the two independently   *)
(* and from different blocks; the same for the unrealized pair.            *)
JustifiedExtendsFinalized ==
  /\ Descends(store.justified_checkpoint.root, store.finalized_checkpoint.root)
  /\ Descends(store.unrealized_justified_checkpoint.root,
              store.unrealized_finalized_checkpoint.root)

(* A slashing takes the votes of the slashed out of their epoch, so a      *)
(* block may justify less than its parent had by the end of that epoch.    *)
JustificationKept(blocks) ==
  \A r \in blocks \ {anchor} :
    JustifiedPulledUp[block[r].parent_root].epoch <= JustifiedPulledUp[r].epoch

(* Unless a slashing takes back what the store has justified, the filter   *)
(* of get_filtered_block_tree never discards every branch: the head is a   *)
(* leaf of the received tree, and one that descends from the finalized     *)
(* block.                                                                  *)
HeadIsViableLeaf ==
  (HeadIsDefined(store) /\ JustificationKept(store.blocks)) =>
    LET head == get_head(store)
    IN /\ Children(store.blocks, head) = {}
       /\ Descends(head, store.finalized_checkpoint.root)

(* Once finalized, always finalized: a handler only moves the finalized    *)
(* checkpoint to a descendant of later epoch, so a block that left the     *)
(* finalized chain never comes back.                                       *)
FinalityMovesForward ==
  [][LET old == store.finalized_checkpoint
         new == store'.finalized_checkpoint
     IN new # old => new.epoch > old.epoch /\ Descends(new.root, old.root)]_store

(* The boost belongs to a block of the current slot, and within a slot it  *)
(* never passes from one block to another, re-delivery included.           *)
BoostOncePerSlot ==
  [][/\ store'.proposer_boost_root # ZeroRoot =>
          block[store'.proposer_boost_root].slot = get_current_slot(store')
     /\ (store.proposer_boost_root # ZeroRoot
           /\ get_current_slot(store') = get_current_slot(store)) =>
          store'.proposer_boost_root = store.proposer_boost_root]_store

(* A validator has one message per epoch, the first that was accepted:     *)
(* messages only advance to a later epoch, and an equivocator's is frozen  *)
(* (update_latest_messages, on_attester_slashing).                         *)
OneMessagePerEpoch ==
  [][\A i \in DOMAIN store.latest_messages :
       LET old == store.latest_messages[i]
           new == store'.latest_messages[i]
       IN new # old =>
            new.epoch > old.epoch /\ i \notin store.equivocating_indices]_store

(* on_tick's one-step form does what the loop of the code does, however    *)
(* far the store's clock is behind.                                        *)
CatchUp ==
  \A time \in Times :
    time > store.time => on_tick(store, time) = on_tick_slot_by_slot(store, time)

(* When get_proposer_head gives up a late head, the re-org works: a timely *)
(* block of this slot on the parent becomes the head, whatever else the    *)
(* store holds, provided no other block has taken this slot's boost.       *)
ReorgSucceeds ==
  \A r \in Blocks \ store.blocks :
    (/\ HeadIsDefined(store)
     /\ ProposerHeadIsDefined(store, get_head(store))
     /\ block[r].slot = get_current_slot(store)
     /\ store.proposer_boost_root = ZeroRoot
     /\ get_proposer_head(store, get_head(store), block[r].slot) # get_head(store)
     /\ get_proposer_head(store, get_head(store), block[r].slot) = block[r].parent_root)
    => get_head(on_block(store, r)) = r

(* fork-choice.md says the head of a store "is defined as get_head(store)": *)
(* it should be, once the store has been given every attestation of its    *)
(* blocks that on_attestation accepts.                                     *)
AttestationsSettled ==
  \A r \in store.blocks : \A a \in block[r].attestations :
    is_acceptable_attestation(store, a, TRUE) => on_attestation(store, a) = store

HeadDefined == AttestationsSettled => HeadIsDefined(store)

(* get_proposer_head says it gives up the head only "if it arrived later   *)
(* than the attestation deadline": a block that arrived before it does not *)
(* become late.                                                            *)
TimelyStaysTimely ==
  [][\A r \in DOMAIN store.block_timeliness :
       ~ is_head_late(store, r) => ~ is_head_late(store', r)]_store

=============================================================================
