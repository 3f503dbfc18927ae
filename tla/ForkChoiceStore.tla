--------------------------- MODULE ForkChoiceStore ---------------------------
(***************************************************************************)
(* The fork choice Store of specs/phase0/fork-choice.md and every function *)
(* that reads it: the clock, the vote weights, the viable block tree, the  *)
(* head, and the proposer's late-block re-org.                             *)
(*                                                                         *)
(* A store s is a record with the fields of the class Store, except that   *)
(*   blocks            is the set of received roots: a block and its       *)
(*                     post-state (block_states) come with the root;       *)
(*   checkpoint_states is the set of checkpoints whose state was stored:   *)
(*                     that state is the post-state of the root, advanced. *)
(* Handlers only add a block after its parent, so `blocks` holds the whole *)
(* chain of each of its members down to the anchor, and get_ancestor on    *)
(* the tree of all blocks finds what the code finds in the store.          *)
(***************************************************************************)
EXTENDS BlockTree

CONSTANTS
  PostState,         \* PostState[r]: the state after block r
  PulledUpState,     \* PulledUpState[r]: the same with its epoch's votes counted
  SECONDS_PER_SLOT,
  INTERVALS_PER_SLOT,
  PROPOSER_SCORE_BOOST,
  REORG_HEAD_WEIGHT_THRESHOLD,
  REORG_PARENT_WEIGHT_THRESHOLD,
  REORG_MAX_EPOCHS_SINCE_FINALIZATION

(* Time is counted from genesis. *)
genesis_time == 0

ASSUME ConfigAssumption ==
  /\ INTERVALS_PER_SLOT \in Nat \ {0}
  /\ SECONDS_PER_SLOT \in Nat
  /\ INTERVALS_PER_SLOT <= SECONDS_PER_SLOT
  /\ {PROPOSER_SCORE_BOOST, REORG_HEAD_WEIGHT_THRESHOLD,
      REORG_PARENT_WEIGHT_THRESHOLD, REORG_MAX_EPOCHS_SINCE_FINALIZATION} \subseteq Nat

block_epoch(r) == compute_epoch_at_slot(block[r].slot)

AnchorCheckpoint == Checkpoint(block_epoch(anchor), anchor)

(* The checkpoints of the states of the tree.                              *)
JustifiedBy == [r \in Blocks |-> PostState[r].current_justified_checkpoint]
FinalizedBy == [r \in Blocks |-> PostState[r].finalized_checkpoint]
JustifiedPulledUp == [r \in Blocks |-> PulledUpState[r].current_justified_checkpoint]
FinalizedPulledUp == [r \in Blocks |-> PulledUpState[r].finalized_checkpoint]

CheckpointsOf(r) ==
  {JustifiedBy[r], FinalizedBy[r], JustifiedPulledUp[r], FinalizedPulledUp[r]}

Siblings(r, x) ==
  block[r].parent_root = block[x].parent_root /\ block_epoch(r) = block_epoch(x)

(* What state_transition makes of them.  A checkpoint names a block of its *)
(* state's own chain, unless it is older than the anchor; a state          *)
(* finalizes nothing later than it justifies, and justifies nothing of its *)
(* own epoch before it is pulled up to the end of it (CheckpointsOrdered   *)
(* and CheckpointsOnChain of Finality).  Justification moves at the ends   *)
(* of epochs only: a block of a later epoch than its parent has all that   *)
(* its parent's votes justify, and blocks of an epoch on one parent have   *)
(* the same.                                                               *)
ASSUME StatesAssumption ==
  /\ \A r \in Blocks :
       /\ \A c \in CheckpointsOf(r) :
            /\ c \in [epoch : Nat, root : Nat]
            /\ c.epoch > AnchorCheckpoint.epoch => c.root \in Blocks
            /\ c.root \in Blocks => /\ c.epoch >= AnchorCheckpoint.epoch
                                    /\ c.root = get_checkpoint_block(r, c.epoch)
       /\ FinalizedBy[r].epoch <= JustifiedBy[r].epoch
       /\ JustifiedBy[r].epoch <= JustifiedPulledUp[r].epoch
       /\ FinalizedBy[r].epoch <= FinalizedPulledUp[r].epoch
       /\ FinalizedPulledUp[r].epoch <= JustifiedPulledUp[r].epoch
       /\ JustifiedPulledUp[r].epoch <= block_epoch(r)
       /\ \/ JustifiedBy[r].epoch < block_epoch(r)
          \/ JustifiedBy[r].epoch <= AnchorCheckpoint.epoch
  /\ \A r \in Blocks \ {anchor} :
       LET parent_root == block[r].parent_root
       IN /\ JustifiedBy[parent_root].epoch <= JustifiedBy[r].epoch
          /\ block_epoch(parent_root) < block_epoch(r) =>
               JustifiedPulledUp[parent_root].epoch <= JustifiedBy[r].epoch
  /\ \A r, x \in Blocks \ {anchor} :
       Siblings(r, x) => JustifiedBy[r] = JustifiedBy[x] /\ FinalizedBy[r] = FinalizedBy[x]

(* No two states of the tree conflict: what one of them finalizes is on    *)
(* the chain of every state that finalizes or justifies for no earlier an  *)
(* epoch.  Otherwise a third of the stake is slashable                     *)
(* (SafetyIsAccountable of FinalityProofs).                                *)
ASSUME NoConflictingFinality ==
  \A q, r \in Blocks : \A f \in {FinalizedBy[q], FinalizedPulledUp[q]}, c \in CheckpointsOf(r) :
    AnchorCheckpoint.epoch < f.epoch /\ f.epoch <= c.epoch =>
      f.root = get_checkpoint_block(r, f.epoch)

get_forkchoice_store ==
  [time |-> genesis_time + SECONDS_PER_SLOT * block[anchor].slot,
   justified_checkpoint |-> AnchorCheckpoint,
   finalized_checkpoint |-> AnchorCheckpoint,
   unrealized_justified_checkpoint |-> AnchorCheckpoint,
   unrealized_finalized_checkpoint |-> AnchorCheckpoint,
   proposer_boost_root |-> ZeroRoot,
   equivocating_indices |-> {},
   blocks |-> {anchor},
   block_timeliness |-> <<>>,
   checkpoint_states |-> {AnchorCheckpoint},
   latest_messages |-> <<>>,
   unrealized_justifications |-> [r \in {anchor} |-> AnchorCheckpoint]]

-----------------------------------------------------------------------------
(* The clock. *)

get_current_slot(s) == (s.time - genesis_time) \div SECONDS_PER_SLOT
get_current_store_epoch(s) == compute_epoch_at_slot(get_current_slot(s))
time_into_slot(s) == (s.time - genesis_time) % SECONDS_PER_SLOT
compute_slots_since_epoch_start(slot) ==
  slot - compute_start_slot_at_epoch(compute_epoch_at_slot(slot))

-----------------------------------------------------------------------------
(* Weights.  They are read off the justified state; the code raises an     *)
(* exception when that state was never stored (see HeadIsDefined).           *)

calculate_committee_fraction(committee_percent) ==
  ((total_active_balance \div SLOTS_PER_EPOCH) * committee_percent) \div 100

get_proposer_score == calculate_committee_fraction(PROPOSER_SCORE_BOOST)

(* The validators whose latest message supports r. *)
Supporters(s, r) ==
  {i \in DOMAIN s.latest_messages \ s.equivocating_indices :
     /\ i \notin PostState[s.justified_checkpoint.root].slashed
     /\ Descends(s.latest_messages[i].root, r)}

Boosted(s, r) ==
  s.proposer_boost_root # ZeroRoot /\ Descends(s.proposer_boost_root, r)

get_weight(s, r) ==
  Balance[Supporters(s, r)] + (IF Boosted(s, r) THEN get_proposer_score ELSE 0)

-----------------------------------------------------------------------------
(* The viable tree and the head. *)

Children(blocks, r) == {c \in blocks \ {anchor} : block[c].parent_root = r}

(* Mutant: the voting source of an old block is not pulled up. *)
get_voting_source_realized(s, r) == PostState[r].current_justified_checkpoint

(* The checkpoint r's chain would vote from: pulled up once its epoch is   *)
(* over.                                                                   *)
get_voting_source(s, r) ==
  IF get_current_store_epoch(s) > block_epoch(r)
  THEN s.unrealized_justifications[r]
  ELSE PostState[r].current_justified_checkpoint

correct_justified(s, r) ==
  LET voting_source == get_voting_source(s, r)
  IN \/ s.justified_checkpoint.epoch = GENESIS_EPOCH
     \/ voting_source.epoch = s.justified_checkpoint.epoch
     \/ voting_source.epoch + 2 >= get_current_store_epoch(s)

correct_finalized(s, r) ==
  \/ s.finalized_checkpoint.epoch = GENESIS_EPOCH
  \/ s.finalized_checkpoint.root = get_checkpoint_block(r, s.finalized_checkpoint.epoch)

(* filter_block_tree from the justified block: the blocks with a leaf      *)
(* below them whose checkpoints agree with the store's.  Only leaves are   *)
(* tested.                                                                 *)
get_filtered_block_tree(s) ==
  LET viable_leaves ==
        {leaf \in s.blocks :
           /\ Children(s.blocks, leaf) = {}
           /\ Descends(leaf, s.justified_checkpoint.root)
           /\ correct_justified(s, leaf)
           /\ correct_finalized(s, leaf)}
  IN {r \in s.blocks :
        /\ Descends(r, s.justified_checkpoint.root)
        /\ \E leaf \in viable_leaves : Descends(leaf, r)}

(* Heavier, ties broken by the higher root. *)
Heavier(s, r, x) ==
  \/ get_weight(s, r) > get_weight(s, x)
  \/ get_weight(s, r) = get_weight(s, x) /\ r > x

(* LMD-GHOST: from the justified block, always to the heaviest child. *)
get_head(s) ==
  LET blocks == get_filtered_block_tree(s)
      descend[head \in Blocks] ==
        LET children == Children(blocks, head)
        IN IF children = {} THEN head
           ELSE descend[CHOOSE r \in children :
                          \A x \in children \ {r} : Heavier(s, r, x)]
  IN descend[s.justified_checkpoint.root]

(* get_head does not fail: it needs the justified state as soon as it has  *)
(* children to compare.                                                    *)
HeadIsDefined(s) ==
  \/ s.justified_checkpoint \in s.checkpoint_states
  \/ Children(get_filtered_block_tree(s), s.justified_checkpoint.root) = {}

-----------------------------------------------------------------------------
(* The proposer's re-org of a late head. *)

(* block_timeliness has no entry for the anchor: there the code fails.     *)
is_head_late(s, head_root) == ~ s.block_timeliness[head_root]
is_shuffling_stable(slot) == slot % SLOTS_PER_EPOCH # 0
is_ffg_competitive(s, head_root, parent_root) ==
  s.unrealized_justifications[head_root] = s.unrealized_justifications[parent_root]
is_finalization_ok(s, slot) ==
  compute_epoch_at_slot(slot) <=
    s.finalized_checkpoint.epoch + REORG_MAX_EPOCHS_SINCE_FINALIZATION
is_proposing_on_time(s) ==
  time_into_slot(s) <= (SECONDS_PER_SLOT \div INTERVALS_PER_SLOT) \div 2

(* Mutant: the two thresholds are mixed up. *)
is_head_weak_parent_threshold(s, head_root) ==
  get_weight(s, head_root) < calculate_committee_fraction(REORG_PARENT_WEIGHT_THRESHOLD)

is_head_weak(s, head_root) ==
  get_weight(s, head_root) < calculate_committee_fraction(REORG_HEAD_WEIGHT_THRESHOLD)
is_parent_strong(s, parent_root) ==
  get_weight(s, parent_root) > calculate_committee_fraction(REORG_PARENT_WEIGHT_THRESHOLD)

(* The head and its parent are a slot apart, and so are slot and head. *)
is_single_slot_reorg(head_root, slot) ==
  /\ block[block[head_root].parent_root].slot + 1 = block[head_root].slot
  /\ block[head_root].slot + 1 = slot

(* get_proposer_head does not fail. *)
ProposerHeadIsDefined(s, head_root) ==
  /\ head_root # anchor
  /\ s.proposer_boost_root # head_root
  /\ s.justified_checkpoint \in s.checkpoint_states

get_proposer_head(s, head_root, slot) ==
  LET parent_root == block[head_root].parent_root
  IN IF /\ is_head_late(s, head_root)
        /\ is_shuffling_stable(slot)
        /\ is_ffg_competitive(s, head_root, parent_root)
        /\ is_finalization_ok(s, slot)
        /\ is_proposing_on_time(s)
        /\ is_single_slot_reorg(head_root, slot)
        /\ is_head_weak(s, head_root)
        /\ is_parent_strong(s, parent_root)
     THEN parent_root ELSE head_root

=============================================================================
