------------------------------ MODULE BlockTree ------------------------------
(***************************************************************************)
(* The blocks that exist, for the modules that transition states along     *)
(* them or choose among them.                                              *)
(*                                                                         *)
(* A block root is a natural number, so that roots can be compared as the  *)
(* fork choice's tie-break does; 0 is the root of no block.                *)
(***************************************************************************)
EXTENDS EpochProcessing, FiniteSets

CONSTANTS
  Blocks,            \* the roots of the blocks, the anchor included
  block,             \* block[r]: [slot, parent_root, attestations, attester_slashings]
  anchor,            \* the block a store starts from
  SLOTS_PER_EPOCH

compute_epoch_at_slot(slot) == slot \div SLOTS_PER_EPOCH
compute_start_slot_at_epoch(epoch) == epoch * SLOTS_PER_EPOCH

(* Every block but the anchor is a later child of a block; the anchor is   *)
(* at the start of an epoch, for get_checkpoint_block looks for it there.  *)
ASSUME BlockTreeAssumption ==
  /\ ZeroRoot = 0
  /\ SLOTS_PER_EPOCH \in Nat \ {0}
  /\ Blocks \subseteq Nat \ {ZeroRoot}
  /\ anchor \in Blocks
  /\ \A r \in Blocks : block[r].slot \in Nat
  /\ \A r \in Blocks \ {anchor} :
       /\ block[r].parent_root \in Blocks
       /\ block[block[r].parent_root].slot < block[r].slot
  /\ block[anchor].parent_root \notin Blocks
  /\ compute_start_slot_at_epoch(compute_epoch_at_slot(block[anchor].slot)) = block[anchor].slot

(* The blocks of r's chain, r included: what get_ancestor walks along. *)
chain ==
  LET up[r \in Blocks] ==
        IF r = anchor THEN {anchor} ELSE {r} \cup up[block[r].parent_root]
  IN [r \in Blocks |-> up[r]]

(* The last block of r's chain at or before a slot; ZeroRoot when that is  *)
(* below the anchor, where the code finds no block.                        *)
get_ancestor(r, slot) ==
  LET at_or_before == {x \in chain[r] : block[x].slot <= slot}
  IN IF at_or_before = {} THEN ZeroRoot
     ELSE CHOOSE x \in at_or_before :
            \A y \in at_or_before : block[y].slot <= block[x].slot

get_checkpoint_block(r, epoch) == get_ancestor(r, compute_start_slot_at_epoch(epoch))

(* r is x or descends from it: get_ancestor(r, block[x].slot) = x. *)
Descends(r, x) == x \in chain[r]

=============================================================================
