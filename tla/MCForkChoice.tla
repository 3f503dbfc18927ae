---------------------------- MODULE MCForkChoice ----------------------------
(***************************************************************************)
(* Small instances of ForkChoice for TLC: block trees whose post-states    *)
(* come from StateTransition.                                              *)
(***************************************************************************)
EXTENDS ForkChoice, StateTransition, TLC

CONSTANTS v1, v2, v3, v4, v5

(* Every validator weighs 10. *)
TenEach == [indices \in SUBSET Validators |-> 10 * Cardinality(indices)]

Block(slot, parent_root, attestations) ==
  [slot |-> slot, parent_root |-> parent_root, attestations |-> attestations,
   attester_slashings |-> {}]

Attestation(indices, slot, beacon_block_root, source, target) ==
  [indices |-> indices, slot |-> slot, beacon_block_root |-> beacon_block_root,
   source |-> source, target |-> target]

(* The start of each slot and some times into it. *)
TimesAt(slots, offsets) == {SECONDS_PER_SLOT * n + o : n \in slots, o \in offsets}

-----------------------------------------------------------------------------
(* Two slots an epoch.  Block 3 justifies epoch 1, 4 justifies 2; the      *)
(* votes of epoch 3 finalize 2 in block 6, and in block 8 one epoch later. *)
(* 7 forks off below 4 and falls behind.  9, a rival of 4, slashes v1 and  *)
(* so takes back what 3 justifies.                                         *)

VoteFor2 == Attestation({v1, v2}, 2, 2, GenesisCheckpoint, Checkpoint(1, 2))
VoteFor3 == Attestation({v1, v3}, 4, 3, GenesisCheckpoint, Checkpoint(2, 3))
VoteFor5 == Attestation({v1, v2}, 6, 5, Checkpoint(2, 3), Checkpoint(3, 5))
VoteFor7 == Attestation({v2, v3}, 7, 7, Checkpoint(1, 2), Checkpoint(3, 3))

FinalityTree ==
  1 :> Block(0, 0, {}) @@
  2 :> Block(2, 1, {}) @@
  3 :> Block(4, 2, {VoteFor2}) @@
  4 :> Block(5, 3, {VoteFor3}) @@
  5 :> Block(6, 4, {}) @@
  6 :> Block(7, 5, {VoteFor5}) @@
  7 :> Block(7, 3, {}) @@
  8 :> Block(8, 5, {VoteFor5}) @@
  9 :> [Block(5, 3, {}) EXCEPT !.attester_slashings = {v1}]

FinalityTimes == TimesAt({2, 4, 10}, {0}) \cup TimesAt(5..8, {0, 4})

-----------------------------------------------------------------------------
(* Re-org: four slots an epoch, four validators, one to a slot.  Block 3   *)
(* may come late on 2; 4 is the re-org of 3, and 5 and 6 build on 3; 7 is  *)
(* a rival of 3 for its slot.                                              *)

InEpoch0(indices, slot, beacon_block_root) ==
  Attestation(indices, slot, beacon_block_root, GenesisCheckpoint, Checkpoint(0, 1))

ReorgTree ==
  1 :> Block(0, 0, {}) @@
  2 :> Block(1, 1, {}) @@
  3 :> Block(2, 2, {}) @@
  4 :> Block(3, 2, {}) @@
  5 :> Block(3, 3, {}) @@
  6 :> Block(4, 3, {}) @@
  7 :> Block(2, 2, {})

(* The proposer may act up to 2 seconds into its slot, a block is timely   *)
(* until 4 seconds.                                                        *)
ReorgTimes == TimesAt({1, 2, 4}, {0}) \cup TimesAt({2}, {4}) \cup TimesAt({3}, {0, 3, 4})

v1For2 == InEpoch0({v1}, 1, 2)
v2For2 == InEpoch0({v2}, 2, 2)
v2For3 == InEpoch0({v2}, 2, 3)
v3For3 == InEpoch0({v3}, 2, 3)

ReorgVotes == {v1For2, v2For2, v2For3, v3For3}

(* v2 voted twice for the slot of block 3. *)
DoubleVoteOfV2 == {[attestation_1 |-> v2For2, attestation_2 |-> v2For3]}

-----------------------------------------------------------------------------
(* Withheld: two slots an epoch.  Everyone votes for block 4, the votes    *)
(* are included in 5, and a node may see 5 without 4.                      *)

VoteFor4 == Attestation({v1, v2}, 5, 4, GenesisCheckpoint, Checkpoint(2, 3))

WithheldTree ==
  1 :> Block(0, 0, {}) @@
  2 :> Block(2, 1, {}) @@
  3 :> Block(4, 2, {}) @@
  4 :> Block(5, 3, {}) @@
  5 :> Block(6, 3, {VoteFor4})

WithheldTimes == TimesAt(1..8, {0})

-----------------------------------------------------------------------------
(* Vacuity probes, not properties: each must be found violated. *)
NoReorg ==
  \A r \in Blocks \ store.blocks :
    ~ /\ HeadIsDefined(store)
      /\ ProposerHeadIsDefined(store, get_head(store))
      /\ block[r].slot = get_current_slot(store)
      /\ store.proposer_boost_root = ZeroRoot
      /\ get_proposer_head(store, get_head(store), block[r].slot) # get_head(store)
      /\ get_proposer_head(store, get_head(store), block[r].slot) = block[r].parent_root
NothingFiltered ==
  \A r \in store.blocks :
    Descends(r, store.justified_checkpoint.root) => r \in get_filtered_block_tree(store)

=============================================================================
