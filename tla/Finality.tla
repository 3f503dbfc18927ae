------------------------------ MODULE Finality ------------------------------
(***************************************************************************)
(* Casper FFG across forks: the justification and finalization of          *)
(* specs/phase0/beacon-chain.md (and its altair participation flags) run   *)
(* on several competing chains at once, fed by attestations that may be    *)
(* included on any of them.                                                *)
(*                                                                         *)
(* A branch is a chain of blocks at epoch granularity: its BeaconState     *)
(* keeps the root at the first slot of each epoch, the FFG checkpoints,    *)
(* the validators whose target votes were included, and the slashed ones.  *)
(* Branches fork from one another at any moment.  Validators may vote      *)
(* however they like, so the model covers Byzantine voters; what the       *)
(* properties say is what the votes then prove against them.               *)
(*                                                                         *)
(* Abstractions: the validator set and the effective balances are fixed;   *)
(* slots inside an epoch and attestation committees are not distinguished; *)
(* an attestation is its FFG half (source, target), so evidence of two     *)
(* attestations that differ only in their head block is not counted.       *)
(***************************************************************************)
EXTENDS EpochProcessing, FiniteSets

CONSTANTS
  Branches,
  Aggregates,                     \* bound: the sets of validators that attest together
  FirstVotedEpoch,                \* bound: earlier targets are not voted for
  MaxEpoch,                       \* bound on the epochs of a branch
  EmptyEpochs,                    \* bound: the epochs that may pass without a block
  ForeignTargets,                 \* bound: whether chains include votes for other chains
  MaxSkew,                        \* bound: how far a branch may run ahead of another
  MaxVotes,                       \* bound on the number of votes cast
  MaxSlashings                    \* bound on the validators a branch slashes

Epochs == 0..MaxEpoch

ASSUME BoundsAssumption ==
  /\ Aggregates \in SUBSET SUBSET Validators
  /\ MaxEpoch \in Nat
  /\ EmptyEpochs \in SUBSET Nat
  /\ ForeignTargets \in BOOLEAN
  /\ MaxSkew \in Nat
  /\ MaxVotes \in Nat
  /\ MaxSlashings \in Nat
  /\ FirstVotedEpoch \in Nat

(* A block root: the branch that proposed it and the epoch it starts. *)
Root == Branches \X Epochs

Checkpoints == [epoch : Epochs, root : Root \cup {ZeroRoot}]

BeaconState ==
  [epoch : Epochs,
   block_roots : [Epochs -> Root],
   justification_bits : [BitIndex -> BOOLEAN],
   previous_justified_checkpoint : Checkpoints,
   current_justified_checkpoint : Checkpoints,
   finalized_checkpoint : Checkpoints,
   previous_target : SUBSET Validators,
   current_target : SUBSET Validators,
   slashed : SUBSET Validators]

Vote == [validator : Validators, source : Checkpoints, target : Checkpoints]

VARIABLES
  state,   \* state[b]: the BeaconState at the tip of branch b
  live,    \* the branches that exist
  votes    \* every vote included in some block: what slashers can see

vars == <<state, live, votes>>

-----------------------------------------------------------------------------

(* Mutant: double votes are not recognised. *)
is_slashable_attestation_data_no_double(data_1, data_2) ==
  /\ data_1.source.epoch < data_2.source.epoch
  /\ data_2.target.epoch < data_1.target.epoch

(* Mutant: surround votes are not recognised. *)
is_slashable_attestation_data_no_surround(data_1, data_2) ==
  /\ [source |-> data_1.source, target |-> data_1.target]
       # [source |-> data_2.source, target |-> data_2.target]
  /\ data_1.target.epoch = data_2.target.epoch

(* Double vote, or data_1 surrounds data_2. *)
is_slashable_attestation_data(data_1, data_2) ==
  \/ /\ [source |-> data_1.source, target |-> data_1.target]
          # [source |-> data_2.source, target |-> data_2.target]
     /\ data_1.target.epoch = data_2.target.epoch
  \/ /\ data_1.source.epoch < data_2.source.epoch
     /\ data_2.target.epoch < data_1.target.epoch

(* The genesis state, or any state with no attestation processed yet. *)
GenesisState(b) ==
  [epoch |-> GENESIS_EPOCH,
   block_roots |-> [e \in Epochs |-> <<b, GENESIS_EPOCH>>],
   justification_bits |-> NoBits,
   previous_justified_checkpoint |-> GenesisCheckpoint,
   current_justified_checkpoint |-> GenesisCheckpoint,
   finalized_checkpoint |-> GenesisCheckpoint,
   previous_target |-> {},
   current_target |-> {},
   slashed |-> {}]

Init ==
  \E b \in Branches :
    /\ live = {b}
    /\ state = [c \in Branches |-> GenesisState(b)]
    /\ votes = {}

-----------------------------------------------------------------------------

(* A second block is built on a block of b: from here c is a chain of its  *)
(* own with b's history.                                                   *)
Fork(b, c) ==
  /\ b \in live
  /\ c \notin live
  /\ live' = live \cup {c}
  /\ state' = [state EXCEPT ![c] = state[b]]
  /\ UNCHANGED votes

(* A block of branch b includes an attestation by `indices`.  Its target   *)
(* may be a block of another branch: it is then valid but not counted.     *)
process_attestation(b, indices, target) ==
  LET s == state[b]
  IN /\ b \in live
     /\ target.epoch \in {get_previous_epoch(s.epoch), s.epoch}
     /\ votes' = votes \cup
          [validator : indices,
           source : {ExpectedSource(s, target.epoch)},
           target : {target}]
     /\ state' = [state EXCEPT ![b] = RecordTarget(s, indices, target)]
     /\ UNCHANGED live

(* A block of branch b includes evidence against v. *)
process_attester_slashing(b, v) ==
  /\ b \in live
  /\ v \notin state[b].slashed
  /\ \E vote_1, vote_2 \in votes :
       /\ vote_1.validator = v
       /\ vote_2.validator = v
       /\ is_slashable_attestation_data(vote_1, vote_2)
  /\ state' = [state EXCEPT ![b].slashed = @ \cup {v}]
  /\ UNCHANGED <<live, votes>>

(* process_slots carries b into its next epoch.  `roots` is what the start *)
(* slot of the new epoch refers to: a block of b's own, or, when b had no  *)
(* block after the first of the epoch (then no attestation for the epoch   *)
(* was included either), still the same block.                             *)
process_epoch(b, root) ==
  LET s == state[b]
  IN /\ b \in live
     /\ s.epoch < MaxEpoch
     /\ \/ root = <<b, s.epoch + 1>>
        \/ root = get_block_root(s, s.epoch) /\ s.current_target = {}
     /\ state' = [state EXCEPT ![b] =
          [EpochProcessed(s) EXCEPT !.block_roots =
             [e \in Epochs |-> IF e > s.epoch THEN root ELSE @[e]]]]
     /\ UNCHANGED <<live, votes>>

-----------------------------------------------------------------------------
(***************************************************************************)
(* The next-state relation: the operations within the model's bounds.      *)
(***************************************************************************)

(* The targets that a block of b may carry a vote for. *)
Targets(b) ==
  {Checkpoint(e, get_block_root(state[c], e)) :
     c \in IF ForeignTargets THEN live ELSE {b},
     e \in {e \in Epochs : e >= FirstVotedEpoch}}

BoundedAttestation(b, indices, target) ==
  /\ process_attestation(b, indices, target)
  /\ Cardinality(votes') <= MaxVotes

BoundedSlashing(b, v) ==
  /\ process_attester_slashing(b, v)
  /\ Cardinality(state'[b].slashed) <= MaxSlashings

BoundedEpoch(b, root) ==
  /\ process_epoch(b, root)
  /\ root = get_block_root(state[b], state[b].epoch) => state[b].epoch \in EmptyEpochs
  /\ \A c \in live : state[b].epoch <= state[c].epoch + MaxSkew

Next ==
  \/ \E b, c \in Branches : Fork(b, c)
  \/ \E b \in Branches, indices \in Aggregates : \E target \in Targets(b) :
       BoundedAttestation(b, indices, target)
  \/ \E b \in Branches, v \in Validators : BoundedSlashing(b, v)
  \/ \E b \in Branches, root \in Root : BoundedEpoch(b, root)

Spec == Init /\ [][Next]_vars

-----------------------------------------------------------------------------
(***************************************************************************)
(* What a set of votes vs establishes.                                     *)
(***************************************************************************)

Voters(vs, source, target) ==
  {v \in Validators : [validator |-> v, source |-> source, target |-> target] \in vs}

(* Two thirds of the stake voted source -> target. *)
Link(vs, source, target) ==
  IsSupermajority(Balance[Voters(vs, source, target)], Balance[Validators])

Justified(vs, cp) ==
  \/ cp = GenesisCheckpoint
  \/ \E source \in Checkpoints : source.epoch < cp.epoch /\ Link(vs, source, cp)

OnChain(s, cp) ==
  \/ cp = GenesisCheckpoint
  \/ cp.root = get_block_root(s, cp.epoch)

CheckpointOf(s, epoch) == Checkpoint(epoch, get_block_root(s, epoch))

(* The validators whose own votes convict them. *)
Slashable(vs) ==
  {v \in Validators :
     \E vote_1, vote_2 \in vs :
       /\ vote_1.validator = v
       /\ vote_2.validator = v
       /\ is_slashable_attestation_data(vote_1, vote_2)}

-----------------------------------------------------------------------------
(***************************************************************************)
(* Properties.                                                             *)
(***************************************************************************)

(* Every variable has its type. *)
TypeOK ==
  /\ state \in [Branches -> BeaconState]
  /\ live \in SUBSET Branches
  /\ votes \in SUBSET Vote

(* weigh_justification_and_finalization keeps a state's checkpoints in     *)
(* order and behind its epoch.                                             *)
Ordered(s) ==
  /\ s.finalized_checkpoint.epoch <= s.previous_justified_checkpoint.epoch
  /\ s.previous_justified_checkpoint.epoch <= s.current_justified_checkpoint.epoch
  /\ \/ s.current_justified_checkpoint.epoch < s.epoch
     \/ s.current_justified_checkpoint = GenesisCheckpoint

CheckpointsOrdered == \A b \in live : Ordered(state[b])

(* The checkpoints of a state are blocks of its own chain, although        *)
(* attestations for other chains are included in it.                       *)
OwnCheckpoints(s) ==
  /\ OnChain(s, s.finalized_checkpoint)
  /\ OnChain(s, s.previous_justified_checkpoint)
  /\ OnChain(s, s.current_justified_checkpoint)

CheckpointsOnChain == \A b \in live : OwnCheckpoints(state[b])

(* A checkpoint the state calls justified has two thirds of the stake      *)
(* behind one link into it: slashed validators, the floor of               *)
(* get_total_balance and participation counted for the wrong epoch or      *)
(* source never make up for missing votes.                                 *)
BackedByVotes(vs, s) ==
  /\ Justified(vs, s.finalized_checkpoint)
  /\ Justified(vs, s.previous_justified_checkpoint)
  /\ Justified(vs, s.current_justified_checkpoint)

JustifiedByVotes == \A b \in live : BackedByVotes(votes, state[b])

(* Bit i of justification_bits is set only for an epoch of this chain that *)
(* was justified, and bit 0 only by a link from the checkpoint that the    *)
(* finality rules will pair it with.                                       *)
BitsBacked(vs, s) ==
  \A i \in BitIndex :
    s.justification_bits[i] =>
      /\ i < s.epoch
      /\ Justified(vs, CheckpointOf(s, s.epoch - 1 - i))
      /\ i = 0 => Link(vs, s.previous_justified_checkpoint, CheckpointOf(s, s.epoch - 1))

BitsTellJustified == \A b \in live : BitsBacked(votes, state[b])

(* Casper's accountable safety: two chains finalize conflicting            *)
(* checkpoints only if a third of the stake is slashable for it.           *)
Conflicting(s, t) ==
  /\ s.finalized_checkpoint.epoch <= t.finalized_checkpoint.epoch
  /\ ~ OnChain(t, s.finalized_checkpoint)

AccountableSafety ==
  \A b, c \in live :
    Conflicting(state[b], state[c]) =>
      Balance[Slashable(votes)] * 3 >= Balance[Validators]

(* A chain never takes back what it finalized: the finalized checkpoint    *)
(* moves only to a descendant of itself.                                   *)
FinalityKept ==
  \A b \in live :
    /\ state[b].finalized_checkpoint.epoch <= state'[b].finalized_checkpoint.epoch
    /\ OnChain(state'[b], state[b].finalized_checkpoint)

FinalityNeverReverted == [][FinalityKept]_vars

=============================================================================
