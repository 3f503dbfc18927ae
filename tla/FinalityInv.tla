---------------------------- MODULE FinalityInv ----------------------------
(***************************************************************************)
(* The inductive invariant of Finality, as state predicates that TLC       *)
(* evaluates on small instances and FinalityProofs proves in general.      *)
(***************************************************************************)
EXTENDS Finality

(* A branch that does not exist yet is at genesis. *)
UnbornAtGenesis ==
  \A b \in Branches \ live : state[b].epoch = GENESIS_EPOCH

(* A boundary block <<x, n>> started epoch n of branch x, not later than   *)
(* any epoch it stands for, and stands for every epoch from n on until it  *)
(* is replaced.                                                            *)
RootsInv ==
  \A b \in Branches : \A i \in Epochs :
    LET r == state[b].block_roots[i]
    IN /\ r[2] <= i
       /\ r[2] <= state[r[1]].epoch
       /\ r[2] <= state[b].epoch
       /\ \A j \in Epochs : r[2] <= j /\ j <= i => state[b].block_roots[j] = r

(* Two chains that agree at an epoch agree at every earlier one. *)
PrefixInv ==
  \A b, c \in Branches : \A i \in Epochs :
    state[b].block_roots[i] = state[c].block_roots[i] =>
      \A j \in Epochs : j <= i => state[b].block_roots[j] = state[c].block_roots[j]

(* Until the end of epoch 2 every checkpoint is the genesis stub. *)
GenesisInv(s) ==
  s.epoch <= 2 =>
    /\ s.previous_justified_checkpoint = GenesisCheckpoint
    /\ s.current_justified_checkpoint = GenesisCheckpoint
    /\ s.finalized_checkpoint = GenesisCheckpoint
    /\ \A i \in BitIndex : ~ s.justification_bits[i]

(* The previous justified checkpoint was justified before the previous     *)
(* epoch was processed.                                                    *)
PreviousInv(s) ==
  \/ s.previous_justified_checkpoint.epoch + 1 < s.epoch
  \/ s.previous_justified_checkpoint = GenesisCheckpoint

(* The participation flags stand for votes with the right source and       *)
(* target: current_target from the current justified checkpoint, and       *)
(* previous_target, one epoch later, from the previous one.                *)
ParticipationInv(vs, s) ==
  /\ s.current_target \subseteq
       Voters(vs, s.current_justified_checkpoint, CheckpointOf(s, s.epoch))
  /\ IF s.epoch = GENESIS_EPOCH
     THEN s.previous_target = {}
     ELSE s.previous_target \subseteq
            Voters(vs, s.previous_justified_checkpoint, CheckpointOf(s, s.epoch - 1))

(* Some two-thirds link on the chain of s jumps into or over epoch e,      *)
(* within the epochs up to cp's.                                           *)
Crossed(vs, s, cp, e) ==
  \E source \in Checkpoints, n \in Epochs :
    /\ Link(vs, source, CheckpointOf(s, n))
    /\ source.epoch < e
    /\ e <= n
    /\ n <= cp.epoch

CrossedInv(vs, s) ==
  \A e \in Epochs :
    /\ 1 <= e /\ e <= s.previous_justified_checkpoint.epoch =>
         Crossed(vs, s, s.previous_justified_checkpoint, e)
    /\ 1 <= e /\ e <= s.current_justified_checkpoint.epoch =>
         Crossed(vs, s, s.current_justified_checkpoint, e)

(* The finalized checkpoint f has a two-thirds link to a checkpoint one or *)
(* two epochs on, and in the latter case the one between is justified.     *)
WitnessInv(vs, s) ==
  LET f == s.finalized_checkpoint
  IN \/ f = GenesisCheckpoint
     \/ \E k \in 1..2 :
          /\ f.epoch + k < s.epoch
          /\ Link(vs, f, CheckpointOf(s, f.epoch + k))
          /\ k = 2 => Justified(vs, CheckpointOf(s, f.epoch + 1))

ChainInv(vs, s) ==
  /\ GenesisInv(s)
  /\ Ordered(s)
  /\ PreviousInv(s)
  /\ OwnCheckpoints(s)
  /\ ParticipationInv(vs, s)
  /\ BackedByVotes(vs, s)
  /\ BitsBacked(vs, s)
  /\ CrossedInv(vs, s)
  /\ WitnessInv(vs, s)

IInv ==
  /\ TypeOK
  /\ UnbornAtGenesis
  /\ RootsInv
  /\ PrefixInv
  /\ \A b \in live : ChainInv(votes, state[b])

=============================================================================
