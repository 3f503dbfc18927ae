--------------------------- MODULE FinalityProofs ---------------------------
(***************************************************************************)
(* Proofs about Finality, for any validators, balances, branches, epochs   *)
(* and bounds.                                                             *)
(***************************************************************************)
EXTENDS FinalityInv, TLAPS

-----------------------------------------------------------------------------
(* Types.                                                                  *)

(* The bits stay four booleans: nothing is shifted beyond the oldest one.  *)
LEMMA ShiftBitsType ==
  ASSUME NEW bits \in [BitIndex -> BOOLEAN],
         NEW justifies_previous \in BOOLEAN, NEW justifies_current \in BOOLEAN
  PROVE  ShiftBits(bits, justifies_previous, justifies_current) \in [BitIndex -> BOOLEAN]
BY DEF ShiftBits, BitIndex

(* The comparison of balances yields a truth value. *)
LEMMA JustifiesType ==
  ASSUME NEW s
  PROVE  JustifiesPrevious(s) \in BOOLEAN /\ JustifiesCurrent(s) \in BOOLEAN
BY DEF JustifiesPrevious, JustifiesCurrent, IsSupermajority

(* process_epoch's previous epoch is an epoch of the model. *)
LEMMA PreviousEpochType ==
  ASSUME NEW e \in Epochs
  PROVE  get_previous_epoch(e) \in Epochs /\ get_previous_epoch(e) <= e
BY BoundsAssumption DEF get_previous_epoch, Epochs, GENESIS_EPOCH

(* What process_epoch leaves alone and what it rotates. *)
LEMMA EpochProcessedRotation ==
  ASSUME NEW s \in BeaconState, s.epoch < MaxEpoch
  PROVE  LET p == EpochProcessed(s)
         IN /\ p.epoch = s.epoch + 1
            /\ p.block_roots = s.block_roots
            /\ p.slashed = s.slashed
            /\ p.previous_target = s.current_target
            /\ p.current_target = {}
BY DEF EpochProcessed, JustificationProcessed, BeaconState, process_justification_and_finalization,
       weigh_justification_and_finalization

(* In the first two epochs the FFG fields keep their values. *)
LEMMA EpochProcessedSkips ==
  ASSUME NEW s \in BeaconState, s.epoch < MaxEpoch, s.epoch <= 1
  PROVE  LET p == EpochProcessed(s)
         IN /\ p.justification_bits = s.justification_bits
            /\ p.previous_justified_checkpoint = s.previous_justified_checkpoint
            /\ p.current_justified_checkpoint = s.current_justified_checkpoint
            /\ p.finalized_checkpoint = s.finalized_checkpoint
BY DEF EpochProcessed, JustificationProcessed, BeaconState, process_justification_and_finalization, GENESIS_EPOCH

(* The checkpoint that epoch processing leaves justified. *)
JustifiedNext(s) ==
  NewlyJustified(s, s.epoch,
    get_block_root(s, get_previous_epoch(s.epoch)), get_block_root(s, s.epoch),
    JustifiesPrevious(s), JustifiesCurrent(s))

BitsNext(s) == ShiftBits(s.justification_bits, JustifiesPrevious(s), JustifiesCurrent(s))

(* After them the FFG fields are weighed. *)
LEMMA EpochProcessedWeighs ==
  ASSUME NEW s \in BeaconState, s.epoch < MaxEpoch, s.epoch > 1
  PROVE  LET p == EpochProcessed(s)
         IN /\ p.justification_bits = BitsNext(s)
            /\ p.previous_justified_checkpoint = s.current_justified_checkpoint
            /\ p.current_justified_checkpoint = JustifiedNext(s)
            /\ p.finalized_checkpoint = FinalizedAfter(s, BitsNext(s), s.epoch)
BY DEF EpochProcessed, JustificationProcessed, BeaconState, process_justification_and_finalization, GENESIS_EPOCH,
       weigh_justification_and_finalization, BitsNext, JustifiedNext, Epochs

(* The state after epoch processing is a beacon state. *)
LEMMA EpochProcessedType ==
  ASSUME NEW s \in BeaconState, s.epoch < MaxEpoch
  PROVE  EpochProcessed(s) \in BeaconState
<1> DEFINE p == EpochProcessed(s)
<1>1. BitsNext(s) \in [BitIndex -> BOOLEAN]
  BY ShiftBitsType, JustifiesType DEF BitsNext, BeaconState
<1>2. JustifiedNext(s) \in Checkpoints
  BY PreviousEpochType DEF JustifiedNext, NewlyJustified, BeaconState, Checkpoints, Checkpoint, get_block_root
<1>3. FinalizedAfter(s, BitsNext(s), s.epoch) \in Checkpoints
  BY DEF FinalizedAfter, BeaconState
<1>4. s.epoch + 1 \in Epochs
  BY BoundsAssumption DEF Epochs, BeaconState
<1>5. weigh_justification_and_finalization(
        s, s.epoch, get_block_root(s, get_previous_epoch(s.epoch)), get_block_root(s, s.epoch),
        JustifiesPrevious(s), JustifiesCurrent(s)) \in BeaconState
  BY <1>1, <1>2, <1>3 DEF BeaconState, weigh_justification_and_finalization, BitsNext, JustifiedNext
<1>6. process_justification_and_finalization(
        s, s.epoch, get_block_root(s, get_previous_epoch(s.epoch)), get_block_root(s, s.epoch),
        JustifiesPrevious(s), JustifiesCurrent(s)) \in BeaconState
  BY <1>5 DEF process_justification_and_finalization
<1> QED
  BY <1>4, <1>6 DEF EpochProcessed, JustificationProcessed, BeaconState

(* The source an attestation must carry is a checkpoint. *)
LEMMA ExpectedSourceType ==
  ASSUME NEW s \in BeaconState, NEW e
  PROVE  ExpectedSource(s, e) \in Checkpoints
BY DEF ExpectedSource, BeaconState

(* Recording a target changes only the participation. *)
LEMMA RecordTargetFacts ==
  ASSUME NEW s \in BeaconState, NEW indices \in SUBSET Validators, NEW target
  PROVE  LET t == RecordTarget(s, indices, target)
         IN /\ t \in BeaconState
            /\ t.epoch = s.epoch
            /\ t.block_roots = s.block_roots
            /\ t.justification_bits = s.justification_bits
            /\ t.previous_justified_checkpoint = s.previous_justified_checkpoint
            /\ t.current_justified_checkpoint = s.current_justified_checkpoint
            /\ t.finalized_checkpoint = s.finalized_checkpoint
            /\ t.slashed = s.slashed
BY DEF RecordTarget, BeaconState

(* The state of a branch after process_epoch. *)
EpochEntered(s, root) ==
  [EpochProcessed(s) EXCEPT !.block_roots =
     [e \in Epochs |-> IF e > s.epoch THEN root ELSE @[e]]]

LEMMA EpochEnteredFacts ==
  ASSUME NEW s \in BeaconState, s.epoch < MaxEpoch, NEW root \in Root
  PROVE  LET p == EpochProcessed(s)
             t == EpochEntered(s, root)
         IN /\ t \in BeaconState
            /\ t.epoch = s.epoch + 1
            /\ t.block_roots = [e \in Epochs |-> IF e > s.epoch THEN root ELSE s.block_roots[e]]
            /\ t.previous_target = s.current_target
            /\ t.current_target = {}
            /\ t.justification_bits = p.justification_bits
            /\ t.previous_justified_checkpoint = p.previous_justified_checkpoint
            /\ t.current_justified_checkpoint = p.current_justified_checkpoint
            /\ t.finalized_checkpoint = p.finalized_checkpoint
<1>1. EpochProcessed(s) \in BeaconState
  BY EpochProcessedType
<1>2. EpochProcessed(s).block_roots = s.block_roots
  BY EpochProcessedRotation
<1>3. s.block_roots \in [Epochs -> Root]
  BY DEF BeaconState
<1>4. [e \in Epochs |-> IF e > s.epoch THEN root ELSE s.block_roots[e]] \in [Epochs -> Root]
  BY <1>3
<1> QED
  BY <1>1, <1>2, <1>4, EpochProcessedRotation DEF EpochEntered, BeaconState

LEMMA GenesisStateType ==
  ASSUME NEW b \in Branches
  PROVE  GenesisState(b) \in BeaconState
BY BoundsAssumption DEF GenesisState, BeaconState, Root, Epochs, GENESIS_EPOCH, BitIndex, NoBits,
   GenesisCheckpoint, Checkpoint, Checkpoints

(* Every variable keeps its type. *)
LEMMA TypeInductive ==
  /\ Init => TypeOK
  /\ TypeOK /\ [Next]_vars => TypeOK'
<1>1. Init => TypeOK
  BY GenesisStateType DEF Init, TypeOK
<1>2. ASSUME TypeOK, [Next]_vars PROVE TypeOK'
  <2>1. ASSUME NEW b \in Branches, NEW c \in Branches, Fork(b, c) PROVE TypeOK'
    BY <1>2, <2>1 DEF Fork, TypeOK
  <2>2. ASSUME NEW b \in Branches, NEW indices \in Aggregates, NEW target \in Targets(b),
               process_attestation(b, indices, target)
        PROVE  TypeOK'
    <3>1. target \in Checkpoints
      BY <1>2 DEF Targets, TypeOK, BeaconState, Checkpoint, Checkpoints, get_block_root
    <3>2. indices \in SUBSET Validators
      BY BoundsAssumption
    <3>3. state[b] \in BeaconState
      BY <1>2 DEF TypeOK
    <3>4. RecordTarget(state[b], indices, target) \in BeaconState
      BY <3>2, <3>3, RecordTargetFacts
    <3>5. ExpectedSource(state[b], target.epoch) \in Checkpoints
      BY <3>3, ExpectedSourceType
    <3>6. votes' \in SUBSET Vote
      BY <1>2, <2>2, <3>1, <3>2, <3>5 DEF process_attestation, TypeOK, Vote
    <3> QED
      BY <1>2, <2>2, <3>4, <3>6 DEF process_attestation, TypeOK
  <2>3. ASSUME NEW b \in Branches, NEW v \in Validators, process_attester_slashing(b, v)
        PROVE  TypeOK'
    BY <1>2, <2>3 DEF process_attester_slashing, TypeOK, BeaconState
  <2>4. ASSUME NEW b \in Branches, NEW root \in Root, process_epoch(b, root)
        PROVE  TypeOK'
    <3>1. state[b] \in BeaconState /\ state[b].epoch < MaxEpoch
      BY <1>2, <2>4 DEF process_epoch, TypeOK
    <3>2. EpochEntered(state[b], root) \in BeaconState
      BY <3>1, EpochEnteredFacts
    <3>3. state' = [state EXCEPT ![b] = EpochEntered(state[b], root)]
      BY <2>4 DEF process_epoch, EpochEntered
    <3> QED
      BY <1>2, <2>4, <3>2, <3>3 DEF process_epoch, TypeOK
  <2>5. CASE UNCHANGED vars
    BY <1>2, <2>5 DEF vars, TypeOK
  <2> QED
    BY <1>2, <2>1, <2>2, <2>3, <2>4, <2>5
    DEF Next, BoundedAttestation, BoundedSlashing, BoundedEpoch
<1> QED
  BY <1>1, <1>2

(* Every reachable state has the types of TypeOK. *)
THEOREM TypeCorrect == Spec => []TypeOK
<1>1. Init => TypeOK
  BY TypeInductive
<1>2. TypeOK /\ [Next]_vars => TypeOK'
  BY TypeInductive
<1> QED
  BY <1>1, <1>2, PTL DEF Spec

-----------------------------------------------------------------------------
(* Balances and links.                                                     *)

(* A larger set of validators weighs at least as much. *)
LEMMA BalanceMonotone ==
  ASSUME NEW S \in SUBSET Validators, NEW T \in SUBSET Validators, S \subseteq T
  PROVE  Balance[S] \in Nat /\ Balance[T] \in Nat /\ Balance[S] <= Balance[T]
<1>1. S \cup (T \ S) = T /\ S \cap (T \ S) = {} /\ T \ S \in SUBSET Validators
  OBVIOUS
<1>2. Balance[T] = Balance[S] + Balance[T \ S]
  BY <1>1, BalanceAssumption
<1>3. Balance[S] \in Nat /\ Balance[T \ S] \in Nat
  BY <1>1, BalanceAssumption
<1> QED
  BY <1>2, <1>3

(* Two sets of two thirds of the stake share a third of it. *)
LEMMA QuorumsIntersect ==
  ASSUME NEW S \in SUBSET Validators, NEW T \in SUBSET Validators,
         IsSupermajority(Balance[S], Balance[Validators]),
         IsSupermajority(Balance[T], Balance[Validators])
  PROVE  Balance[S \cap T] * 3 >= Balance[Validators]
<1>1. Balance[S \cup T] = Balance[S] + Balance[T \ S]
  <2>1. S \cap (T \ S) = {} /\ S \cup (T \ S) = S \cup T /\ T \ S \in SUBSET Validators
    OBVIOUS
  <2> QED
    BY <2>1, BalanceAssumption
<1>2. Balance[T] = Balance[S \cap T] + Balance[T \ S]
  <2>1. /\ (S \cap T) \cap (T \ S) = {} /\ (S \cap T) \cup (T \ S) = T
        /\ T \ S \in SUBSET Validators /\ S \cap T \in SUBSET Validators
    OBVIOUS
  <2> QED
    BY <2>1, BalanceAssumption
<1>3. Balance[S \cup T] <= Balance[Validators]
  <2>1. S \cup T \in SUBSET Validators
    OBVIOUS
  <2> QED
    BY <2>1, BalanceMonotone
<1>4. /\ Balance[S] \in Nat /\ Balance[T] \in Nat /\ Balance[S \cap T] \in Nat
      /\ Balance[T \ S] \in Nat /\ Balance[Validators] \in Nat /\ Balance[S \cup T] \in Nat
  <2>1. /\ S \cap T \in SUBSET Validators /\ T \ S \in SUBSET Validators
        /\ Validators \in SUBSET Validators /\ S \cup T \in SUBSET Validators
    OBVIOUS
  <2> QED
    BY <2>1, BalanceAssumption
<1> QED
  BY <1>1, <1>2, <1>3, <1>4 DEF IsSupermajority

(* A link or a justified checkpoint stays one when votes are added. *)
LEMMA LinkMonotone ==
  ASSUME NEW V, NEW W, V \subseteq W
  PROVE  /\ \A source, target : Voters(V, source, target) \subseteq Voters(W, source, target)
         /\ \A source, target : Link(V, source, target) => Link(W, source, target)
         /\ \A cp : Justified(V, cp) => Justified(W, cp)
<1>1. ASSUME NEW source, NEW target
      PROVE  Voters(V, source, target) \subseteq Voters(W, source, target)
  BY DEF Voters
<1>2. ASSUME NEW source, NEW target, Link(V, source, target) PROVE Link(W, source, target)
  <2>1. /\ Voters(V, source, target) \in SUBSET Validators
        /\ Voters(W, source, target) \in SUBSET Validators
        /\ Validators \in SUBSET Validators
    BY DEF Voters
  <2>2. Balance[Voters(V, source, target)] <= Balance[Voters(W, source, target)]
    BY <1>1, <2>1, BalanceMonotone
  <2>3. /\ Balance[Voters(V, source, target)] \in Nat
        /\ Balance[Voters(W, source, target)] \in Nat /\ Balance[Validators] \in Nat
    BY <2>1, BalanceAssumption
  <2> QED
    BY <1>2, <2>2, <2>3 DEF Link, IsSupermajority
<1>3. ASSUME NEW cp, Justified(V, cp) PROVE Justified(W, cp)
  BY <1>2, <1>3 DEF Justified
<1> QED
  BY <1>1, <1>2, <1>3

(* What get_total_balance accepts as a supermajority is one: neither the   *)
(* increment floor nor the slashed validators make up for missing votes.   *)
LEMMA SupermajorityIsLink ==
  ASSUME NEW s \in BeaconState, NEW V, NEW source, NEW target,
         NEW indices \in SUBSET Validators,
         indices \subseteq Voters(V, source, target),
         IsSupermajority(get_unslashed_attesting_balance(s, indices), total_active_balance)
  PROVE  Link(V, source, target)
<1> DEFINE S == indices \ s.slashed
           T == Voters(V, source, target)
<1>1. /\ S \in SUBSET Validators /\ T \in SUBSET Validators /\ S \subseteq T
      /\ Validators \in SUBSET Validators
  BY DEF Voters
<1>2. Balance[S] \in Nat /\ Balance[T] \in Nat /\ Balance[S] <= Balance[T]
  BY <1>1, BalanceMonotone
<1>3. Balance[Validators] \in Nat
  BY <1>1, BalanceAssumption
<1>4. get_total_balance(S) * 3 >= total_active_balance * 2
  BY DEF get_unslashed_attesting_balance, IsSupermajority
<1>5. total_active_balance \in Nat /\ total_active_balance >= Balance[Validators]
  BY <1>3, IncrementAssumption DEF total_active_balance, get_total_balance
<1>6. CASE Balance[S] >= EFFECTIVE_BALANCE_INCREMENT
  <2>1. get_total_balance(S) = Balance[S]
    BY <1>6 DEF get_total_balance
  <2> QED
    BY <1>2, <1>3, <1>4, <1>5, <2>1 DEF Link, IsSupermajority
<1>7. CASE ~ (Balance[S] >= EFFECTIVE_BALANCE_INCREMENT)
  <2>1. get_total_balance(S) = EFFECTIVE_BALANCE_INCREMENT
    BY <1>7 DEF get_total_balance
  <2> QED
    BY <1>4, <1>5, <2>1, IncrementAssumption
<1> QED
  BY <1>6, <1>7

-----------------------------------------------------------------------------
(* What each operation does to the invariant of one chain.                 *)

LEMMA ChainInvMonotone ==
  ASSUME NEW V, NEW W, V \subseteq W, NEW s \in BeaconState, ChainInv(V, s)
  PROVE  ChainInv(W, s)
<1>1. /\ \A source, target : Voters(V, source, target) \subseteq Voters(W, source, target)
      /\ \A source, target : Link(V, source, target) => Link(W, source, target)
      /\ \A cp : Justified(V, cp) => Justified(W, cp)
  BY LinkMonotone
<1>2. ParticipationInv(W, s)
  BY <1>1 DEF ChainInv, ParticipationInv
<1>3. BackedByVotes(W, s)
  BY <1>1 DEF ChainInv, BackedByVotes
<1>4. BitsBacked(W, s)
  BY <1>1 DEF ChainInv, BitsBacked
<1>5. ASSUME NEW cp, NEW e, Crossed(V, s, cp, e) PROVE Crossed(W, s, cp, e)
  BY <1>1, <1>5 DEF Crossed
<1>6. CrossedInv(W, s)
  BY <1>5 DEF ChainInv, CrossedInv
<1>7. WitnessInv(W, s)
  BY <1>1 DEF ChainInv, WitnessInv
<1> QED
  BY <1>2, <1>3, <1>4, <1>6, <1>7 DEF ChainInv

(* The FFG part of the invariant reads neither participation nor slashed.  *)
FFGInv(vs, s) ==
  /\ GenesisInv(s)
  /\ Ordered(s)
  /\ PreviousInv(s)
  /\ OwnCheckpoints(s)
  /\ BackedByVotes(vs, s)
  /\ BitsBacked(vs, s)
  /\ CrossedInv(vs, s)
  /\ WitnessInv(vs, s)

LEMMA FFGInvSameFields ==
  ASSUME NEW V, NEW s, NEW t, FFGInv(V, s),
         t.epoch = s.epoch, t.block_roots = s.block_roots,
         t.justification_bits = s.justification_bits,
         t.previous_justified_checkpoint = s.previous_justified_checkpoint,
         t.current_justified_checkpoint = s.current_justified_checkpoint,
         t.finalized_checkpoint = s.finalized_checkpoint
  PROVE  FFGInv(V, t)
<1>1. \A n : CheckpointOf(t, n) = CheckpointOf(s, n)
  BY DEF CheckpointOf, get_block_root
<1>2. \A cp : OnChain(t, cp) = OnChain(s, cp)
  BY DEF OnChain, get_block_root
<1>3. GenesisInv(t) /\ Ordered(t) /\ PreviousInv(t) /\ OwnCheckpoints(t) /\ BackedByVotes(V, t)
  BY <1>2 DEF FFGInv, GenesisInv, Ordered, PreviousInv, OwnCheckpoints, BackedByVotes
<1>4. BitsBacked(V, t)
  BY <1>1 DEF FFGInv, BitsBacked
<1>5. CrossedInv(V, t)
  BY <1>1 DEF FFGInv, CrossedInv, Crossed
<1>6. WitnessInv(V, t)
  BY <1>1 DEF FFGInv, WitnessInv
<1> QED
  BY <1>3, <1>4, <1>5, <1>6 DEF FFGInv

(* Including an attestation: the flags it sets stand for its votes.        *)
LEMMA AttestationPreserves ==
  ASSUME NEW V, NEW s \in BeaconState, ChainInv(V, s),
         NEW indices \in SUBSET Validators, NEW target \in Checkpoints,
         target.epoch \in {get_previous_epoch(s.epoch), s.epoch},
         NEW W, W = V \cup [validator : indices,
                           source : {ExpectedSource(s, target.epoch)},
                           target : {target}]
  PROVE  ChainInv(W, RecordTarget(s, indices, target))
<1> DEFINE t == RecordTarget(s, indices, target)
           source == ExpectedSource(s, target.epoch)
<1>1. V \subseteq W
  OBVIOUS
<1>2. ChainInv(W, s)
  BY <1>1, ChainInvMonotone
<1>3. FFGInv(W, s) /\ ParticipationInv(W, s)
  BY <1>2 DEF ChainInv, FFGInv
<1>4. FFGInv(W, t)
  BY <1>3, FFGInvSameFields, RecordTargetFacts
<1>5. indices \subseteq Voters(W, source, target)
  BY DEF Voters
<1>6. ParticipationInv(W, t)
  <2>1. CASE target.root # get_block_root(s, target.epoch)
    BY <1>3, <2>1 DEF RecordTarget
  <2>2. CASE target.root = get_block_root(s, target.epoch) /\ target.epoch = s.epoch
    <3>1. target = CheckpointOf(s, s.epoch)
      BY <2>2 DEF Checkpoints, CheckpointOf, Checkpoint
    <3>2. source = s.current_justified_checkpoint
      BY <2>2 DEF ExpectedSource
    <3>3. t = [s EXCEPT !.current_target = @ \cup indices]
      BY <2>2 DEF RecordTarget
    <3>4. /\ t.current_target = s.current_target \cup indices
          /\ t.previous_target = s.previous_target
          /\ t.epoch = s.epoch
          /\ t.block_roots = s.block_roots
          /\ t.current_justified_checkpoint = s.current_justified_checkpoint
          /\ t.previous_justified_checkpoint = s.previous_justified_checkpoint
      BY <3>3 DEF BeaconState
    <3>5. \A n : CheckpointOf(t, n) = CheckpointOf(s, n)
      BY <3>4 DEF CheckpointOf, get_block_root
    <3> QED
      BY <1>3, <1>5, <3>1, <3>2, <3>4, <3>5 DEF ParticipationInv
  <2>3. CASE target.root = get_block_root(s, target.epoch) /\ target.epoch # s.epoch
    <3>0. s.epoch # GENESIS_EPOCH /\ target.epoch = s.epoch - 1
      BY <2>3 DEF get_previous_epoch
    <3>1. target = CheckpointOf(s, s.epoch - 1)
      BY <2>3, <3>0 DEF Checkpoints, CheckpointOf, Checkpoint
    <3>2. source = s.previous_justified_checkpoint
      BY <2>3 DEF ExpectedSource
    <3>3. t = [s EXCEPT !.previous_target = @ \cup indices]
      BY <2>3 DEF RecordTarget
    <3>4. /\ t.previous_target = s.previous_target \cup indices
          /\ t.current_target = s.current_target
          /\ t.epoch = s.epoch
          /\ t.block_roots = s.block_roots
          /\ t.current_justified_checkpoint = s.current_justified_checkpoint
          /\ t.previous_justified_checkpoint = s.previous_justified_checkpoint
      BY <3>3 DEF BeaconState
    <3>5. \A n : CheckpointOf(t, n) = CheckpointOf(s, n)
      BY <3>4 DEF CheckpointOf, get_block_root
    <3> QED
      BY <1>3, <1>5, <3>0, <3>1, <3>2, <3>4, <3>5 DEF ParticipationInv
  <2> QED
    BY <2>1, <2>2, <2>3
<1> QED
  BY <1>4, <1>6 DEF ChainInv, FFGInv

(* Slashing touches nothing the invariant reads. *)
LEMMA SlashingPreserves ==
  ASSUME NEW V, NEW s \in BeaconState, ChainInv(V, s), NEW v \in Validators
  PROVE  ChainInv(V, [s EXCEPT !.slashed = @ \cup {v}])
<1> DEFINE t == [s EXCEPT !.slashed = @ \cup {v}]
<1>1. /\ t.epoch = s.epoch /\ t.block_roots = s.block_roots
      /\ t.justification_bits = s.justification_bits
      /\ t.previous_justified_checkpoint = s.previous_justified_checkpoint
      /\ t.current_justified_checkpoint = s.current_justified_checkpoint
      /\ t.finalized_checkpoint = s.finalized_checkpoint
      /\ t.current_target = s.current_target
      /\ t.previous_target = s.previous_target
  BY DEF BeaconState
<1> HIDE DEF t
<1>2. FFGInv(V, s)
  BY DEF ChainInv, FFGInv
<1>3. FFGInv(V, t)
  BY <1>1, <1>2, FFGInvSameFields
<1>4. ParticipationInv(V, t)
  BY <1>1 DEF ChainInv, ParticipationInv, CheckpointOf, get_block_root
<1>5. ChainInv(V, t)
  BY <1>3, <1>4 DEF ChainInv, FFGInv
<1> QED
  BY <1>5 DEF t

(* The first two epochs only rotate the participation. *)
LEMMA EarlyEpochPreserves ==
  ASSUME NEW V, NEW s \in BeaconState, s.epoch < MaxEpoch, s.epoch <= 1,
         NEW root \in Root, ChainInv(V, s)
  PROVE  ChainInv(V, EpochEntered(s, root))
<1> DEFINE t == EpochEntered(s, root)
<1>1. /\ s.previous_justified_checkpoint = GenesisCheckpoint
      /\ s.current_justified_checkpoint = GenesisCheckpoint
      /\ s.finalized_checkpoint = GenesisCheckpoint
      /\ \A i \in BitIndex : ~ s.justification_bits[i]
  BY DEF ChainInv, GenesisInv, BeaconState, Epochs
<1>2. /\ t.epoch = s.epoch + 1
      /\ t.block_roots = [e \in Epochs |-> IF e > s.epoch THEN root ELSE s.block_roots[e]]
      /\ t.previous_target = s.current_target
      /\ t.current_target = {}
      /\ t.justification_bits = s.justification_bits
      /\ t.previous_justified_checkpoint = GenesisCheckpoint
      /\ t.current_justified_checkpoint = GenesisCheckpoint
      /\ t.finalized_checkpoint = GenesisCheckpoint
  BY <1>1, EpochEnteredFacts, EpochProcessedSkips
<1>3. s.epoch \in Nat /\ s.epoch \in Epochs
  BY BoundsAssumption DEF BeaconState, Epochs
<1> HIDE DEF t
<1>4. GenesisInv(t)
  BY <1>1, <1>2 DEF GenesisInv
<1>5. GenesisCheckpoint.epoch = 0
  BY DEF GenesisCheckpoint, Checkpoint, GENESIS_EPOCH
<1>6. Ordered(t) /\ PreviousInv(t) /\ OwnCheckpoints(t) /\ BackedByVotes(V, t)
  BY <1>2, <1>5 DEF Ordered, PreviousInv, OwnCheckpoints, BackedByVotes, OnChain, Justified
<1>7. BitsBacked(V, t)
  BY <1>1, <1>2 DEF BitsBacked
<1>8. CrossedInv(V, t)
  <2>1. ASSUME NEW e \in Epochs, 1 <= e, e <= 0 PROVE FALSE
    BY <2>1, BoundsAssumption DEF Epochs
  <2> QED
    BY <1>2, <1>5, <2>1 DEF CrossedInv
<1>9. WitnessInv(V, t)
  BY <1>2 DEF WitnessInv
<1>10. ParticipationInv(V, t)
  <2>1. CheckpointOf(t, t.epoch - 1) = CheckpointOf(s, s.epoch)
    BY <1>2, <1>3 DEF CheckpointOf, get_block_root
  <2>2. t.epoch # GENESIS_EPOCH
    BY <1>2, <1>3 DEF GENESIS_EPOCH
  <2>3. s.current_target \subseteq Voters(V, GenesisCheckpoint, CheckpointOf(s, s.epoch))
    BY <1>1 DEF ChainInv, ParticipationInv
  <2> QED
    BY <1>2, <2>1, <2>2, <2>3 DEF ParticipationInv
<1>11. ChainInv(V, t)
  BY <1>4, <1>6, <1>7, <1>8, <1>9, <1>10 DEF ChainInv
<1> QED
  BY <1>11 DEF t

(* Later epochs: what process_justification_and_finalization justifies and *)
(* finalizes is backed by links on this chain.                             *)
LEMMA LaterEpochPreserves ==
  ASSUME NEW V, NEW s \in BeaconState, s.epoch < MaxEpoch, s.epoch > 1,
         NEW root \in Root, ChainInv(V, s)
  PROVE  ChainInv(V, EpochEntered(s, root))
<1> DEFINE t == EpochEntered(s, root)
           e == s.epoch
           pj == s.previous_justified_checkpoint
           cj == s.current_justified_checkpoint
           fin == s.finalized_checkpoint
           JC == JustifiesCurrent(s)
           JP == JustifiesPrevious(s)
<1>t1. /\ t.epoch = e + 1
       /\ t.block_roots = [x \in Epochs |-> IF x > s.epoch THEN root ELSE s.block_roots[x]]
       /\ t.previous_target = s.current_target
       /\ t.current_target = {}
       /\ t.justification_bits = BitsNext(s)
       /\ t.previous_justified_checkpoint = cj
       /\ t.current_justified_checkpoint = JustifiedNext(s)
       /\ t.finalized_checkpoint = FinalizedAfter(s, BitsNext(s), s.epoch)
  BY EpochEnteredFacts, EpochProcessedWeighs
<1>t2. /\ e \in Nat /\ e \in Epochs /\ e - 1 \in Epochs /\ e >= 2 /\ e + 1 \in Epochs
       /\ get_previous_epoch(e) = e - 1
  BY BoundsAssumption DEF BeaconState, Epochs, get_previous_epoch, GENESIS_EPOCH
<1>t3. pj \in Checkpoints /\ cj \in Checkpoints /\ fin \in Checkpoints
  BY DEF BeaconState
<1>t4. pj.epoch \in Nat /\ cj.epoch \in Nat /\ fin.epoch \in Nat
  BY <1>t3, BoundsAssumption DEF Checkpoints, Epochs
<1>t5. JC \in BOOLEAN /\ JP \in BOOLEAN
  BY JustifiesType
<1>t6. /\ s.justification_bits \in [BitIndex -> BOOLEAN]
       /\ s.current_target \in SUBSET Validators /\ s.previous_target \in SUBSET Validators
  BY DEF BeaconState
<1> HIDE DEF t
<1>t7. \A x \in Epochs : x <= e => CheckpointOf(t, x) = CheckpointOf(s, x)
  BY <1>t1, <1>t2, BoundsAssumption DEF CheckpointOf, get_block_root, Epochs
<1>t8. \A x : CheckpointOf(s, x).epoch = x /\ CheckpointOf(t, x).epoch = x
  BY DEF CheckpointOf, Checkpoint
<1>t9. GenesisCheckpoint.epoch = 0
  BY DEF GenesisCheckpoint, Checkpoint, GENESIS_EPOCH
<1>i1. /\ fin.epoch <= pj.epoch /\ pj.epoch <= cj.epoch /\ cj.epoch < e /\ pj.epoch < e - 1
  BY <1>t2, <1>t4, <1>t9 DEF ChainInv, Ordered, PreviousInv
<1>l1. ASSUME JC PROVE Link(V, cj, CheckpointOf(s, e))
  <2>1. s.current_target \subseteq Voters(V, cj, CheckpointOf(s, e))
    BY DEF ChainInv, ParticipationInv
  <2> QED
    BY <1>l1, <1>t6, <2>1, SupermajorityIsLink DEF JustifiesCurrent
<1>l2. ASSUME JP PROVE Link(V, pj, CheckpointOf(s, e - 1))
  <2>1. s.previous_target \subseteq Voters(V, pj, CheckpointOf(s, e - 1))
    BY <1>t2 DEF ChainInv, ParticipationInv, GENESIS_EPOCH
  <2> QED
    BY <1>l2, <1>t6, <2>1, SupermajorityIsLink DEF JustifiesPrevious
<1>l3. JustifiedNext(s) = IF JC THEN CheckpointOf(s, e)
                          ELSE IF JP THEN CheckpointOf(s, e - 1) ELSE cj
  BY <1>t2 DEF JustifiedNext, NewlyJustified, CheckpointOf
<1>l4. /\ BitsNext(s)[0] = JC
       /\ BitsNext(s)[1] = (s.justification_bits[0] \/ JP)
       /\ BitsNext(s)[2] = s.justification_bits[1]
       /\ BitsNext(s)[3] = s.justification_bits[2]
  BY DEF BitsNext, ShiftBits, BitIndex
<1>l5. s.justification_bits[0] => Link(V, pj, CheckpointOf(s, e - 1))
  BY DEF ChainInv, BitsBacked, BitIndex
<1>g. GenesisInv(t)
  BY <1>t1, <1>t2 DEF GenesisInv
<1>b. BitsBacked(V, t)
  <2>1. ASSUME JC
        PROVE  Justified(V, CheckpointOf(t, e)) /\ Link(V, cj, CheckpointOf(t, e))
    BY <2>1, <1>l1, <1>i1, <1>t2, <1>t3, <1>t7, <1>t8 DEF Justified
  <2>2. ASSUME s.justification_bits[0] \/ JP
        PROVE  Justified(V, CheckpointOf(t, e - 1))
    BY <2>2, <1>l2, <1>l5, <1>i1, <1>t2, <1>t3, <1>t7, <1>t8 DEF Justified
  <2>3. ASSUME s.justification_bits[1]
        PROVE  2 < e + 1 /\ Justified(V, CheckpointOf(t, e - 2))
    <3>1. 1 < s.epoch /\ Justified(V, CheckpointOf(s, s.epoch - 1 - 1))
      BY <2>3 DEF ChainInv, BitsBacked, BitIndex
    <3>2. e - 2 \in Epochs /\ e - 2 <= e /\ s.epoch - 1 - 1 = e - 2
      BY <1>t2, BoundsAssumption DEF Epochs
    <3> QED
      BY <3>1, <3>2, <1>t2, <1>t7
  <2>4. ASSUME s.justification_bits[2]
        PROVE  3 < e + 1 /\ Justified(V, CheckpointOf(t, e - 3))
    <3>1. 2 < s.epoch /\ Justified(V, CheckpointOf(s, s.epoch - 1 - 2))
      BY <2>4 DEF ChainInv, BitsBacked, BitIndex
    <3>2. e - 3 \in Epochs /\ e - 3 <= e /\ s.epoch - 1 - 2 = e - 3
      BY <1>t2, <3>1, BoundsAssumption DEF Epochs
    <3> QED
      BY <3>1, <3>2, <1>t2, <1>t7
  <2>5. SUFFICES ASSUME NEW i \in BitIndex, t.justification_bits[i]
                 PROVE  /\ i < t.epoch
                        /\ Justified(V, CheckpointOf(t, t.epoch - 1 - i))
                        /\ i = 0 => Link(V, t.previous_justified_checkpoint,
                                         CheckpointOf(t, t.epoch - 1))
    BY DEF BitsBacked
  <2>6. i = 0 \/ i = 1 \/ i = 2 \/ i = 3
    BY DEF BitIndex
  <2>7. /\ e + 1 - 1 = e /\ e + 1 - 1 - 0 = e /\ e + 1 - 1 - 1 = e - 1
        /\ e + 1 - 1 - 2 = e - 2 /\ e + 1 - 1 - 3 = e - 3
    BY <1>t2
  <2>8. CASE i = 0
    BY <2>1, <2>5, <2>7, <2>8, <1>l4, <1>t1, <1>t2
  <2>9. CASE i = 1
    <3>1. BitsNext(s)[1]
      BY <2>5, <2>9, <1>t1
    <3>2. s.justification_bits[0] \/ JP
      BY <3>1, <1>l4, Zenon
    <3>3. Justified(V, CheckpointOf(t, e - 1))
      BY <2>2, <3>2
    <3> QED
      BY <2>7, <2>9, <3>3, <1>t1, <1>t2
  <2>10. CASE i = 2
    BY <2>3, <2>5, <2>7, <2>10, <1>l4, <1>t1, <1>t2
  <2>11. CASE i = 3
    BY <2>4, <2>5, <2>7, <2>11, <1>l4, <1>t1, <1>t2
  <2> QED
    BY <2>6, <2>8, <2>9, <2>10, <2>11
<1>f. \/ /\ t.finalized_checkpoint = cj
         /\ \E hi \in 1..2 : cj.epoch + hi = e /\ \A i \in 0..hi : BitsNext(s)[i]
      \/ /\ t.finalized_checkpoint = pj
         /\ \E hi \in 2..3 : pj.epoch + hi = e /\ \A i \in 1..hi : BitsNext(s)[i]
      \/ t.finalized_checkpoint = fin
  BY <1>t1 DEF FinalizedAfter, Finalizes
<1>o. Ordered(t) /\ PreviousInv(t)
  BY <1>f, <1>i1, <1>l3, <1>t1, <1>t2, <1>t4, <1>t8, <1>t9 DEF Ordered, PreviousInv
<1>c. OwnCheckpoints(t)
  <2>1. ASSUME NEW cp \in Checkpoints, cp.epoch <= e, OnChain(s, cp) PROVE OnChain(t, cp)
    <3>1. cp.epoch \in Epochs
      BY DEF Checkpoints
    <3>2. get_block_root(t, cp.epoch) = get_block_root(s, cp.epoch)
      BY <2>1, <3>1, <1>t1, <1>t2, BoundsAssumption DEF get_block_root, Epochs
    <3> QED
      BY <2>1, <3>2 DEF OnChain
  <2>2. OnChain(t, pj) /\ OnChain(t, cj) /\ OnChain(t, fin)
    BY <2>1, <1>i1, <1>t2, <1>t3, <1>t4 DEF ChainInv, OwnCheckpoints
  <2>3. OnChain(t, CheckpointOf(s, e)) /\ OnChain(t, CheckpointOf(s, e - 1))
    BY <1>t1, <1>t2 DEF OnChain, CheckpointOf, Checkpoint, get_block_root
  <2> QED
    BY <2>2, <2>3, <1>f, <1>l3, <1>t1 DEF OwnCheckpoints
<1>j. BackedByVotes(V, t)
  <2>1. Justified(V, pj) /\ Justified(V, cj) /\ Justified(V, fin)
    BY DEF ChainInv, BackedByVotes
  <2>2. JC => Justified(V, CheckpointOf(s, e))
    BY <1>l1, <1>i1, <1>t3, <1>t8 DEF Justified
  <2>3. JP => Justified(V, CheckpointOf(s, e - 1))
    BY <1>l2, <1>i1, <1>t3, <1>t8 DEF Justified
  <2> QED
    BY <2>1, <2>2, <2>3, <1>f, <1>l3, <1>t1 DEF BackedByVotes
<1>p. ParticipationInv(V, t)
  <2>1. CheckpointOf(t, t.epoch - 1) = CheckpointOf(s, e)
    BY <1>t1, <1>t2, <1>t7
  <2>2. t.epoch # GENESIS_EPOCH
    BY <1>t1, <1>t2 DEF GENESIS_EPOCH
  <2>3. s.current_target \subseteq Voters(V, cj, CheckpointOf(s, e))
    BY DEF ChainInv, ParticipationInv
  <2> QED
    BY <1>t1, <2>1, <2>2, <2>3 DEF ParticipationInv
<1>x. CrossedInv(V, t)
  <2>1. ASSUME NEW cp, NEW dp, NEW x \in Epochs, Crossed(V, s, cp, x),
               cp.epoch \in Nat, dp.epoch \in Nat, cp.epoch <= dp.epoch, cp.epoch <= e
        PROVE  Crossed(V, t, dp, x)
    <3>1. PICK source \in Checkpoints, n \in Epochs :
            /\ Link(V, source, CheckpointOf(s, n))
            /\ source.epoch < x /\ x <= n /\ n <= cp.epoch
      BY <2>1 DEF Crossed
    <3>2. n <= e /\ n <= dp.epoch
      BY <3>1, <2>1, <1>t2, BoundsAssumption DEF Epochs
    <3>3. CheckpointOf(t, n) = CheckpointOf(s, n)
      BY <3>2, <1>t7
    <3> QED
      BY <3>1, <3>2, <3>3 DEF Crossed
  <2>2. ASSUME NEW x \in Epochs, 1 <= x, x <= cj.epoch PROVE Crossed(V, s, cj, x)
    BY <2>2 DEF ChainInv, CrossedInv
  <2>3. ASSUME NEW x \in Epochs, 1 <= x, x <= pj.epoch PROVE Crossed(V, s, pj, x)
    BY <2>3 DEF ChainInv, CrossedInv
  <2>4. ASSUME NEW x \in Epochs, NEW dp, NEW source \in Checkpoints, NEW n \in Epochs,
               Link(V, source, CheckpointOf(s, n)), source.epoch < x, x <= n, n <= e,
               dp.epoch = n
        PROVE  Crossed(V, t, dp, x)
    <3>1. CheckpointOf(t, n) = CheckpointOf(s, n)
      BY <2>4, <1>t7
    <3>2. n <= dp.epoch
      BY <2>4, BoundsAssumption DEF Epochs
    <3> QED
      BY <2>4, <3>1, <3>2 DEF Crossed
  <2>5. ASSUME NEW x \in Epochs, 1 <= x, x <= cj.epoch PROVE Crossed(V, t, cj, x)
    BY <2>1, <2>2, <2>5, <1>t2, <1>t4, <1>i1
  <2>6. ASSUME NEW x \in Epochs, 1 <= x, x <= JustifiedNext(s).epoch
        PROVE  Crossed(V, t, JustifiedNext(s), x)
    <3>0. x \in Nat
      BY BoundsAssumption DEF Epochs
    <3>1. CASE JC
      <4>1. JustifiedNext(s).epoch = e
        BY <3>1, <1>l3, <1>t8
      <4>2. CASE x <= cj.epoch
        BY <4>1, <4>2, <2>1, <2>2, <2>6, <1>t2, <1>t4, <1>i1
      <4>3. CASE ~ (x <= cj.epoch)
        <5>1. cj.epoch < x /\ x <= e
          BY <4>1, <4>3, <2>6, <3>0, <1>t4
        <5> QED
          BY <5>1, <4>1, <3>1, <2>4, <1>l1, <1>t2, <1>t3
      <4> QED
        BY <4>2, <4>3
    <3>2. CASE ~ JC /\ JP
      <4>1. JustifiedNext(s).epoch = e - 1
        BY <3>2, <1>l3, <1>t8
      <4>2. CASE x <= pj.epoch
        BY <4>1, <4>2, <2>1, <2>3, <2>6, <1>t2, <1>t4, <1>i1
      <4>3. CASE ~ (x <= pj.epoch)
        <5>1. pj.epoch < x /\ x <= e - 1 /\ e - 1 <= e
          BY <4>1, <4>3, <2>6, <3>0, <1>t4, <1>t2
        <5> QED
          BY <5>1, <4>1, <3>2, <2>4, <1>l2, <1>t2, <1>t3
      <4> QED
        BY <4>2, <4>3
    <3>3. CASE ~ JC /\ ~ JP
      BY <3>3, <2>5, <2>6, <1>l3
    <3> QED
      BY <3>1, <3>2, <3>3
  <2> QED
    BY <2>5, <2>6, <1>t1 DEF CrossedInv
<1>w. WitnessInv(V, t)
  <2>1. CASE t.finalized_checkpoint = cj /\
             \E hi \in 1..2 : cj.epoch + hi = e /\ \A i \in 0..hi : BitsNext(s)[i]
    <3>1. PICK hi \in 1..2 : cj.epoch + hi = e /\ \A i \in 0..hi : BitsNext(s)[i]
      BY <2>1
    <3>2. JC
      BY <3>1, <1>l4
    <3>3. Link(V, cj, CheckpointOf(t, cj.epoch + hi))
      BY <3>1, <3>2, <1>l1, <1>t2, <1>t7
    <3>4. ASSUME hi = 2 PROVE Justified(V, CheckpointOf(t, cj.epoch + 1))
      <4>1. t.justification_bits[1]
        BY <3>1, <3>4, <1>t1
      <4>2. t.epoch - 1 - 1 = cj.epoch + 1
        BY <3>1, <3>4, <1>t1, <1>t2, <1>t4
      <4>3. Justified(V, CheckpointOf(t, t.epoch - 1 - 1))
        BY <4>1, <1>b DEF BitsBacked, BitIndex
      <4> QED
        BY <4>2, <4>3
    <3>5. cj.epoch + hi < t.epoch
      BY <3>1, <1>t1, <1>t2
    <3> QED
      BY <2>1, <3>3, <3>4, <3>5 DEF WitnessInv
  <2>2. CASE t.finalized_checkpoint = pj /\
             \E hi \in 2..3 : pj.epoch + hi = e /\ \A i \in 1..hi : BitsNext(s)[i]
    <3>1. PICK hi \in 2..3 : pj.epoch + hi = e /\ \A i \in 1..hi : BitsNext(s)[i]
      BY <2>2
    <3>2. Link(V, pj, CheckpointOf(s, e - 1))
      <4>1. 1 \in 1..hi
        OBVIOUS
      <4>2. BitsNext(s)[1]
        BY <3>1, <4>1
      <4>3. s.justification_bits[0] \/ JP
        BY <4>2, <1>l4, Zenon
      <4> QED
        BY <4>3, <1>l2, <1>l5
    <3>3. CheckpointOf(t, e - 1) = CheckpointOf(s, e - 1)
      BY <1>t2, <1>t7
    <3>4. CASE hi = 2
      <4>1. pj.epoch + 1 = e - 1 /\ pj.epoch + 1 < t.epoch
        BY <3>1, <3>4, <1>t1, <1>t2, <1>t4
      <4> QED
        BY <2>2, <3>2, <3>3, <4>1 DEF WitnessInv
    <3>5. CASE hi = 3
      <4>1. pj.epoch + 2 = e - 1 /\ pj.epoch + 2 < t.epoch /\ t.epoch - 1 - 2 = pj.epoch + 1
        BY <3>1, <3>5, <1>t1, <1>t2, <1>t4
      <4>2. t.justification_bits[2]
        BY <3>1, <3>5, <1>t1
      <4>3. Justified(V, CheckpointOf(t, t.epoch - 1 - 2))
        BY <4>2, <1>b DEF BitsBacked, BitIndex
      <4> QED
        BY <2>2, <3>2, <3>3, <4>1, <4>3 DEF WitnessInv
    <3> QED
      BY <3>4, <3>5
  <2>3. CASE t.finalized_checkpoint = fin
    <3>1. CASE fin = GenesisCheckpoint
      BY <2>3, <3>1 DEF WitnessInv
    <3>2. CASE fin # GenesisCheckpoint
      <4>1. PICK k \in 1..2 :
              /\ fin.epoch + k < s.epoch
              /\ Link(V, fin, CheckpointOf(s, fin.epoch + k))
              /\ k = 2 => Justified(V, CheckpointOf(s, fin.epoch + 1))
        BY <3>2 DEF ChainInv, WitnessInv
      <4>2. /\ fin.epoch + k \in Epochs /\ fin.epoch + k <= e /\ fin.epoch + k < t.epoch
            /\ fin.epoch + 1 \in Epochs /\ fin.epoch + 1 <= e
        <5>1. fin.epoch + k < e /\ k \in Nat /\ k >= 1
          BY <4>1
        <5>2. e <= MaxEpoch
          BY <1>t2, BoundsAssumption DEF Epochs
        <5>3. t.epoch = e + 1 /\ e \in Nat /\ fin.epoch \in Nat /\ MaxEpoch \in Nat
          BY <1>t1, <1>t2, <1>t4, BoundsAssumption
        <5> HIDE DEF e, fin
        <5>4. /\ fin.epoch + k \in 0..MaxEpoch /\ fin.epoch + k <= e /\ fin.epoch + k < t.epoch
              /\ fin.epoch + 1 \in 0..MaxEpoch /\ fin.epoch + 1 <= e
          BY <5>1, <5>2, <5>3
        <5> QED
          BY <5>4 DEF Epochs
      <4>3. /\ CheckpointOf(t, fin.epoch + k) = CheckpointOf(s, fin.epoch + k)
            /\ CheckpointOf(t, fin.epoch + 1) = CheckpointOf(s, fin.epoch + 1)
        BY <4>2, <1>t7
      <4> QED
        BY <2>3, <4>1, <4>2, <4>3 DEF WitnessInv
    <3> QED
      BY <3>1, <3>2
  <2> QED
    BY <1>f, <2>1, <2>2, <2>3
<1>q. ChainInv(V, t)
  BY <1>g, <1>b, <1>o, <1>c, <1>j, <1>p, <1>x, <1>w DEF ChainInv
<1> QED
  BY <1>q DEF t

(* process_epoch keeps the invariant of the chain it extends. *)
LEMMA EpochPreserves ==
  ASSUME NEW V, NEW s \in BeaconState, s.epoch < MaxEpoch, NEW root \in Root, ChainInv(V, s)
  PROVE  ChainInv(V, EpochEntered(s, root))
<1>1. s.epoch <= 1 \/ s.epoch > 1
  BY BoundsAssumption DEF BeaconState, Epochs
<1> QED
  BY <1>1, EarlyEpochPreserves, LaterEpochPreserves

-----------------------------------------------------------------------------
(* The boundary roots of all branches.                                     *)

RootsOK == TypeOK /\ UnbornAtGenesis /\ RootsInv /\ PrefixInv

LEMMA RootType ==
  ASSUME NEW r \in Root
  PROVE  r[1] \in Branches /\ r[2] \in Nat /\ r[2] \in Epochs /\ r = <<r[1], r[2]>>
BY BoundsAssumption DEF Root, Epochs

LEMMA RootsInit == Init => RootsOK
<1> SUFFICES ASSUME Init PROVE RootsOK
  OBVIOUS
<1>1. TypeOK
  BY TypeInductive
<1>2. PICK b \in Branches : state = [c \in Branches |-> GenesisState(b)]
  BY DEF Init
<1>3. \A c \in Branches : /\ state[c].epoch = 0
                           /\ \A i \in Epochs : state[c].block_roots[i] = <<b, 0>>
  BY <1>2 DEF GenesisState, GENESIS_EPOCH
<1>4. UnbornAtGenesis
  BY <1>3 DEF UnbornAtGenesis, GENESIS_EPOCH
<1>5. RootsInv
  BY <1>3, BoundsAssumption DEF RootsInv, Epochs
<1>6. PrefixInv
  BY <1>3 DEF PrefixInv
<1> QED
  BY <1>1, <1>4, <1>5, <1>6 DEF RootsOK

(* A step that changes neither epochs nor boundary roots. *)
LEMMA RootsUnchanged ==
  ASSUME RootsOK, TypeOK', live' = live,
         \A b \in Branches : /\ state'[b].epoch = state[b].epoch
                             /\ state'[b].block_roots = state[b].block_roots
  PROVE  RootsOK'
<1>1. \A b \in Branches : \A i \in Epochs :
         state[b].block_roots[i] \in Root /\ state[b].block_roots[i][1] \in Branches
  BY RootType DEF RootsOK, TypeOK, BeaconState
<1>2. UnbornAtGenesis'
  BY DEF RootsOK, UnbornAtGenesis
<1>3. RootsInv'
  BY <1>1 DEF RootsOK, RootsInv
<1>4. PrefixInv'
  BY DEF RootsOK, PrefixInv
<1> QED
  BY <1>2, <1>3, <1>4 DEF RootsOK

(* A new branch starts as a copy of another. *)
LEMMA RootsForked ==
  ASSUME RootsOK, TypeOK', NEW b \in Branches, NEW c \in Branches, Fork(b, c)
  PROVE  RootsOK'
<1> DEFINE of(x) == IF x = c THEN b ELSE x
<1>1. \A x \in Branches : of(x) \in Branches /\ state'[x] = state[of(x)]
  BY DEF Fork, RootsOK, TypeOK
<1>2. \A x \in Branches : state[x].epoch \in Nat
  BY BoundsAssumption DEF RootsOK, TypeOK, BeaconState, Epochs
<1>3. state[c].epoch = 0
  BY DEF Fork, RootsOK, UnbornAtGenesis, GENESIS_EPOCH
<1>4. \A x \in Branches : state[x].epoch <= state'[x].epoch
  <2>1. ASSUME NEW x \in Branches, x = c PROVE state[x].epoch <= state'[x].epoch
    BY <2>1, <1>1, <1>2, <1>3
  <2>2. ASSUME NEW x \in Branches, x # c PROVE state[x].epoch <= state'[x].epoch
    BY <2>2, <1>1, <1>2
  <2> QED
    BY <2>1, <2>2
<1> HIDE DEF of
<1>5. UnbornAtGenesis'
  <2> SUFFICES ASSUME NEW x \in Branches \ live' PROVE state'[x].epoch = GENESIS_EPOCH
    BY DEF UnbornAtGenesis
  <2>1. x \notin live /\ x # c
    BY DEF Fork
  <2>2. state'[x] = state[x]
    BY <2>1, <1>1 DEF of
  <2> QED
    BY <2>1, <2>2 DEF RootsOK, UnbornAtGenesis
<1>6. RootsInv'
  <2> SUFFICES ASSUME NEW x \in Branches, NEW i \in Epochs, NEW r, r = state'[x].block_roots[i]
               PROVE  /\ r[2] <= i
                      /\ r[2] <= state'[r[1]].epoch
                      /\ r[2] <= state'[x].epoch
                      /\ \A j \in Epochs : r[2] <= j /\ j <= i => state'[x].block_roots[j] = r
    BY DEF RootsInv
  <2>1. r = state[of(x)].block_roots[i] /\ of(x) \in Branches
    BY <1>1
  <2>2. r \in Root
    BY <2>1 DEF RootsOK, TypeOK, BeaconState
  <2>3. r[1] \in Branches /\ r[2] \in Nat
    BY <2>2, RootType
  <2>4. /\ r[2] <= i
        /\ r[2] <= state[r[1]].epoch
        /\ r[2] <= state[of(x)].epoch
        /\ \A j \in Epochs : r[2] <= j /\ j <= i => state[of(x)].block_roots[j] = r
    BY <2>1 DEF RootsOK, RootsInv
  <2>5. /\ state[r[1]].epoch \in Nat /\ state'[r[1]].epoch \in Nat
        /\ state[r[1]].epoch <= state'[r[1]].epoch
    <3>1. state'[r[1]].epoch = state[of(r[1])].epoch
      BY <2>3, <1>1
    <3> QED
      BY <2>3, <3>1, <1>1, <1>2, <1>4
  <2>6. r[2] <= state'[r[1]].epoch
    BY <2>3, <2>4, <2>5
  <2> QED
    BY <2>4, <2>6, <1>1
<1>7. PrefixInv'
  <2> SUFFICES ASSUME NEW x \in Branches, NEW y \in Branches, NEW i \in Epochs,
                      state'[x].block_roots[i] = state'[y].block_roots[i],
                      NEW j \in Epochs, j <= i
               PROVE  state'[x].block_roots[j] = state'[y].block_roots[j]
    BY DEF PrefixInv
  <2> QED
    BY <1>1 DEF RootsOK, PrefixInv
<1> QED
  BY <1>5, <1>6, <1>7 DEF RootsOK

(* A branch enters an epoch with a block of its own, or with none. *)
LEMMA RootsExtended ==
  ASSUME RootsOK, TypeOK', NEW b \in Branches, NEW root \in Root, process_epoch(b, root)
  PROVE  RootsOK'
<1> DEFINE s == state[b]
           e == state[b].epoch
           R(x, i) == state[x].block_roots[i]
<1>1. /\ state' = [state EXCEPT ![b] = EpochEntered(state[b], root)]
      /\ live' = live /\ b \in live /\ e < MaxEpoch
      /\ root = <<b, e + 1>> \/ root = R(b, e)
  BY DEF process_epoch, EpochEntered, get_block_root
<1>2. s \in BeaconState /\ state \in [Branches -> BeaconState]
  BY DEF RootsOK, TypeOK
<1>3. /\ state'[b].epoch = e + 1
      /\ state'[b].block_roots = [i \in Epochs |-> IF i > e THEN root ELSE R(b, i)]
      /\ \A x \in Branches : x # b => state'[x] = state[x]
  BY <1>1, <1>2, EpochEnteredFacts
<1>4. /\ \A x \in Branches : state[x].epoch \in Nat /\ state[x].epoch \in Epochs
      /\ \A x \in Branches : \A i \in Epochs :
           R(x, i) \in Root /\ R(x, i)[1] \in Branches /\ R(x, i)[2] \in Nat
      /\ \A i \in Epochs : i \in Nat
  <2>1. \A x \in Branches : \A i \in Epochs : R(x, i) \in Root
    BY <1>2 DEF BeaconState
  <2>2. \A x \in Branches : \A i \in Epochs : R(x, i)[1] \in Branches /\ R(x, i)[2] \in Nat
    BY <2>1, RootType
  <2>3. \A x \in Branches : state[x].epoch \in Epochs
    BY <1>2 DEF BeaconState
  <2>4. \A i \in Epochs : i \in Nat
    BY BoundsAssumption DEF Epochs
  <2> QED
    BY <2>1, <2>2, <2>3, <2>4
<1>5. \A x \in Branches : \A i \in Epochs :
         /\ R(x, i)[2] <= i
         /\ R(x, i)[2] <= state[R(x, i)[1]].epoch
         /\ R(x, i)[2] <= state[x].epoch
         /\ \A j \in Epochs : R(x, i)[2] <= j /\ j <= i => R(x, j) = R(x, i)
  BY DEF RootsOK, RootsInv
<1>6. \A x, y \in Branches : \A i \in Epochs :
         R(x, i) = R(y, i) => \A j \in Epochs : j <= i => R(x, j) = R(y, j)
  BY DEF RootsOK, PrefixInv
<1>7. e \in Nat /\ e \in Epochs
  BY <1>4
<1>8. \A x \in Branches : state'[x].epoch \in Nat /\ state[x].epoch <= state'[x].epoch
  BY <1>3, <1>4
<1>9. \A i \in Epochs : state'[b].block_roots[i] = IF i > e THEN root ELSE R(b, i)
  BY <1>3
<1>10. root[1] \in Branches /\ root[2] \in Nat
  BY RootType
<1>11. root = <<b, e + 1>> => root[1] = b /\ root[2] = e + 1
  OBVIOUS
<1>12. UnbornAtGenesis'
  BY <1>1, <1>3 DEF RootsOK, UnbornAtGenesis
<1> HIDE DEF s, e, R
<1>13. RootsInv'
  <2> SUFFICES ASSUME NEW x \in Branches, NEW i \in Epochs, NEW r, r = state'[x].block_roots[i]
               PROVE  /\ r[2] <= i
                      /\ r[2] <= state'[r[1]].epoch
                      /\ r[2] <= state'[x].epoch
                      /\ \A j \in Epochs : r[2] <= j /\ j <= i => state'[x].block_roots[j] = r
    BY DEF RootsInv
  <2>0. i \in Nat /\ \A j \in Epochs : j \in Nat
    BY <1>4
  <2>1. CASE x # b
    <3>1. r = R(x, i) /\ state'[x] = state[x]
      BY <2>1, <1>3 DEF R
    <3>2. /\ r[1] \in Branches /\ r[2] \in Nat /\ r[2] <= i
          /\ r[2] <= state[r[1]].epoch /\ r[2] <= state[x].epoch
          /\ \A j \in Epochs : r[2] <= j /\ j <= i => R(x, j) = r
      BY <3>1, <1>4, <1>5
    <3>3. /\ state[r[1]].epoch \in Nat /\ state'[r[1]].epoch \in Nat
          /\ state[r[1]].epoch <= state'[r[1]].epoch
      BY <3>2, <1>4, <1>8
    <3>4. r[2] <= state'[r[1]].epoch
      BY <3>2, <3>3
    <3> QED
      BY <3>1, <3>2, <3>4 DEF R
  <2>2. CASE x = b /\ i <= e
    <3>1. r = R(b, i)
      BY <2>2, <2>0, <1>7, <1>9
    <3>2. /\ r[1] \in Branches /\ r[2] \in Nat /\ r[2] <= i
          /\ r[2] <= state[r[1]].epoch /\ r[2] <= state[b].epoch
          /\ \A j \in Epochs : r[2] <= j /\ j <= i => R(b, j) = r
      BY <3>1, <1>4, <1>5
    <3>3. /\ state[r[1]].epoch \in Nat /\ state'[r[1]].epoch \in Nat
          /\ state[r[1]].epoch <= state'[r[1]].epoch
          /\ state[b].epoch \in Nat /\ state'[b].epoch \in Nat
          /\ state[b].epoch <= state'[b].epoch
      BY <3>2, <1>4, <1>8
    <3>4. r[2] <= state'[r[1]].epoch /\ r[2] <= state'[b].epoch
      BY <3>2, <3>3
    <3>5. ASSUME NEW j \in Epochs, r[2] <= j, j <= i PROVE state'[b].block_roots[j] = r
      <4>1. ~ (j > e)
        BY <2>2, <2>0, <3>5, <1>7
      <4> QED
        BY <3>2, <3>5, <4>1, <1>9
    <3> QED
      BY <2>2, <3>2, <3>4, <3>5
  <2>3. CASE x = b /\ ~ (i <= e) /\ root = <<b, e + 1>>
    <3>1. i > e /\ r = root /\ r[1] = b /\ r[2] = e + 1
      BY <2>3, <2>0, <1>7, <1>9, <1>11
    <3>2. state'[b].epoch = e + 1
      BY <1>3
    <3>3. ASSUME NEW j \in Epochs, r[2] <= j, j <= i PROVE state'[b].block_roots[j] = r
      <4>1. j > e
        <5>1. j \in Nat /\ e + 1 <= j
          BY <2>0, <3>1, <3>3
        <5> QED
          BY <5>1, <1>7
      <4> QED
        BY <3>1, <4>1, <1>9
    <3>4. r[2] <= i /\ r[2] <= state'[r[1]].epoch /\ r[2] <= state'[x].epoch
      BY <2>0, <2>3, <3>1, <3>2, <1>7
    <3> QED
      BY <2>3, <3>3, <3>4
  <2>4. CASE x = b /\ ~ (i <= e) /\ root = R(b, e)
    <3>1. i > e /\ r = root
      BY <2>4, <2>0, <1>7, <1>9
    <3>2. /\ r[1] \in Branches /\ r[2] \in Nat /\ r[2] <= e
          /\ r[2] <= state[r[1]].epoch /\ r[2] <= state[b].epoch
          /\ \A j \in Epochs : r[2] <= j /\ j <= e => R(b, j) = r
      BY <2>4, <3>1, <1>4, <1>5, <1>7
    <3>3. /\ state[r[1]].epoch \in Nat /\ state'[r[1]].epoch \in Nat
          /\ state[r[1]].epoch <= state'[r[1]].epoch
          /\ state[b].epoch \in Nat /\ state'[b].epoch \in Nat
          /\ state[b].epoch <= state'[b].epoch
      BY <3>2, <1>4, <1>8
    <3>4. r[2] <= i /\ r[2] <= state'[r[1]].epoch /\ r[2] <= state'[b].epoch
      BY <2>0, <3>1, <3>2, <3>3, <1>7
    <3>5. ASSUME NEW j \in Epochs, r[2] <= j, j <= i PROVE state'[b].block_roots[j] = r
      <4>1. CASE j > e
        BY <3>1, <4>1, <1>9
      <4>2. CASE ~ (j > e)
        <5>1. j <= e
          BY <4>2, <2>0, <1>7
        <5> QED
          BY <3>2, <3>5, <4>2, <5>1, <1>9
      <4> QED
        BY <4>1, <4>2
    <3> QED
      BY <2>4, <3>4, <3>5
  <2> QED
    BY <2>1, <2>2, <2>3, <2>4, <1>1
<1>14. ASSUME NEW x \in Branches, x # b, NEW i \in Epochs,
              state'[b].block_roots[i] = R(x, i), NEW j \in Epochs, j <= i
       PROVE  state'[b].block_roots[j] = R(x, j)
  <2>0. i \in Nat /\ j \in Nat
    BY <1>4
  <2>1. CASE i <= e
    <3>1. ~ (i > e) /\ ~ (j > e)
      BY <2>0, <2>1, <1>7, <1>14
    <3> QED
      BY <3>1, <1>6, <1>9, <1>14
  <2>2. CASE ~ (i <= e) /\ root = <<b, e + 1>>
    <3>1. R(x, i) = root
      BY <2>0, <2>2, <1>7, <1>9, <1>14
    <3>2. e + 1 <= state[b].epoch
      BY <2>2, <3>1, <1>5, <1>11
    <3> QED
      BY <3>2, <1>7 DEF e
  <2>3. CASE ~ (i <= e) /\ root = R(b, e)
    <3>1. R(x, i) = root
      BY <2>0, <2>3, <1>7, <1>9, <1>14
    <3>2. root[2] <= e
      BY <2>3, <1>5, <1>7
    <3>3. ASSUME NEW k \in Epochs, e <= k, k <= i PROVE R(x, k) = root
      <4>1. k \in Nat
        BY <1>4
      <4>2. root[2] <= k
        BY <3>2, <3>3, <4>1, <1>7, <1>10
      <4> QED
        BY <3>1, <3>3, <4>2, <1>5
    <3>4. R(x, e) = R(b, e)
      BY <2>0, <2>3, <3>3, <1>7
    <3>5. CASE j > e
      BY <2>0, <3>3, <3>5, <1>7, <1>9, <1>14
    <3>6. CASE ~ (j > e)
      BY <2>0, <3>4, <3>6, <1>6, <1>7, <1>9
    <3> QED
      BY <3>5, <3>6
  <2> QED
    BY <2>1, <2>2, <2>3, <1>1
<1>15. PrefixInv'
  <2> SUFFICES ASSUME NEW x \in Branches, NEW y \in Branches, NEW i \in Epochs,
                      state'[x].block_roots[i] = state'[y].block_roots[i],
                      NEW j \in Epochs, j <= i
               PROVE  state'[x].block_roots[j] = state'[y].block_roots[j]
    BY DEF PrefixInv
  <2>1. CASE x = y
    BY <2>1
  <2>2. CASE x = b /\ y # b
    BY <2>2, <1>3, <1>14 DEF R
  <2>3. CASE x # b /\ y = b
    BY <2>3, <1>3, <1>14 DEF R
  <2>4. CASE x # b /\ y # b
    BY <2>4, <1>3, <1>6 DEF R
  <2> QED
    BY <2>1, <2>2, <2>3, <2>4
<1> QED
  BY <1>12, <1>13, <1>15 DEF RootsOK

-----------------------------------------------------------------------------
(* The inductive invariant.                                                *)

LEMMA GenesisChainInv ==
  ASSUME NEW b \in Branches
  PROVE  ChainInv({}, GenesisState(b))
<1> DEFINE s == GenesisState(b)
<1>1. /\ s.epoch = 0
      /\ s.previous_justified_checkpoint = GenesisCheckpoint
      /\ s.current_justified_checkpoint = GenesisCheckpoint
      /\ s.finalized_checkpoint = GenesisCheckpoint
      /\ \A i \in BitIndex : ~ s.justification_bits[i]
      /\ s.previous_target = {} /\ s.current_target = {}
  BY DEF GenesisState, GENESIS_EPOCH, NoBits
<1> HIDE DEF s
<1>2. GenesisCheckpoint.epoch = 0
  BY DEF GenesisCheckpoint, Checkpoint, GENESIS_EPOCH
<1>3. GenesisInv(s) /\ Ordered(s) /\ PreviousInv(s) /\ OwnCheckpoints(s) /\ BackedByVotes({}, s)
  BY <1>1, <1>2 DEF GenesisInv, Ordered, PreviousInv, OwnCheckpoints, OnChain, BackedByVotes, Justified
<1>4. ParticipationInv({}, s) /\ BitsBacked({}, s) /\ WitnessInv({}, s)
  BY <1>1 DEF ParticipationInv, BitsBacked, WitnessInv, GENESIS_EPOCH
<1>5. CrossedInv({}, s)
  <2>1. ASSUME NEW e \in Epochs, 1 <= e, e <= 0 PROVE FALSE
    BY <2>1, BoundsAssumption DEF Epochs
  <2> QED
    BY <1>1, <1>2, <2>1 DEF CrossedInv
<1>6. ChainInv({}, s)
  BY <1>3, <1>4, <1>5 DEF ChainInv
<1> QED
  BY <1>6 DEF s

LEMMA InvariantInit == Init => IInv
<1> SUFFICES ASSUME Init PROVE IInv
  OBVIOUS
<1>1. RootsOK
  BY RootsInit
<1>2. ASSUME NEW c \in live PROVE ChainInv(votes, state[c])
  <2>1. PICK b \in Branches : live = {b} /\ state = [x \in Branches |-> GenesisState(b)]
    BY DEF Init
  <2>2. votes = {} /\ state[c] = GenesisState(b)
    BY <2>1 DEF Init
  <2> QED
    BY <2>2, GenesisChainInv
<1> QED
  BY <1>1, <1>2 DEF RootsOK, IInv

LEMMA InvariantStep == IInv /\ [Next]_vars => IInv'
<1> SUFFICES ASSUME IInv, [Next]_vars PROVE IInv'
  OBVIOUS
<1>1. TypeOK' /\ RootsOK
  BY TypeInductive DEF IInv, RootsOK
<1>2. /\ state \in [Branches -> BeaconState]
      /\ \A x \in live : x \in Branches /\ ChainInv(votes, state[x])
  BY DEF IInv, TypeOK
<1>3. ASSUME RootsOK', \A x \in live' : ChainInv(votes', state'[x]) PROVE IInv'
  BY <1>3 DEF RootsOK, IInv
<1>4. ASSUME NEW b \in Branches, NEW c \in Branches, Fork(b, c) PROVE IInv'
  <2>1. RootsOK'
    BY <1>1, <1>4, RootsForked
  <2>2. ASSUME NEW x \in live' PROVE ChainInv(votes', state'[x])
    BY <1>2, <1>4 DEF Fork
  <2> QED
    BY <1>3, <2>1, <2>2
<1>5. ASSUME NEW b \in Branches, NEW indices \in Aggregates, NEW target \in Targets(b),
             process_attestation(b, indices, target)
      PROVE  IInv'
  <2>1. target \in Checkpoints
    BY <1>2 DEF Targets, IInv, TypeOK, BeaconState, Checkpoint, Checkpoints, get_block_root
  <2>2. indices \in SUBSET Validators
    BY BoundsAssumption
  <2>3. /\ state' = [state EXCEPT ![b] = RecordTarget(state[b], indices, target)]
        /\ live' = live /\ b \in live
        /\ target.epoch \in {get_previous_epoch(state[b].epoch), state[b].epoch}
        /\ votes' = votes \cup [validator : indices,
                               source : {ExpectedSource(state[b], target.epoch)},
                               target : {target}]
    BY <1>5 DEF process_attestation
  <2>4. state[b] \in BeaconState /\ ChainInv(votes, state[b])
    BY <1>2, <2>3
  <2>5. state'[b] = RecordTarget(state[b], indices, target)
    BY <1>2, <2>3
  <2>6. \A x \in Branches : x # b => state'[x] = state[x]
    BY <1>2, <2>3
  <2>7. RootsOK'
    <3>1. /\ state'[b].epoch = state[b].epoch
          /\ state'[b].block_roots = state[b].block_roots
      BY <2>2, <2>4, <2>5, RecordTargetFacts
    <3>2. \A x \in Branches : /\ state'[x].epoch = state[x].epoch
                              /\ state'[x].block_roots = state[x].block_roots
      BY <2>6, <3>1
    <3> QED
      BY <1>1, <2>3, <3>2, RootsUnchanged
  <2>8. ChainInv(votes', state'[b])
    BY <2>1, <2>2, <2>3, <2>4, <2>5, AttestationPreserves
  <2>9. ASSUME NEW x \in live, x # b PROVE ChainInv(votes', state'[x])
    <3>1. votes \subseteq votes' /\ state'[x] = state[x]
      BY <1>2, <2>3, <2>6, <2>9
    <3> QED
      BY <1>2, <3>1, ChainInvMonotone
  <2> QED
    BY <1>3, <2>3, <2>7, <2>8, <2>9
<1>6. ASSUME NEW b \in Branches, NEW v \in Validators, process_attester_slashing(b, v)
      PROVE  IInv'
  <2>1. /\ state' = [state EXCEPT ![b] = [state[b] EXCEPT !.slashed = @ \cup {v}]]
        /\ live' = live /\ b \in live /\ votes' = votes
    BY <1>6 DEF process_attester_slashing
  <2>2. state[b] \in BeaconState /\ ChainInv(votes, state[b])
    BY <1>2, <2>1
  <2>3. /\ state'[b] = [state[b] EXCEPT !.slashed = @ \cup {v}]
        /\ \A x \in Branches : x # b => state'[x] = state[x]
    BY <1>2, <2>1
  <2>4. RootsOK'
    <3>1. \A x \in Branches : /\ state'[x].epoch = state[x].epoch
                              /\ state'[x].block_roots = state[x].block_roots
      BY <2>2, <2>3 DEF BeaconState
    <3> QED
      BY <1>1, <2>1, <3>1, RootsUnchanged
  <2>5. ChainInv(votes', state'[b])
    BY <2>1, <2>2, <2>3, SlashingPreserves
  <2> QED
    BY <1>2, <1>3, <2>1, <2>3, <2>4, <2>5
<1>7. ASSUME NEW b \in Branches, NEW root \in Root, process_epoch(b, root) PROVE IInv'
  <2>1. /\ state' = [state EXCEPT ![b] = EpochEntered(state[b], root)]
        /\ live' = live /\ b \in live /\ votes' = votes /\ state[b].epoch < MaxEpoch
    BY <1>7 DEF process_epoch, EpochEntered
  <2>2. state[b] \in BeaconState /\ ChainInv(votes, state[b])
    BY <1>2, <2>1
  <2>3. /\ state'[b] = EpochEntered(state[b], root)
        /\ \A x \in Branches : x # b => state'[x] = state[x]
    BY <1>2, <2>1
  <2>4. ChainInv(votes', state'[b])
    BY <2>1, <2>2, <2>3, EpochPreserves
  <2>5. RootsOK'
    BY <1>1, <1>7, RootsExtended
  <2> QED
    BY <1>2, <1>3, <2>1, <2>3, <2>4, <2>5
<1>8. CASE UNCHANGED vars
  BY <1>8 DEF vars, IInv, TypeOK, UnbornAtGenesis, RootsInv, PrefixInv
<1> QED
  BY <1>4, <1>5, <1>6, <1>7, <1>8
  DEF Next, BoundedAttestation, BoundedSlashing, BoundedEpoch

LEMMA Invariant == Spec => []IInv
<1> QED
  BY InvariantInit, InvariantStep, PTL DEF Spec

(* On every chain finalized, previous justified and current justified      *)
(* checkpoint stay in order, behind the epoch of the state.                *)
THEOREM CheckpointsStayOrdered == Spec => []CheckpointsOrdered
<1>1. IInv => CheckpointsOrdered
  BY DEF IInv, ChainInv, CheckpointsOrdered
<1> QED
  BY <1>1, Invariant, PTL

(* Every checkpoint of a state is a block of its own chain. *)
THEOREM CheckpointsStayOnChain == Spec => []CheckpointsOnChain
<1>1. IInv => CheckpointsOnChain
  BY DEF IInv, ChainInv, CheckpointsOnChain
<1> QED
  BY <1>1, Invariant, PTL

(* Every justified checkpoint has two thirds of the stake behind a link.   *)
THEOREM JustificationNeedsVotes == Spec => []JustifiedByVotes
<1>1. IInv => JustifiedByVotes
  BY DEF IInv, ChainInv, JustifiedByVotes
<1> QED
  BY <1>1, Invariant, PTL

(* The justification bits never claim an epoch that was not justified.     *)
THEOREM BitsStaySound == Spec => []BitsTellJustified
<1>1. IInv => BitsTellJustified
  BY DEF IInv, ChainInv, BitsTellJustified
<1> QED
  BY <1>1, Invariant, PTL

-----------------------------------------------------------------------------
(* Finality is kept.                                                       *)

LEMMA EpochKeepsFinality ==
  ASSUME NEW V, NEW s \in BeaconState, s.epoch < MaxEpoch, NEW root \in Root, ChainInv(V, s)
  PROVE  LET t == EpochEntered(s, root)
         IN /\ s.finalized_checkpoint.epoch <= t.finalized_checkpoint.epoch
            /\ OnChain(t, s.finalized_checkpoint)
<1> DEFINE t == EpochEntered(s, root)
           fin == s.finalized_checkpoint
           pj == s.previous_justified_checkpoint
           cj == s.current_justified_checkpoint
<1>1. /\ fin \in Checkpoints /\ pj \in Checkpoints /\ cj \in Checkpoints
      /\ s.epoch \in Nat
  BY BoundsAssumption DEF BeaconState, Epochs
<1>2. /\ fin.epoch \in Epochs /\ fin.epoch \in Nat /\ pj.epoch \in Nat /\ cj.epoch \in Nat
  BY <1>1, BoundsAssumption DEF Checkpoints, Epochs
<1>3. /\ fin.epoch <= pj.epoch /\ pj.epoch <= cj.epoch
      /\ cj.epoch < s.epoch \/ cj.epoch = 0
  BY DEF ChainInv, Ordered, GenesisCheckpoint, Checkpoint, GENESIS_EPOCH
<1>4. t.finalized_checkpoint \in {fin, pj, cj}
  <2>1. CASE s.epoch <= 1
    BY <2>1, EpochEnteredFacts, EpochProcessedSkips
  <2>2. CASE s.epoch > 1
    BY <2>2, EpochEnteredFacts, EpochProcessedWeighs DEF FinalizedAfter
  <2> QED
    BY <1>1, <2>1, <2>2
<1>5. t.block_roots = [x \in Epochs |-> IF x > s.epoch THEN root ELSE s.block_roots[x]]
  BY EpochEnteredFacts
<1>6. OnChain(s, fin)
  BY DEF ChainInv, OwnCheckpoints
<1> HIDE DEF t
<1>7. t.block_roots[fin.epoch] = s.block_roots[fin.epoch]
  <2>1. ~ (fin.epoch > s.epoch)
    BY <1>1, <1>2, <1>3
  <2> QED
    BY <1>2, <1>5, <2>1
<1>8. OnChain(t, fin)
  BY <1>6, <1>7 DEF OnChain, get_block_root
<1>9. fin.epoch <= t.finalized_checkpoint.epoch
  BY <1>2, <1>3, <1>4
<1> QED
  BY <1>8, <1>9 DEF t

(* No step of a chain takes back what the chain finalized. *)
THEOREM FinalityStays == Spec => FinalityNeverReverted
<1>1. ASSUME IInv, [Next]_vars PROVE [FinalityKept]_vars
  <2>0. /\ state \in [Branches -> BeaconState]
        /\ \A x \in live : x \in Branches /\ ChainInv(votes, state[x])
    BY <1>1 DEF IInv, TypeOK
  <2>1. ASSUME NEW x \in live,
               state'[x].finalized_checkpoint = state[x].finalized_checkpoint,
               state'[x].block_roots = state[x].block_roots
        PROVE  /\ state[x].finalized_checkpoint.epoch <= state'[x].finalized_checkpoint.epoch
               /\ OnChain(state'[x], state[x].finalized_checkpoint)
    <3>1. OnChain(state[x], state[x].finalized_checkpoint)
      BY <2>0 DEF ChainInv, OwnCheckpoints
    <3>2. OnChain(state'[x], state[x].finalized_checkpoint)
      BY <2>1, <3>1 DEF OnChain, get_block_root
    <3>3. state[x].finalized_checkpoint.epoch \in Nat
      BY <2>0, BoundsAssumption DEF BeaconState, Checkpoints, Epochs
    <3> QED
      BY <2>1, <3>2, <3>3
  <2>2. ASSUME NEW b \in Branches, NEW c \in Branches, Fork(b, c) PROVE FinalityKept
    <3>1. \A x \in live : state'[x] = state[x]
      BY <2>0, <2>2 DEF Fork
    <3> QED
      BY <2>1, <3>1 DEF FinalityKept
  <2>3. ASSUME NEW b \in Branches, NEW indices \in Aggregates, NEW target \in Targets(b),
               process_attestation(b, indices, target)
        PROVE  FinalityKept
    <3>1. /\ b \in live /\ indices \in SUBSET Validators
          /\ state' = [state EXCEPT ![b] = RecordTarget(state[b], indices, target)]
      BY <2>3, BoundsAssumption DEF process_attestation
    <3>2. state[b] \in BeaconState
      BY <2>0
    <3>3. \A x \in live : /\ state'[x].finalized_checkpoint = state[x].finalized_checkpoint
                          /\ state'[x].block_roots = state[x].block_roots
      BY <2>0, <3>1, <3>2, RecordTargetFacts
    <3> QED
      BY <2>1, <3>3 DEF FinalityKept
  <2>4. ASSUME NEW b \in Branches, NEW v \in Validators, process_attester_slashing(b, v)
        PROVE  FinalityKept
    <3>1. \A x \in live : /\ state'[x].finalized_checkpoint = state[x].finalized_checkpoint
                          /\ state'[x].block_roots = state[x].block_roots
      BY <2>0, <2>4 DEF process_attester_slashing, BeaconState
    <3> QED
      BY <2>1, <3>1 DEF FinalityKept
  <2>5. ASSUME NEW b \in Branches, NEW root \in Root, process_epoch(b, root)
        PROVE  FinalityKept
    <3>1. /\ state' = [state EXCEPT ![b] = EpochEntered(state[b], root)]
          /\ b \in live /\ state[b].epoch < MaxEpoch
      BY <2>5 DEF process_epoch, EpochEntered
    <3>2. /\ state'[b] = EpochEntered(state[b], root)
          /\ \A x \in live : x # b => state'[x] = state[x]
      BY <2>0, <3>1
    <3>3. /\ state[b].finalized_checkpoint.epoch <= state'[b].finalized_checkpoint.epoch
          /\ OnChain(state'[b], state[b].finalized_checkpoint)
      BY <2>0, <3>1, <3>2, EpochKeepsFinality
    <3> QED
      BY <2>1, <3>2, <3>3 DEF FinalityKept
  <2> QED
    BY <1>1, <2>2, <2>3, <2>4, <2>5
    DEF Next, BoundedAttestation, BoundedSlashing, BoundedEpoch
<1> QED
  BY <1>1, Invariant, PTL DEF Spec, FinalityNeverReverted

-----------------------------------------------------------------------------
(* Accountable safety.                                                     *)

(* Two links that contradict one another convict a third of the stake.     *)
LEMMA ContradictoryLinks ==
  ASSUME NEW V, NEW s1, NEW t1, NEW s2, NEW t2, Link(V, s1, t1), Link(V, s2, t2),
         \A v : is_slashable_attestation_data(
                  [validator |-> v, source |-> s1, target |-> t1],
                  [validator |-> v, source |-> s2, target |-> t2])
  PROVE  Balance[Slashable(V)] * 3 >= Balance[Validators]
<1> DEFINE S == Voters(V, s1, t1)
           T == Voters(V, s2, t2)
<1>1. S \in SUBSET Validators /\ T \in SUBSET Validators /\ S \cap T \in SUBSET Validators
      /\ Slashable(V) \in SUBSET Validators /\ Validators \in SUBSET Validators
  BY DEF Voters, Slashable
<1>2. Balance[S \cap T] * 3 >= Balance[Validators]
  BY <1>1, QuorumsIntersect DEF Link
<1>3. S \cap T \subseteq Slashable(V)
  <2> SUFFICES ASSUME NEW v \in S \cap T PROVE v \in Slashable(V)
    OBVIOUS
  <2> DEFINE vote_1 == [validator |-> v, source |-> s1, target |-> t1]
             vote_2 == [validator |-> v, source |-> s2, target |-> t2]
  <2>1. vote_1 \in V /\ vote_2 \in V /\ v \in Validators
    BY DEF Voters
  <2>2. vote_1.validator = v /\ vote_2.validator = v
    OBVIOUS
  <2>3. is_slashable_attestation_data(vote_1, vote_2)
    OBVIOUS
  <2> QED
    BY <2>1, <2>2, <2>3 DEF Slashable
<1>4. Balance[S \cap T] <= Balance[Slashable(V)]
  BY <1>1, <1>3, BalanceMonotone
<1>5. Balance[S \cap T] \in Nat /\ Balance[Slashable(V)] \in Nat /\ Balance[Validators] \in Nat
  BY <1>1, BalanceAssumption
<1> QED
  BY <1>2, <1>4, <1>5

(* Two links to different targets of one epoch, or from different sources, *)
(* are double votes.                                                       *)
LEMMA DoubleLinks ==
  ASSUME NEW V, NEW s1, NEW t1, NEW s2, NEW t2, Link(V, s1, t1), Link(V, s2, t2),
         t1.epoch = t2.epoch, s1 # s2 \/ t1 # t2
  PROVE  Balance[Slashable(V)] * 3 >= Balance[Validators]
<1>1. ASSUME NEW v
      PROVE  is_slashable_attestation_data(
               [validator |-> v, source |-> s1, target |-> t1],
               [validator |-> v, source |-> s2, target |-> t2])
  <2>1. [source |-> s1, target |-> t1] # [source |-> s2, target |-> t2]
    <3>1. /\ [source |-> s1, target |-> t1].source = s1 /\ [source |-> s1, target |-> t1].target = t1
          /\ [source |-> s2, target |-> t2].source = s2 /\ [source |-> s2, target |-> t2].target = t2
      OBVIOUS
    <3> QED
      BY <3>1, Zenon
  <2> QED
    BY <2>1 DEF is_slashable_attestation_data
<1> QED
  BY <1>1, ContradictoryLinks

(* A link that jumps over another is a surround vote. *)
LEMMA SurroundingLinks ==
  ASSUME NEW V, NEW s1, NEW t1, NEW s2, NEW t2, Link(V, s1, t1), Link(V, s2, t2),
         s1.epoch < s2.epoch, t2.epoch < t1.epoch
  PROVE  Balance[Slashable(V)] * 3 >= Balance[Validators]
<1>1. ASSUME NEW v
      PROVE  is_slashable_attestation_data(
               [validator |-> v, source |-> s1, target |-> t1],
               [validator |-> v, source |-> s2, target |-> t2])
  BY DEF is_slashable_attestation_data
<1> QED
  BY <1>1, ContradictoryLinks

(* The heart of the argument.  Chain c justified something at or above the *)
(* epoch of b's finalized checkpoint f, so one of its links crosses that   *)
(* epoch.  The links around f meet it at the same target epoch (a double   *)
(* vote) or lie inside it (a surround vote).                               *)
LEMMA ConflictConvicts ==
  ASSUME IInv, NEW b \in live, NEW c \in live, Conflicting(state[b], state[c])
  PROVE  Balance[Slashable(votes)] * 3 >= Balance[Validators]
<1> DEFINE s == state[b]
           t == state[c]
           f == state[b].finalized_checkpoint
           g == state[c].finalized_checkpoint
           pj == state[c].previous_justified_checkpoint
<1>1. /\ s \in BeaconState /\ t \in BeaconState /\ b \in Branches /\ c \in Branches
      /\ ChainInv(votes, s) /\ ChainInv(votes, t)
  BY DEF IInv, TypeOK
<1>2. f \in Checkpoints /\ g \in Checkpoints /\ pj \in Checkpoints
  BY <1>1 DEF BeaconState
<1>3. /\ f.epoch \in Epochs /\ f.epoch \in Nat /\ g.epoch \in Nat /\ pj.epoch \in Nat
      /\ s.epoch \in Nat /\ s.epoch <= MaxEpoch /\ MaxEpoch \in Nat
  BY <1>1, <1>2, BoundsAssumption DEF Checkpoints, Epochs, BeaconState
<1>4. f.epoch <= g.epoch /\ ~ OnChain(t, f)
  BY DEF Conflicting
<1>5. f # GenesisCheckpoint /\ f.root # get_block_root(t, f.epoch)
  BY <1>4 DEF OnChain
<1>6. f.root = get_block_root(s, f.epoch)
  BY <1>1, <1>5 DEF ChainInv, OwnCheckpoints, OnChain
<1>7. PICK k \in 1..2 :
        /\ f.epoch + k < s.epoch
        /\ Link(votes, f, CheckpointOf(s, f.epoch + k))
        /\ k = 2 => Justified(votes, CheckpointOf(s, f.epoch + 1))
  BY <1>1, <1>5 DEF ChainInv, WitnessInv
<1>8. PICK source \in Checkpoints :
        source.epoch < f.epoch /\ Link(votes, source, f)
  BY <1>1, <1>5 DEF ChainInv, BackedByVotes, Justified
<1>9. source.epoch \in Nat /\ 1 <= f.epoch
  <2>1. source.epoch \in Nat
    BY BoundsAssumption DEF Checkpoints, Epochs
  <2> QED
    BY <2>1, <1>3, <1>8
<1>10. g.epoch <= pj.epoch
  BY <1>1 DEF ChainInv, Ordered
<1>11. f.epoch <= pj.epoch
  BY <1>3, <1>4, <1>10
<1>12. Crossed(votes, t, pj, f.epoch)
  BY <1>1, <1>3, <1>9, <1>11 DEF ChainInv, CrossedInv
<1>13. PICK src \in Checkpoints, n \in Epochs :
         /\ Link(votes, src, CheckpointOf(t, n))
         /\ src.epoch < f.epoch
         /\ f.epoch <= n
  BY <1>12 DEF Crossed
<1>14. src.epoch \in Nat /\ n \in Nat
  BY BoundsAssumption DEF Checkpoints, Epochs
<1>15. /\ \A x, y : CheckpointOf(x, y).epoch = y
       /\ \A x, y : CheckpointOf(x, y).root = get_block_root(x, y)
  BY DEF CheckpointOf, Checkpoint
<1>16. k = 1 \/ k = 2
  OBVIOUS
<1>17. CASE n = f.epoch
  <2>1. f # CheckpointOf(t, n)
    BY <1>5, <1>15, <1>17
  <2> QED
    BY <1>8, <1>13, <1>15, <1>17, <2>1, DoubleLinks
<1>18. CASE n = f.epoch + k
  <2>1. src # f
    BY <1>3, <1>13, <1>14
  <2> QED
    BY <1>7, <1>13, <1>15, <1>18, <2>1, DoubleLinks
<1>19. CASE n = f.epoch + 1 /\ k = 2
  <2>1. CheckpointOf(s, f.epoch + 1) # GenesisCheckpoint
    <3>1. CheckpointOf(s, f.epoch + 1).epoch # 0
      BY <1>3, <1>15
    <3> QED
      BY <3>1 DEF GenesisCheckpoint, Checkpoint, GENESIS_EPOCH
  <2>2. PICK middle \in Checkpoints : Link(votes, middle, CheckpointOf(s, f.epoch + 1))
    BY <1>7, <1>19, <2>1 DEF Justified
  <2>3. CheckpointOf(s, f.epoch + 1) # CheckpointOf(t, n)
    <3>1. SUFFICES ASSUME get_block_root(s, n) = get_block_root(t, n)
                   PROVE  FALSE
      BY <1>15, <1>19
    <3>2. f.epoch <= n /\ n \in Epochs
      BY <1>13
    <3>3. get_block_root(s, f.epoch) = get_block_root(t, f.epoch)
      BY <1>1, <1>3, <3>1, <3>2 DEF IInv, PrefixInv, get_block_root
    <3> QED
      BY <3>3, <1>5, <1>6
  <2> QED
    BY <1>13, <1>15, <1>19, <2>2, <2>3, DoubleLinks
<1>20. CASE f.epoch + k < n
  BY <1>7, <1>13, <1>15, <1>20, SurroundingLinks
<1>21. n = f.epoch \/ n = f.epoch + k \/ (n = f.epoch + 1 /\ k = 2) \/ f.epoch + k < n
  BY <1>3, <1>13, <1>14, <1>16
<1> QED
  BY <1>17, <1>18, <1>19, <1>20, <1>21

(* Casper's accountable safety for the transition function as written: if  *)
(* two chains finalize conflicting checkpoints, validators with a third of *)
(* the stake have signed slashable attestations, all of them on chain.     *)
THEOREM SafetyIsAccountable == Spec => []AccountableSafety
<1>1. IInv => AccountableSafety
  BY ConflictConvicts DEF AccountableSafety
<1> QED
  BY <1>1, Invariant, PTL

=============================================================================
