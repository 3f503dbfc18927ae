# Verification of the Ethereum consensus specifications

Two programs are modelled here. One is the specification compiler, `setup.py` and
`pysetup/`, which turns the documents of `specs/` into Python modules. The other
is what it compiles: the Python code inside those documents, the state
transition and the fork choice of the beacon chain. This directory holds TLA+ modules translated from that
code, TLC configurations that model-check them on small instances, and TLAPS
proofs of theorems about them for every value of their constants.

Conventions: operators keep the source's function and field names; TLA+ names
of our own are in CamelCase. The definitions that `mutants` in
`PROJECT.json` names as variants are deliberately wrong: they confirm that a
property can fail, and nothing in a specification uses them. `PROJECT.json` maps every definition to the source lines it stands
for.

## 1. Inventory

| Component | Source | State | Operations | Hard behaviours | What makes it correct |
| --- | --- | --- | --- | --- | --- |
| FFG justification and finalization | `phase0/beacon-chain.md` | justification bits, previous / current justified and finalized checkpoints, participation, slashed flags | `process_attestation`, `process_attester_slashing`, `process_justification_and_finalization` at epoch boundaries | competing chains that include different votes at different times; late votes; empty epochs | conflicting finality implies a third of the stake is slashable; finality is never taken back |
| Slots, blocks, state transition | `phase0/beacon-chain.md` | slot, block roots, latest header | `process_slots`, `process_block_header`, `process_operations` | epochs without blocks, blocks that skip epochs | block roots name the chain's own blocks |
| Fork choice | `phase0/fork-choice.md` | `Store` | `on_tick`, `on_block`, `on_attestation`, `on_attester_slashing`; readers `get_head`, `get_proposer_head` | any order of clock and messages, late and repeated blocks, skipped ticks, equivocation, failing assertions | checkpoints do not depend on the order; head is a viable leaf of the finalized chain; boost and messages counted once; the re-org works |
| Later fork-choice additions | `bellatrix/`, `deneb/`, `fulu/fork-choice.md` | PoW blocks, blobs | `validate_merge_block`, `should_override_forkchoice_update`, `is_data_available` | availability that comes late | a block without data is never in the store |
| Validator registry | `phase0`, `electra/beacon-chain.md` | activation, exit, withdrawable epochs; churn balances; pending queues | `initiate_validator_exit`, `process_registry_updates`, `compute_exit_epoch_and_update_churn`, `process_pending_deposits`, `process_pending_consolidations` | limits at their bound, churn across epochs, deferred requests | churn per epoch is bounded, epochs of a validator are ordered, no balance is lost |
| Rewards, penalties, inactivity | `phase0`, `altair/beacon-chain.md` | balances, inactivity scores, slashings vector | deltas, `process_inactivity_updates`, `process_slashings` | leak, overflow | inactive stake decays until finality is possible |
| Committees and shuffling | `phase0/beacon-chain.md` | none | `compute_shuffled_index`, `compute_committee` | index arithmetic | the shuffle is a permutation; committees partition the active set |
| Eth1 deposits and voting | `phase0/beacon-chain.md`, `validator.md`, `deposit_contract.sol` | eth1 votes, deposit index, Merkle branch | `process_eth1_data`, `get_eth1_vote`, `process_deposit`, `deposit` | period boundaries | deposits applied once and in order; incremental root equals the full tree's |
| Sync committees and light client | `altair/` | `LightClientStore`; committees | `process_light_client_update`, `..._force_update` | timeouts, periods, out-of-order updates | finalized header never goes back; the client knows the committee of its period |
| Optimistic sync | `sync/optimistic.md` | optimistic roots | import, validate, invalidate | verdicts out of order | an invalid ancestor invalidates its descendants |
| Merge transition | `bellatrix/` | terminal block | `validate_merge_block`, `process_execution_payload` | two candidate terminal blocks | one transition per chain |
| Withdrawals | `capella`, `electra/beacon-chain.md` | sweep index, partial withdrawals | `get_expected_withdrawals`, `process_withdrawals` | queue against sweep | no validator is skipped or paid twice |
| Data availability sampling | `deneb`, `fulu` | columns | `get_custody_groups`, `recover_matrix` | polynomial algebra | custody assignment is total |
| ePBS (EIP-7732), inclusion lists (EIP-7805) | `_features/` | payload boosts, PTC votes; inclusion lists | `on_execution_payload`, `on_payload_attestation_message`, `on_inclusion_list` | payload and votes in any order | boosts exclude each other |
| Compiler: documents | `pysetup/md_to_spec.py` | the next element, the current heading, twelve dictionaries | `run` and a handler per kind of element | steering comments, what depends on presets through other names | comments take away what they should; the last definition of a name stands; plain constants need no preset |
| Compiler: combining and writing | `pysetup/helpers.py`, `md_doc_paths.py`, `spec_builders/`, `build_spec` | the combined dictionaries, the order of containers | `get_md_doc_paths`, `combine_spec_objects`, `dependency_order_class_objects`, `objects_to_spec` | redefinition across forks, an in-place sort that is repeated until it is stable, eleven builders | the newest definition wins; containers follow what they name; the module can be imported |
| Compiler: commands | `setup.py` | the output directory, a cache of presets | `pyspec`, `build_py`, `pyspecdev` | kills, exceptions and edits between any two files | a finished module has what it imports, and a finished build is of one piece |
| Not to be modelled | `bls.md`, polynomial commitments, `ssz/`, p2p, validator guides, tests, deprecated drafts | | | | see section 7 |

Interaction: blocks carry attestations and slashings into a beacon state
(`state_transition`); the fork choice keeps one post-state per block, reads the
checkpoints out of it, and weighs validators' latest messages by the balances
of the justified state; optimistic sync and the light client consume what the
fork choice and the states finalize. There are no threads: the concurrency is
that of messages, clock and competing chains.

The compiler reads the documents of a fork and of all forks before it, merges
their dictionaries, sorts the containers, and writes one module per fork and
preset; a module imports modules of earlier forks. It is sequential; what is hard
about it is the order in which things are read, merged and written, and that a
build may end between any two files.

## 2. Plan

Done, in this order:

1. `Justification`, `EpochProcessing`, `Finality`, with proofs of all properties.
2. `BlockTree`, `StateTransition`, `ForkChoiceStore`, `ForkChoice`, with proofs of
   all properties.
3. The compiler: `OrderedDict`, `MarkdownToSpec`, `ClassOrder` and its abstract
   specification `LinearExtension`, `SpecForks`, `BuildSpec`, `BuildCommand`, with
   proofs of all properties of a build, the written module's among them.
4. Electra's balances: `Registry`, `RegistryUpdates`, `Withdrawals`, `Balances`, with
   proofs of all their safety properties.
5. `LightClient`, with proofs of its safety properties.

What could follow: `process_inactivity_updates` and the attestation deltas over
participation flags; the fork choice of EIP-7732 as a variant of `ForkChoice`;
accountable safety lifted from two chains to two stores.

## 3. Modules

| Module | Models |
| --- | --- |
| `Justification` | the FFG arithmetic of one state: bits, newly justified checkpoint, the four finality rules |
| `EpochProcessing` | `get_total_balance`, the target bookkeeping of `process_attestation` and the epoch boundary, on a state record |
| `Finality` | any number of branches that fork, include votes and slashings and cross epochs |
| `FinalityInv`, `FinalityProofs` | the inductive invariant and the proofs |
| `BlockTree` | the blocks that exist, epochs and slots, `get_ancestor` |
| `StateTransition` | `state_transition` along the tree: the post-state of every block, and the same pulled up to its epoch's end |
| `ForkChoiceStore` | the `Store` and the functions that read it |
| `ForkChoice` | the handlers and the node's behaviour |
| `FoldOf` | what a loop over a list or a recursion computes, step by step: lemmas for the proofs |
| `ForkChoiceProofs` | the invariant of the store and the proofs |
| `Registry` | an Electra state's validators, balances and churn, and the mutators other operations use |
| `RegistryUpdates` | the registry parts of `process_epoch` in its order |
| `Withdrawals` | `get_expected_withdrawals`, `process_withdrawals` |
| `Balances` | slots, blocks and operations over such a state; extends the three above |
| `BalancesProofs` | the invariant of state and queues and the proofs |
| `LightClient` | the light client's store, the updates of a chain, when they are fetched and forced |
| `LightClientProofs` | its invariant and proofs |
| `OrderedDict` | Python dictionaries: where a name stands and what it holds |
| `MarkdownToSpec` | the class of that name, element by element |
| `SpecForks` | the table of forks, `get_md_doc_paths`, the eleven spec builders |
| `ClassOrder` | the loop of `build_spec` around `dependency_order_class_objects`, one reinsertion at a time |
| `LinearExtension` | what that loop promises, as one step |
| `ClassOrderProofs` | its invariant, its proofs and the refinement |
| `BuildSpec` | `build_spec` from the files to the statements of the module; extends `MarkdownToSpec` and `SpecForks` |
| `BuildSpecInv`, `BuildSpecProofs` | the invariants of the parser and of the build that combines, orders and writes, and the proofs |
| `BuildCommand` | the commands of `setup.py` and the output directory |
| `BuildCommandProofs` | the invariant of a full build and the proofs |
| `MCFinality`, `MCForkChoice`, `MCClassOrder`, `MCDocuments`, `MCBuildSpec`, `MCBuildCommand`, `MCBalances`, `MCLightClient` | instances, trees, votes, documents and vacuity probes for TLC |

`EpochProcessing` is used twice: by `Finality`, where chains grow step by step
under an adversary's choice of votes, and by `StateTransition`, which computes
the fixed post-states of a tree of valid blocks for the fork choice.

### Finality

`state[b]` is the `BeaconState` at the tip of branch `b`; `Fork` starts a second
branch at any point; `process_attestation`, `process_attester_slashing` and
`process_epoch` are the handlers. A vote is kept in `votes` when a block includes
it: these are the votes a slasher can see. `current_target` and
`previous_target` are the validators whose vote for the chain's own checkpoint
was included (matching target attestations of phase 0, timely-target flags of
Altair). A validator may vote for anything the code accepts, so the adversary is
as strong as the code lets it be. A block root is a pair of the branch and the
epoch it starts; an epoch in which the chain has no new boundary block keeps the
old root.

Abstracted: slots inside an epoch, signatures, committees (any set of validators
may attest), inclusion delay, rewards, and changes of the active set and
balances. With a changing validator set the two-thirds argument needs
the weak-subjectivity bound, which is not modelled.

### Fork choice

`store` is one record with the fields of the class `Store`. A handler is an
operator from store to store, with its assertions in a separate
`is_acceptable_...` operator; an action is the handler under that guard. A
failed assertion leaves the store as it was, as the document requires, so it is
the stuttering step. `checkpoint_states` is the set of checkpoints whose state
was stored and `blocks` the set of received roots, because what the code keeps
under these keys is a function of the key.

`on_tick` is given in closed form; `CatchUp` compares it with the loop of the
code. `filter_block_tree` is given as the set it computes: a block is kept when
some leaf under it is viable. `get_head`'s descent is a recursive function.
Block roots are numbers, compared where the code compares roots.

`PostState` and `PulledUpState` are constants of `ForkChoiceStore`: the fork
choice is modelled for any table of post-states. The instances take them from
`StateTransition`, whose assumption `BlocksValid` has TLC check that each block
of a tree passes the assertions of `process_attestation`.

The environment: any later time of a set `Times` may be reported, so ticks skip
slots and epochs; blocks arrive whenever the parent is known and the handler
accepts them, repeatedly if it likes; attestations of a block arrive after it, at
any distance or never; attestations and slashings on the wire at any time.

### Electra balances

`state` is one record with the fields of `BeaconState` that concern validators and
their money. `stage` is how far the block of the present slot is:
`process_withdrawals` comes first, then operations in the order of
`process_operations` (slashings, deposits, exits, changes of BLS credentials, deposit
requests, withdrawal requests, consolidation requests), any number of each kind up to
the bound. An operation whose assertions fail makes the block invalid and is no step;
a request that the code ignores changes nothing and is no step either. Epoch processing is
one operator that calls its parts in the order of `process_epoch`. Two fields of
the state record what the code does not keep: `supply`, the money that has come
in less what has been paid, burnt or penalised, and `exits`, what left in which
epoch.

Abstracted: which validator gets which reward or penalty (in a `course` everyone
eligible has the same delta), rewards of the proposer and of the sync committee,
signatures (`valid` of a deposit; a change of BLS credentials is signed by its key), the
address of a withdrawal (a request's source is a key), and the proposer of a slashing
(one of `Proposers`). A `course` also fixes which slots have a block and how far finality lags. The instance has
one slot per epoch, so every block is next to an epoch's end, and the last slot
stands for all later ones. That the queue of partial withdrawals leaves the sweep
room in every block is assumed (`WithdrawalConstants`), as in the presets.

### Light client

A header is known by its slot and a sync committee by its period; `chain` gives
every block its parent, the participants of its sync aggregate and the block its
state has finalized. An update is derived from a block as `full-node.md` derives
it, with or without finality. Pushed updates of any past block and updates of the
periods a client asks for arrive in any order, repeatedly or never. The
assertions of `validate_light_client_update` that compare roots and verify
signatures hold for derived updates by construction; those about slots and
periods are guards. Which
periods are asked for, and how close to the present a client listens to pushed updates,
follows `light-client.md`; the forced update may come at any time after its
timeout.

### Specification compiler

A document is a sequence of elements: headings, code blocks, tables, steering
comments and the rest. Of a definition the model keeps its kind, its name, an
opaque text and the set of names it mentions; of a table row also the shape of
its value and what it evaluates to. Matching a name as a substring is modelled as
mentioning it. `MarkdownToSpec` has an action per kind of element; a handler that
raises leads to the status `error`. `BuildSpec` runs that machine on every
document in turn, then combines, orders and writes with the operators of
`helpers.py`. The written module is the sequence of its top level statements,
each with the name it binds and the names Python looks up when it executes it
(bodies of functions are not executed), so that importing is a property of the
sequence.

`ClassOrder` looks at the ordering alone, at a finer grain: the dictionary is the
position of every class, a pass copies it and then takes one dependency of one
class at a time. `BuildSpec` uses the same pass as one operator.

`BuildCommand` reduces a module to the run and the editions of documents and
presets it was made from. `open(..., "w")` and `write` are two steps, for the modules and
for `__init__.py`, so a kill may leave either empty. Documents are read when a module is
built, preset files once per process.

## 4. Runs

| Run | Question | Instance and bounds |
| --- | --- | --- |
| `finality_byzantine` | Can any votes, for own or foreign checkpoints, make a state call something justified that is not? | 2 validators with stakes 2 and 1, 2 branches, epochs 0-4, 3 votes, 1 slashing, epoch 2 may be empty |
| `finality_double_votes` | Is the culprit of conflicting finality convicted, and do the bits mean what the rules assume? | 3 equal validators voting in overlapping pairs, 8 votes, epochs 0-4 |
| `finality_surround` | The same without double votes: branches up to an epoch apart; is finality ever taken back? | one validator of two thirds votes, epochs 0-6, 4 votes, 1 slashing |
| `fork_choice_finality` | Do the store's checkpoints follow the blocks alone; is the head always a viable leaf; is catching up the same as ticking? | 9 blocks over epochs 0-4 of two slots, three branches that finalize epoch 2 and a rival block whose slashing takes a justification back, 3 validators, clock at slot starts and after the attestation deadline |
| `fork_choice_reorg` | Do boost, latest messages and the proposer's re-org work under competition, votes, equivocation? | 7 blocks around one late head, four slots an epoch, 4 validators, 4 votes on the wire, one slashing |
| `class_order` | Does the loop end, on an order that is right, without losing a class; is that one step of `LinearExtension`? | 4 classes with every circle-free set of dependencies; 3 with every set, unknown and ignored names |
| `build_spec` | What do comments take away, which definition stands, can the module be imported? | all documents of up to 4 out of 9 code or 11 table elements; for each of 11 forks 196 trees, in which a document of phase0 and one of altair say 14 things each |
| `build_command` | What is on disk after builds, edits, exceptions and kills? | 5 forks, 2 runs, 3 editions, 8 command lines |
| `balances` | Is money ever lost or paid twice, does more leave than the churn allows, is what may be withdrawn paid in the end? | 4 keys (one not yet in the registry), slots and epochs 0-5, 3 operations of 7 kinds, 4 courses: a missed slot, penalties, finality three epochs behind |
| `light_client` | Are the store's committees those of its header; can the kept update always be forced; does the client come within a period of the present? | 4 chains of 14 slots and 3 periods: with and without finality, supermajorities and blocks at a period's start |
| `head_withheld_block` | finding 1 | 5 blocks, one of which may be withheld |
| `timeliness_redelivered` | finding 2 | the instance of `fork_choice_reorg` |

Why the bounds are enough. Finality rules reach back three epochs, so a conflict
takes two justifications on each of two branches: epochs 0-4 hold the shortest
one and 0-6 leave room for a skewed one, and one for the epochs after it. `NoConflict` in `MCFinality` was
found violated in both conflict runs, by double votes in one and by surround
votes alone in the other, so accountability is not vacuous. In the fork choice, the finality tree has a block that
finalizes within its epoch, one that does so an epoch later and a branch that
falls behind, and `NothingFiltered` was found violated: the filter does drop
branches. `NoReorg` was found violated: the proposer does decide to re-org.

All passing runs but `balances` switch off the deadlock check: time, epochs and votes are
bounded, so the model stops where the bounds are reached.

Four elements are enough for a comment to meet a comment, a heading and a
definition; four tables for a constant that depends on a preset at three removes.
Two documents that vary are enough for every pair of definitions to collide in
both orders, and 679 of the 1733 modules written are `Conventional`, so
`WrittenModuleRuns` is about real cases. Two builds and three editions are enough
for a kill in one build to be seen by the next and for an edit between the
documents of two forks of a build.

Three operations are enough for each hazard of `balances`: a consolidation that waits
behind another, a partial withdrawal queued before the exit of its validator, two
exits that share an epoch's churn, a deposit that is put off because its
validator leaves. Five epochs are enough for a validator to enter, be slashed,
become withdrawable and be paid. A period of four slots is the shortest in which
the light client can finalize within a period (a block's state has finalized the
one two slots before it); with a chain over three of them
it goes through two changes of the committee, one of which may be forced.

Fairness is assumed in three runs. `class_order`: the compiler is a single
sequential program, so as long as a step is possible one is taken (`WF` of the
next-state relation), and `Terminates` says that its loop ends whenever classes
name each other in no circle. `balances`: slots pass and their blocks come
(`ChainGrows`), but no operation ever has to be included, so `WithdrawableIsPaid`
rests on the sweep alone. `light_client`: the clock goes on, an update that
`light-client.md` says to fetch arrives in the end, and a client that is stuck forces the
kept update, as that document allows; `CatchesUp` says that this suffices
without finality. Elsewhere no liveness is stated: nothing in the
consensus code promises that a message arrives or a validator votes, and a build
may be killed.

Type invariants and a few shallow ones (`CheckpointsOrdered`, `OptimisticNotBehind`)
that are proved for every value of the constants are not run again.

The weights of `fork_choice_reorg`: 4 validators of 10 and four slots an epoch
give a committee of 10, a boost of 4, and re-org thresholds of 2 and 16, so one
vote is enough to save a late head and two votes make a parent strong.

## 5. What is proved

TLC evaluates every assumption named below on the instances of section 4.

`FinalityProofs` proves, for all finite or infinite sets of validators and branches, any
additive balances and any bounds:

| Theorem | States |
| --- | --- |
| `TypeCorrect` | `TypeOK` |
| `CheckpointsStayOrdered` | `CheckpointsOrdered` |
| `CheckpointsStayOnChain` | `CheckpointsOnChain` |
| `JustificationNeedsVotes` | `JustifiedByVotes` |
| `BitsStaySound` | `BitsTellJustified` |
| `FinalityStays` | `FinalityNeverReverted` |
| `SafetyIsAccountable` | `AccountableSafety` |

Assumptions: `BalanceAssumption` (the balance of a union of disjoint sets is the
sum), `IncrementAssumption` (total stake above one and a half increments: below
it the floor of `get_total_balance` would justify without a vote),
`BoundsAssumption` (types of the bounds).

The argument. None of the properties is inductive: a state's finalized
checkpoint is right because of what two or three earlier boundaries did.
`FinalityInv!IInv` records it: block roots of a branch are constant between the boundary
blocks that set them and never later than the epoch they stand for; branches
that agree at an epoch agree before it; participation is backed by votes with
the source the state expects; each bit is backed by a link; previous and
current justified checkpoints are on the chain and backed. It is preserved by each action
(one lemma per action and conjunct group), and safety follows by the usual two steps: two
supermajority links into one epoch overlap in a third of the stake, whose double votes
convict it; and a link that jumps over a finalized checkpoint and its successor
is a surround vote.

`ClassOrderProofs` proves, for any set of classes, names and starting order:

| Theorem | States |
| --- | --- |
| `ClassOrderTypes` | `TypeOK` |
| `LoopSorts` | `OrderedWhenDone` |
| `LoopKeepsClasses` | `NoClassLost` |
| `LoopImplementsSorting` | `ImplementsSorting`, that is `Spec => Sorting!Spec` |

from the assumptions that classes are among the names (`ClassesAreNames`) and
start at positive positions (`PositionsAreNumbers`). What needs an argument is
that the loop's test is right: it stops when a pass leaves the order *as it
was*, and a pass could move classes and move them back. The invariant keeps the
set `moved` of the classes a pass moved. If the order comes out unchanged
although some class was moved, every moved class has a dependency that was
moved too; a set in which each class names another of the set is a circle.
Without circles, then, nothing was moved, and every dependency the pass looked at
was already in place.

`ForkChoiceProofs` proves, for any tree of blocks, any table of post-states, any
messages and any times reported:

| Theorem | States |
| --- | --- |
| `StoreTypes` | `TypeOK` |
| `CheckpointsFollowBlocks` | `RealizedCheckpoints` |
| `UnrealizedFollowBlocks` | `UnrealizedCheckpoints` |
| `JustifiedStaysOnFinalized` | `JustifiedExtendsFinalized` |
| `StoreFinalityStays` | `FinalityMovesForward` |
| `OneBoostPerSlot` | `BoostOncePerSlot` |
| `MessagesOnlyAdvance` | `OneMessagePerEpoch` |
| `TicksCatchUp` | `CatchUp` |
| `HeadsAreViableLeaves` | `HeadIsViableLeaf`, from an anchor at `GENESIS_EPOCH` |
| `ReorgsSucceed` | `ReorgSucceeds`, with `REORG_HEAD_WEIGHT_THRESHOLD <= PROPOSER_SCORE_BOOST` |

Assumptions: `BlockTreeAssumption` (parents come before their children, the anchor
starts its epoch), `ConfigAssumption`, `TimesAssumption`, `MessagesAssumption` (types),
`StatesAssumption`. The last says of the table of states what `state_transition`
gives: checkpoints are ordered and on the chain as `Finality` proves, pulling a
state up takes no justification or finality back, justification
moves at the ends of epochs only, so that a block starts from what its parent's state,
pulled up where an epoch lies between, had. The theorems about descent and the head also use
`NoConflictingFinality`: no two states of the tree conflict in what they finalize,
which `SafetyIsAccountable` gives unless a third of the stake is slashable.

A handler moves each of four checkpoints on its own, comparing with the old one
alone, and the clock decides when unrealized ones count. The invariant
(`LatestCheckpoints`) says that each is nevertheless the latest of a set that
depends on the received blocks and the present epoch only; a handler enlarges that
set by what it compares with, and the tick at an epoch's start by exactly the
unrealized ones. The descent of justified from finalized then follows from the
tree alone: the justified epoch is not behind the finalized one.

The head. `TreeSound` adds that the received blocks are finite, closed under
parents and have the unrealized justifications of their states. The block that
realized the justified checkpoint is in the store; it, or one of its descendants
that is a leaf, passes the test of `filter_block_tree`, so a branch is left, and a
descent by weight through blocks that lead to viable leaves ends at one. Two
situations are excluded because the filter then really discards every branch,
as TLC showed when the property was stated without them. A block may carry a slashing that takes
away stake the justification rested on, so that its state pulled up justifies less than
its parent's: the property's premise `JustificationKept`. And the store's
checkpoints may stay at an anchor that is not the genesis while the states of the blocks
already have their own: the hypothesis of the theorem. For the re-org, the weight
of the late head is below its threshold, which the boost of the new
block reaches, and an arriving block changes no other weight.

`LightClientProofs` proves, for any chains, any length of a period and any
committee size, `StoreTypes` (`TypeOK`), `CommitteesFollowHeader`
(`CommitteesMatchHeader`), `OptimisticKeepsUp` (`OptimisticNotBehind`),
`MissingCommitteeIsAskedFor` (`MissingCommitteeIsFetched`), `ForcedUpdateNeverFails`
(`BestUpdateStaysApplicable`) and `HeadersNeverMoveBack` (`HeadersMoveForward`), from
`LightClientConstants` and `ChainsAssumption` (a chain's blocks come after their
parents and after what they finalize). What needs an argument is the kept update:
it was checked against a store of the past. The invariant says that its period
is not behind the store's and its signers are a committee the store knows; learning
the next committee keeps this, and whatever moves the store into
the next period drops the update.

`BalancesProofs` proves, for any registry, any requests in any order, any course
of rewards, penalties, finality and empty slots:

| Theorem | States |
| --- | --- |
| `TypeCorrect` | `TypeOK` |
| `MoneyConserved` | `Conserved` |
| `ExitsAlwaysWithinChurn` | `ExitsWithinChurn` |
| `CarryAlwaysWaits` | `CarryWaitsForHead` |
| `ConsolidatedInTime` | `ConsolidatedBeforeWithdrawable` |
| `StakeAlwaysKept` | `StakeKept` |
| `ExitsKeepWithinChurn` | the induction step for exits: a theorem about `compute_exit_epoch_and_update_churn` |

Assumptions: `RegistryConstants`, `EpochConstants`, `WithdrawalConstants` and
`BoundsAssumption` (types, and the order of those presets that have one),
`InitialStatesAssumption` (a chain starts as
`upgrade_to_electra` leaves it), `InputsAssumption` (types of requests and courses) and
`FarFutureAssumption`: no queue grows to `FAR_FUTURE_EPOCH`, the 2^64 - 1 of the code.

The invariant `Inv` has five parts. `Sound`: every validator's epochs are in
order and its effective balance is at most what its credentials allow, and what left
since any exit, together with what is left of the present epoch's churn, is at
most the maximal churn of the epochs since. `Surplus` is zero: balances and
queued deposits are the supply, where each part of a block or an epoch is shown to
move as much as it records. `Carry`: churn is carried over only for a
deposit at the head that is larger than it. `Moving`: the sources of the consolidations
that wait have exited, become withdrawable in the order of the queue unless they are
slashed, and not before the next epoch; this is why the loop that stops at the
first unripe entry misses none. The last part bounds the
queue's epoch by the operations so far. Every part of `process_epoch` and of a block is a
lemma: which fields it may change (`SameBut`), that validators keep what an exit
settled (`Kept`), what it does to the surplus.

Sums, `FoldLeft`s and recursive functions are reasoned about by `FoldOf`:
`FoldHasCourse` gives the sequence of the values of a loop's state,
and `WalkExists` the equation of a recursion with a decreasing measure. The module is
instantiated with the body of each loop. Its theorems assume induction for sets of
naturals (`NatInduction`) rather than rest on the library, because whatever an instance brings along is
in front of the provers in every step (with the library in it, the proofs of the
compiler took half as long again). The modules with loops prove it once, from the least number of a set
(`NatSetInduction`), and from it `UpTo`: what holds before a loop and is kept by every turn
holds after each.

`BuildCommandProofs` proves, for any forks that import older ones, any commands and
any number of runs, with edits, exceptions and kills at any step:

| Theorem | States |
| --- | --- |
| `PrefixCanBeImported` | `PrefixImportable` |
| `PackagesAreComplete` | `PackagesComplete` |
| `DoneMeansCurrent` | `DoneIsCurrent` |

from `BuildersAssumption` (what a fork imports stands before it in `spec_builders`),
`FilesAssumption` and `CommandsAssumption` (types). Modules of earlier runs stay on
disk, and nothing marks them as old; the invariant (`FullBuild`) says which files are of this
run: all files of every fork that is behind the loop, the presets of the present fork
that are behind the inner loop, and nothing ahead. Each was made from
documents no newer than those of the forks after it, since a module is read and
written before the next is read, and from the one edition of its preset that
the process has cached.

`BuildSpecProofs` proves, for any documents of any length and any trees of them,
with `BuildSpecification` (documents one after the other) and for a document on its
own (`DocumentIsRead`):

| Theorem | States |
| --- | --- |
| `DictionariesTyped` | `TypeOK` |
| `LastDefinitionsStand` | `LastDefinitionStands` |
| `HeadingsNameClasses` | `ClassesUnderTheirHeading` |
| `PlainBeforePresets` | `PlainNeedsNoPreset` |
| `NewestDefinitionsStand` | `NewestDefinitionStands` |
| `ClassesFollowTheirs` | in a written module every class stands behind those it depends on |
| `WrittenModulesRun` | `WrittenModuleRuns` |

from `DocumentsAssumption` (what is defined has a name, and none is
called like the modules that the trusted setup adds), `TargetsAreForks`,
`TreesAssumption` (the files of a fork are documents, and a build reads at least one),
`ConfigNamesDiffer` and `NoNameIsNone` (the names that the compiler and its builders write are
names; it is listed because names are a parameter of the model). The properties speak of the
finished document; the invariant says how far it is read. The element the parser is at is not one that a
comment takes away, although each handler decides by how many elements it moves
on; the current heading is the last one before it that counts; each dictionary holds
exactly the definitions before it, the last of each name; and the
plain constants mention neither a preset nor a constant that depends on one. The
last rests on the order of rows alone: a row is
classified when it is read, so what it mentions must stand before it
(`DeclaredBeforeUse`). What comments take away is a recursion over the places
of a document, the loops over definitions and rows are folds: both go through `FoldOf`.

`NewestDefinitionsStand` follows a definition from its document to the module, for all
eleven forks and any files. `CompilerInv` (of `BuildSpecInv`) has a part for each phase. `Sources`:
the documents are those of `get_md_doc_paths`; the table `PREVIOUS_FORK_OF` decides which
forks they belong to, and `LaterForksBuildOnMore` says that the order of
`ALL_FORKS`, in which they are read, never puts a fork behind one that builds on fewer, whichever draft
is built (this would fail for two drafts in one build). `ReadFiles`: each
document read so far has a SpecObject that `Says` what it declares and nothing else.
`Compiled`: the combination has for every name what the last of the SpecObjects
with that name says (`Combined`, kept by `MoreCombined`), a pass over the classes only
permutes them (`PassIs`, through `Reinserted`, for any dependencies and any order in which a
set of them is listed), and the module is written from these two. `ModuleTells` then
goes through the eighteen pieces of the module: the piece of a name's section binds it to the
text of its entry, and every other piece is silent about it or says the same, because
the name is in one section and no builder writes it (`BuildersAre` looks at all eleven). The
names that builders write or rewrite (`BuilderNames`) are excluded in the property itself.

`ClassesFollowTheirs` adds to `CompilerInv` what the loop of passes leaves (`Passed`): the module is
written after a pass that changed nothing. A pass puts every class behind its
dependencies one after the other, and a class that was put behind one is never taken in front of it again by
that pass unless they depend on each other in a circle. So if something stands in front of its dependency
at the end, take the last such class: the pass had moved it (`SettledIsOrdered`).

`WrittenModulesRun` says that python can execute a written module from its first
statement to its last: every name is bound before it is looked up and every assertion holds, for
all eleven forks and documents that are `Conventional`. The conventions are what nothing in the compiler
checks: a row needs what was declared before it or is written in an earlier section (`RowsInOrder`),
a name has one section (`NamesApart`), classes do not mention each other in a
circle (`ClassesInOrder`), nothing mentions what no document defines
(`MentionsKnown`), and the documents have what the builders count on (`BuildersServed`). What the compiler
contributes is proved:

- Order within a section. A section lists its names in the order of the rows that declared them
  first, through the tables of one document (`Placed`) and the combination of all of them
  (`RowsCombined`), although each has the value of the row that declared it last; so whatever a
  redefinition may need has to be there at the first declaration (`RowsSorted`).
- Order of the classes, from `ClassesFollowTheirs`; config variables are read through `config`.
- Order of the pieces. `Loads(p, known)` says of a list of statements that it can be executed where
  `known` is bound. `LoadsMore` joins lists, and `ModuleLoads` goes through the eighteen pieces with
  what is bound before each.
- The builders. Each finds what its pieces need in its own pieces before, in those of older forks, or among the
  names the conventions promise (`Pieced`, for every builder). A fork has the imports
  and classes of all the forks it builds on, so `BLSFieldElement` of deneb is there
  for fulu (`LineagesAre`), and the engine that wins comes with what it needs (`SundryLoad`).
- Assertions. What is asserted of a name is what is bound to it last: generalized indices by the hardcoded
  constants, depths of proofs by the preset file, and no other piece binds one of these names (`ReservedTells`).

## 6. Only model-checked

Liveness is out of the prover's reach: that the ordering loop ends, that what is
withdrawable is paid, that the light client catches up. Every invariant and every action
property of the passing runs has a theorem. `BuildersServed` and the other
conventions are hypotheses of `WrittenModulesRun`; that the documents under `specs/` keep
to them is not shown here.

### Findings

1. `head_withheld_block`: `get_head` may have no value. `get_weight` reads the
   state of the justified checkpoint from `checkpoint_states`, which only
   `on_attestation` fills, while `on_block` and `on_tick` move the justified
   checkpoint. If the votes that justify it are for a block the node has not
   got (included in another block that it has), `on_attestation` rejects them
   all. Every attestation the store would take has been given to it, and
   `get_head` still raises `KeyError`, until the block or another vote with
   that target arrives. The document: "The head block root associated with a
   `store` is defined as `get_head(store)`".
2. `timeliness_redelivered`: `on_block` accepts a block it already has and
   recomputes `block_timeliness`, so a block that arrived in time is late after
   a second delivery, and `get_proposer_head` may give it up. The document:
   "Only re-org the head block if it arrived later than the attestation
   deadline."

`HeadIsViableLeaf` and `ReorgSucceeds` are stated for stores in which the head
is defined.

Three disagreements of the compiler with its comments are known and have no run:
`combine_ssz_objects` (`helpers.py:336`) says it returns the objects in dependency
order but leaves a redefined container in its old place (the loop of `build_spec`
sorts later); `_finalize_types` files a type that depends on a preset through a
constant of *another* document as one that does not (`typing.py:21`; no document
has one today); and the message of `setup.py:156` for an unknown fork is never
reached, because `is_post_fork` raises `KeyError` first.

## 7. Not modelled

Cryptography (BLS, KZG) and SSZ hashing: signatures and roots are taken as
valid and collision-free. Networking has no code to model beyond what handlers
receive. Optimistic sync is a document of requirements without handlers. The merge
transition is past and its inputs, the proof-of-work chain, are outside;
`is_data_available` and `should_override_forkchoice_update` ask the
execution engine and the network. Committees and shuffling are index
arithmetic on hashes: the models allow any set of validators as a committee,
which is more than the code does. Of rewards, the deltas of attestations and
the inactivity scores are left out, of deposits the votes on Eth1 data and the
Merkle tree of the contract, of sync committees what the beacon chain does with
them. The exit queue before Electra counts validators instead of balances
and is replaced by the one modelled here. An anchor that does not start its epoch
is excluded by assumption; with one, `get_checkpoint_block` would look below it.

Of the compiler, Markdown and Python parsing, the evaluation of values
in `check_yaml_matches_spec` and the layout of the text are taken as given; the
test generators and `scripts/` write files and nothing else. Deprecated drafts and the Whisk and Verkle drafts are left out.
So are the drafts EIP-7732 and EIP-7805, which change the fork choice.
